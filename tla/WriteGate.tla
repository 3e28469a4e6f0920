----------------------------- MODULE WriteGate -----------------------------
(***************************************************************************)
(* services/write-gate.ts: the object every mutating HTTP request passes   *)
(* and a restore closes.  Its methods are synchronous up to their first    *)
(* await, so each is one step; the promise refuseNewWrites returns is the  *)
(* entry drain[id], which its caller reads in a later step.                *)
(*                                                                         *)
(* The module gives the state and the methods as actions on it; modules    *)
(* that compose the gate with the requests that use it EXTEND it and bind  *)
(* every variable the actions leave to them.                               *)
(***************************************************************************)
EXTENDS FiniteSets

CONSTANTS Request,    \* the ids of HTTP requests
          NoRequest   \* the value of #except when the gate is open

ASSUME NoRequestAssumption == NoRequest \notin Request

VARIABLES refusing,   \* whether #reason is not null
          except,     \* #except: the request that closed the gate
          inFlight,   \* #inFlight: the admitted writes not yet finished
          drain       \* what each refuseNewWrites call has been answered

gateVars == <<refusing, except, inFlight, drain>>

\* "none": no call outstanding; "waiting": a member of #waiters; the others are
\* the settled promise, not yet consumed by its caller.
DrainAnswer == {"none", "waiting", "drained", "notDrained"}

GateTypeOK ==
    /\ refusing \in BOOLEAN
    /\ except \in Request \cup {NoRequest}
    /\ inFlight \subseteq Request
    /\ drain \in [Request -> DrainAnswer]

GateInit ==
    /\ refusing = FALSE
    /\ except = NoRequest
    /\ inFlight = {}
    /\ drain = [id \in Request |-> "none"]

\* #others() and #isDrained(), of a given in-flight set and exception.
Others(ids, but) == ids \ {but}
IsDrained(ids, but) == Others(ids, but) = {}

\* Resolve every waiter with one answer and empty #waiters.
TellWaiters(answer) ==
    [id \in Request |-> IF drain[id] = "waiting" THEN answer ELSE drain[id]]
-----------------------------------------------------------------------------
\* A gate that goes on admitting while it is closed.
AdmitAlways(id) ==
    /\ inFlight' = inFlight \cup {id}
    /\ UNCHANGED <<refusing, except, drain>>

\* admit(id), the branch that lets the write in; a refused id is never recorded.
Admit(id) ==
    /\ ~refusing
    /\ inFlight' = inFlight \cup {id}
    /\ UNCHANGED <<refusing, except, drain>>

\* finish(id), idempotent, with the #settle it makes when it removed an id.
Finish(id) ==
    /\ inFlight' = inFlight \ {id}
    /\ drain' = IF id \in inFlight /\ refusing /\ IsDrained(inFlight \ {id}, except)
                THEN TellWaiters("drained")
                ELSE drain
    /\ UNCHANGED <<refusing, except>>

\* A close that does not wait: every call is answered "drained" at once.
CloseWithoutDraining(id) ==
    /\ ~refusing
    /\ refusing' = TRUE
    /\ except' = id
    /\ drain' = [drain EXCEPT ![id] = "drained"]
    /\ UNCHANGED inFlight

\* refuseNewWrites({except: id}) on an open gate: close, then wait for the rest.
RefuseNewWrites(id) ==
    /\ ~refusing
    /\ refusing' = TRUE
    /\ except' = id
    /\ drain' = [drain EXCEPT ![id] =
                    IF IsDrained(inFlight, id) THEN "drained" ELSE "waiting"]
    /\ UNCHANGED inFlight

\* The timer refuseNewWrites sets: leave #waiters, resolve false.
DrainTimeout(id) ==
    /\ drain[id] = "waiting"
    /\ drain' = [drain EXCEPT ![id] = "notDrained"]
    /\ UNCHANGED <<refusing, except, inFlight>>

\* resume(), called by id, which has consumed its own answer.
Resume(id) ==
    /\ refusing' = FALSE
    /\ except' = NoRequest
    /\ drain' = [TellWaiters("notDrained") EXCEPT ![id] = "none"]
    /\ UNCHANGED inFlight
=============================================================================
