--------------------------- MODULE IntakeSessions ---------------------------
(***************************************************************************)
(* Uploads waiting for a decision: IntakeSessionStore of                   *)
(* services/intake-plan.ts, the work directories services/intake.ts stages *)
(* them in, and the routes that inspect, apply and discard a restore       *)
(* (routes/restore.ts) or an import (routes/import.ts).                    *)
(*                                                                         *)
(* An upload, its work directory and its plan id are one element of Plan.  *)
(* What a directory holds is a decrypted archive, mail.key among it.  The  *)
(* process may die at any step; the directories survive it, until the      *)
(* sweep of the next boot, which nobody awaits: it may list them late, when*)
(* there are new ones.  A removal may fail, which the store passes over.   *)
(* Of the write gate only what module RestoreGate establishes is used:     *)
(* while a restore has it no other POST begins, and the restore goes on    *)
(* once every other is over, or is forgotten because its client has hung   *)
(* up.                                                                     *)
(***************************************************************************)
EXTENDS FiniteSets, Naturals

CONSTANTS
    Request,    \* slots of HTTP requests
    User,
    Plan,       \* plan ids, each used again once nothing of it is left
    None,
    MaxCrashes, \* bound on how often the process dies
    MaxStuck    \* bound on the directories left over failed removals

ASSUME IntakeAssumption ==
    /\ None \notin Request \cup User \cup Plan
    /\ MaxCrashes \in Nat
    /\ MaxStuck \in Nat

Kind == {"restore", "import"}

\* The store's capacity, which app.ts leaves at its default.
Capacity == 1

VARIABLES
    pc,         \* where each request's handler is
    user,       \* whom each request is from, or None
    plan,       \* the plan each request makes, looks up or uses, or None
    gone,       \* requests still handled whose client has hung up
    kind,       \* what each plan is for, or None
    owner,      \* who uploaded it, or None
    sessions,   \* #sessions: the plans held
    inFlight,   \* #inFlight: the plans inside use()
    expired,    \* plans whose expiresAt has passed
    disk,       \* the work directories that exist
    removing,   \* directories a sweep of the store is removing
    booting,    \* the sweep at boot has not listed the directories yet
    orphans,    \* those a dead process left, until then
    leftovers,  \* directories it found and has not removed yet
    caught,     \* history: those of them the process had made itself by then
    stuck,      \* history: directories a removal of which has failed
    gate,       \* the restore that has shut the write gate, or None
    applied,    \* history: plans an apply has begun to carry out, until they are forgotten
    crashes

requestVars == <<pc, user, plan, gone>>
planVars == <<kind, owner, expired, applied>>
storeVars == <<sessions, inFlight>>
bootVars == <<booting, orphans, leftovers, caught>>
diskVars == <<disk, removing, bootVars, stuck>>
vars == <<requestVars, planVars, storeVars, diskVars, gate, crashes>>

\* Type correctness; a plan is held or in use, never both.
TypeOK ==
    /\ pc \in [Request -> {"idle", "upload", "proof", "drain", "ready", "apply", "dispose"}]
    /\ user \in [Request -> User \cup {None}]
    /\ plan \in [Request -> Plan \cup {None}]
    /\ gone \subseteq {r \in Request : pc[r] # "idle"}
    /\ kind \in [Plan -> Kind \cup {None}]
    /\ owner \in [Plan -> User \cup {None}]
    /\ sessions \subseteq Plan
    /\ inFlight \subseteq Plan \ sessions
    /\ expired \subseteq Plan
    /\ disk \subseteq Plan
    /\ removing \subseteq Plan
    /\ booting \in BOOLEAN
    /\ orphans \subseteq Plan /\ leftovers \subseteq Plan /\ caught \subseteq Plan
    /\ stuck \subseteq Plan
    /\ gate \in Request \cup {None}
    /\ applied \subseteq Plan
    /\ crashes \in 0..MaxCrashes

Init ==
    /\ pc = [r \in Request |-> "idle"]
    /\ user = [r \in Request |-> None]
    /\ plan = [r \in Request |-> None]
    /\ gone = {}
    /\ kind = [p \in Plan |-> None]
    /\ owner = [p \in Plan |-> None]
    /\ sessions = {}
    /\ inFlight = {}
    /\ expired = {}
    /\ disk = {}
    /\ removing = {}
    /\ booting = FALSE
    /\ orphans = {}
    /\ leftovers = {}
    /\ caught = {}
    /\ stuck = {}
    /\ gate = None
    /\ applied = {}
    /\ crashes = 0

-----------------------------------------------------------------------------
\* A request of u begins, which the gate lets in.
Begin(r, u, step, p) ==
    /\ pc[r] = "idle" /\ gate = None
    /\ pc' = [pc EXCEPT ![r] = step]
    /\ user' = [user EXCEPT ![r] = u]
    /\ plan' = [plan EXCEPT ![r] = p]
    /\ UNCHANGED gone

\* It goes on to its next await.
Become(r, step) ==
    /\ pc' = [pc EXCEPT ![r] = step]
    /\ UNCHANGED <<user, plan, gone>>

\* It has answered.
End(r) ==
    /\ pc' = [pc EXCEPT ![r] = "idle"]
    /\ user' = [user EXCEPT ![r] = None]
    /\ plan' = [plan EXCEPT ![r] = None]
    /\ gone' = gone \ {r}

\* A plan id no request, map or directory refers to.
Unused(p) ==
    /\ p \notin disk \cup sessions \cup inFlight \cup removing \cup leftovers
    /\ \A r \in Request : plan[r] # p

\* sweep() up to its first await: an expired plan is out of the map, and its
\* directory is being removed.
Swept == sessions \ expired
SweepStore(held) ==
    /\ sessions' = held
    /\ removing' = removing \cup (sessions \cap expired)

\* Whose job it is to remove a directory.
Disposers(p) ==
    {r \in Request : plan[r] = p /\ pc[r] \in {"upload", "apply", "dispose"}}

\* Nothing refers to a plan any more.
Forget(p) ==
    /\ kind' = [kind EXCEPT ![p] = None]
    /\ owner' = [owner EXCEPT ![p] = None]
    /\ expired' = expired \ {p}
    /\ applied' = applied \ {p}
    /\ caught' = caught \ {p}

\* rm -r of a work directory: dispose() tries once, and so does the sweep at boot.
Remove(p) ==
    \/ disk' = disk \ {p} /\ stuck' = stuck \ {p}
    \/ p \in disk /\ Cardinality(stuck) < MaxStuck /\ stuck' = stuck \cup {p} /\ UNCHANGED disk
-----------------------------------------------------------------------------
(* POST .../inspect: receive an upload, stage it, plan it and hold the plan. *)

\* The busy check, which counts the plans held, and the new work directory.
BeginUpload(r, u, k, p) ==
    /\ Begin(r, u, "upload", p)
    /\ sessions = {}
    /\ Unused(p)
    /\ kind' = [kind EXCEPT ![p] = k]
    /\ owner' = [owner EXCEPT ![p] = u]
    /\ disk' = disk \cup {p}
    /\ UNCHANGED <<expired, applied, storeVars, removing, bootVars, stuck, gate, crashes>>

\* A refusal that leaves the upload where it is.
RefuseUndisposed(r) ==
    /\ pc[r] = "upload"
    /\ End(r)
    /\ UNCHANGED <<planVars, storeVars, diskVars, gate, crashes>>

\* The upload is cut off, too large, not an archive, or its plan a refusal: discard.
RefuseUpload(r) ==
    /\ pc[r] = "upload"
    /\ Become(r, "dispose")
    /\ UNCHANGED <<planVars, storeVars, diskVars, gate, crashes>>

\* hold(): busy if another upload was held meanwhile, which is the same discard.
HoldPlan(r) ==
    /\ pc[r] = "upload"
    /\ IF Cardinality(Swept) >= Capacity
       THEN SweepStore(Swept) /\ Become(r, "dispose")
       ELSE SweepStore(Swept \cup {plan[r]}) /\ End(r)
    /\ UNCHANGED <<planVars, inFlight, disk, bootVars, stuck, gate, crashes>>
-----------------------------------------------------------------------------
(* Apply and discard. *)

\* A get() that does not ask whose plan it is.
FoundForAnyone(p, u, k) == p \in Swept /\ kind[p] = k

\* get(): the plan is held, not expired, the caller's own and of the route's kind.
Found(p, u, k) == p \in Swept /\ owner[p] = u /\ kind[p] = k

\* POST /api/restore/apply looks its plan up and proves the passphrase.
BeginRestore(r, u, p) ==
    /\ Begin(r, u, "proof", p)
    /\ Found(p, u, "restore")
    /\ SweepStore(Swept)
    /\ UNCHANGED <<planVars, inFlight, disk, bootVars, stuck, gate, crashes>>

\* A restore that does not wait for the requests the gate let in before.
ShutGateUndrained(r) ==
    /\ pc[r] = "proof"
    /\ gate = None
    /\ gate' = r
    /\ Become(r, "ready")
    /\ UNCHANGED <<planVars, storeVars, diskVars, crashes>>

\* It shuts the write gate; another restore has it, or the passphrase was wrong.
ShutGate(r) ==
    /\ pc[r] = "proof"
    /\ \/ gate = None /\ gate' = r /\ Become(r, "drain")
       \/ UNCHANGED gate /\ End(r)
    /\ UNCHANGED <<planVars, storeVars, diskVars, crashes>>

\* Every other request is over or forgotten, and the sync is stopped; or not, and the
\* restore gives up.
DrainGate(r) ==
    /\ pc[r] = "drain"
    /\ \/ /\ \A q \in Request \ {r} : pc[q] = "idle" \/ q \in gone
          /\ Become(r, "ready")
          /\ UNCHANGED gate
       \/ End(r) /\ gate' = None
    /\ UNCHANGED <<planVars, storeVars, diskVars, crashes>>

\* A use() that leaves the plan where another apply can find it.
UseHeld(p) ==
    /\ inFlight' = inFlight \cup {p}
    /\ UNCHANGED <<sessions, removing>>
    /\ applied' = applied \cup {p}

\* use() from the lookup to the call of its body.
Use(p) ==
    /\ SweepStore(Swept \ {p})
    /\ inFlight' = inFlight \cup {p}
    /\ applied' = applied \cup {p}

\* The restore uses its plan, unless the plan has gone meanwhile.
ApplyRestore(r) ==
    /\ pc[r] = "ready"
    /\ \/ /\ Found(plan[r], user[r], "restore")
          /\ Use(plan[r])
          /\ Become(r, "apply")
          /\ UNCHANGED gate
       \/ /\ ~Found(plan[r], user[r], "restore")
          /\ SweepStore(Swept)
          /\ gate' = None
          /\ End(r)
          /\ UNCHANGED <<inFlight, applied>>
    /\ UNCHANGED <<kind, owner, expired, disk, bootVars, stuck, crashes>>

\* POST /api/import/.../apply looks its plan up and uses it.
ApplyImport(r, u, p) ==
    /\ Begin(r, u, "apply", p)
    /\ Found(p, u, "import")
    /\ Use(p)
    /\ UNCHANGED <<kind, owner, expired, disk, bootVars, stuck, gate, crashes>>

\* The apply succeeds or fails: the plan is spent either way.
EndApply(r) ==
    /\ pc[r] = "apply"
    /\ inFlight' = inFlight \ {plan[r]}
    /\ Become(r, "dispose")
    /\ UNCHANGED <<planVars, sessions, diskVars, gate, crashes>>

\* DELETE of a plan by its owner.
Discard(r, u, p) ==
    /\ Begin(r, u, "dispose", p)
    /\ p \in sessions
    /\ owner[p] = u
    /\ sessions' = sessions \ {p}
    /\ UNCHANGED <<planVars, inFlight, diskVars, gate, crashes>>

\* dispose() has removed the directory, or failed; the request answers, and a restore opens
\* the gate.
Dispose(r) ==
    /\ pc[r] = "dispose"
    /\ Remove(plan[r])
    /\ Forget(plan[r])
    /\ gate' = IF gate = r THEN None ELSE gate
    /\ End(r)
    /\ UNCHANGED <<storeVars, removing, booting, orphans, leftovers, crashes>>
-----------------------------------------------------------------------------
(* Clients, time, and the death of the process. *)

\* A client hangs up: its handler runs on, and the write gate no longer counts it.  Node
\* reports it of an upload that is being read and of a request without a body, the
\* DELETE; an apply's body has been read.
HangUp(r) ==
    /\ pc[r] \in {"upload", "dispose"}
    /\ plan[r] \notin applied
    /\ r \notin gone
    /\ gone' = gone \cup {r}
    /\ UNCHANGED <<pc, user, plan, planVars, storeVars, diskVars, gate, crashes>>

Expire(p) ==
    /\ p \in sessions \ expired
    /\ expired' = expired \cup {p}
    /\ UNCHANGED <<requestVars, kind, owner, applied, storeVars, diskVars, gate, crashes>>

\* A store made with a sweepIntervalMs of 0.
NoTimer == FALSE

\* The store's timer.
SweepTimer ==
    /\ sessions # Swept
    /\ SweepStore(Swept)
    /\ UNCHANGED <<requestVars, planVars, inFlight, disk, bootVars, stuck, gate, crashes>>

RemoveSwept(p) ==
    /\ p \in removing
    /\ Remove(p)
    /\ Forget(p)
    /\ removing' = removing \ {p}
    /\ UNCHANGED <<requestVars, storeVars, booting, orphans, leftovers, gate, crashes>>

\* The process dies and boots again: registering the routes starts a sweep.
Crash ==
    /\ crashes < MaxCrashes
    /\ crashes' = crashes + 1
    /\ pc' = [r \in Request |-> "idle"]
    /\ user' = [r \in Request |-> None]
    /\ plan' = [r \in Request |-> None]
    /\ gone' = {}
    /\ kind' = [p \in Plan |-> None]
    /\ owner' = [p \in Plan |-> None]
    /\ expired' = {}
    /\ applied' = {}
    /\ sessions' = {}
    /\ inFlight' = {}
    /\ removing' = {}
    /\ booting' = TRUE
    /\ orphans' = disk
    /\ leftovers' = {}
    /\ caught' = {}
    /\ stuck' = {}
    /\ gate' = None
    /\ UNCHANGED disk

\* sweepAbandonedIntakes lists the work directories, whose ever they are.
ListLeftovers ==
    /\ booting
    /\ booting' = FALSE
    /\ orphans' = {}
    /\ leftovers' = disk
    /\ caught' = {p \in disk : p \in sessions \cup removing \/ Disposers(p) # {}}
    /\ UNCHANGED <<requestVars, planVars, storeVars, disk, removing, stuck, gate, crashes>>

RemoveLeftover(p) ==
    /\ p \in leftovers
    /\ Remove(p)
    /\ leftovers' = leftovers \ {p}
    /\ UNCHANGED <<requestVars, planVars, storeVars, removing, booting, orphans, caught>>
    /\ UNCHANGED <<gate, crashes>>
-----------------------------------------------------------------------------
RequestStep(r) ==
    \/ RefuseUpload(r) \/ HoldPlan(r)
    \/ ShutGate(r) \/ DrainGate(r) \/ ApplyRestore(r)
    \/ EndApply(r) \/ Dispose(r)

Next ==
    \/ \E r \in Request :
          \/ RequestStep(r) \/ HangUp(r)
          \/ \E u \in User, p \in Plan :
                \/ \E k \in Kind : BeginUpload(r, u, k, p)
                \/ BeginRestore(r, u, p) \/ ApplyImport(r, u, p) \/ Discard(r, u, p)
    \/ \E p \in Plan : Expire(p) \/ RemoveSwept(p) \/ RemoveLeftover(p)
    \/ SweepTimer \/ ListLeftovers
    \/ Crash

Spec == Init /\ [][Next]_vars

(***************************************************************************)
(* A handler that has begun ends, time passes, the store's timer fires and *)
(* a removal finishes.  Nothing obliges a user to decide.                  *)
(***************************************************************************)
FairSpec ==
    /\ Spec
    /\ \A r \in Request : WF_vars(RequestStep(r))
    /\ \A p \in Plan : WF_vars(Expire(p)) /\ WF_vars(RemoveSwept(p)) /\ WF_vars(RemoveLeftover(p))
    /\ WF_vars(SweepTimer) /\ WF_vars(ListLeftovers)
-----------------------------------------------------------------------------
(* Properties. *)

\* Every work directory is somebody's to remove: of the request that uploads, uses or
\* disposes of it, of the store that holds it, of a sweep, or of the next boot once a removal
\* has failed.  No decrypted archive is left behind, whichever step fails and wherever the
\* process dies.
StagingIsOwned ==
    \A p \in disk :
        \/ p \in sessions \cup removing \cup orphans \cup leftovers \cup stuck
        \/ Disposers(p) # {}

\* And of one of them only: no directory is removed under a plan that is held or being
\* applied, unless the sweep at boot came so late that it found the new directory too.
StagingStays ==
    \A p \in Plan :
        p \in sessions \cup inFlight =>
            /\ (p \in disk /\ p \notin leftovers) \/ p \in caught
            /\ p \notin removing \cup orphans
            /\ Cardinality(Disposers(p)) <= 1
            /\ \A r \in Disposers(p) : pc[r] = "apply"

\* A plan is applied once, by the user who uploaded it.
PlanIsAppliedOnce ==
    /\ sessions \cap applied = {}
    /\ \A r \in Request : pc[r] = "apply" =>
          /\ plan[r] \in inFlight
          /\ owner[plan[r]] = user[r]
          /\ \A q \in Request \ {r} : pc[q] = "apply" => plan[q] # plan[r]

\* While a restore is applied no other plan is, and no other upload is received or
\* discarded but by a request whose client has hung up.
RestoreIsAlone ==
    \A r \in Request : pc[r] = "apply" /\ kind[plan[r]] = "restore" =>
        /\ gate = r
        /\ \A q \in Request \ {r} : pc[q] = "idle" \/ (q \in gone /\ pc[q] # "apply")

\* No upload stays on disk for ever: undecided ones expire.  One whose removal has failed
\* waits for the next boot.
StagingIsRemoved == \A p \in Plan : p \in disk ~> p \notin disk \/ p \in stuck
=============================================================================
