---------------------------- MODULE RestoreGate ----------------------------
(***************************************************************************)
(* A restore against everything else that can write: the hooks of app.ts,  *)
(* the identity cache of users.ts, POST /api/restore/apply of              *)
(* routes/restore.ts, the write gate, the answer the mail sync gives to    *)
(* being stopped, and PostgreSQL's lock on the schemas being replaced.     *)
(*                                                                         *)
(* A request slot serves one request after another.  A step is what runs   *)
(* between two awaits of a handler.  A statement that needs a table waits  *)
(* while the load holds its lock and runs after it: the lock queue is the  *)
(* guard ~locked.  What applyRestore does inside is module RestoreApply's, *)
(* which plans are held is IntakeSessions's, and how the loops stop is     *)
(* SyncManager's; here each of them answers either way.                    *)
(***************************************************************************)
EXTENDS WriteGate

CONSTANTS
    Applies,    \* POST /api/restore/apply
    Writes,     \* any other request whose method is not safe
    Bodyless,   \* those of Writes that carry no body
    Reads,      \* requests with a safe method whose handler writes nothing
    Callbacks,  \* GET /api/mail/oauth/callback, whose handler writes
    User        \* the identities SSOwat presents

ASSUME KindsAssumption ==
    /\ Request = Applies \cup Writes \cup Reads \cup Callbacks
    /\ Applies \cap (Writes \cup Reads \cup Callbacks) = {}
    /\ Writes \cap (Reads \cup Callbacks) = {}
    /\ Reads \cap Callbacks = {}
    /\ Bodyless \subseteq Writes

VARIABLES
    pc,         \* where each request's hooks and handler are
    user,       \* whom each request is from
    cache,      \* createUserResolver's cache: no entry, a live or an expired one
    hungUp,     \* the requests whose client closed the connection
    started,    \* SyncManager.started
    starting,   \* calls of start() that are reading mail_accounts
    loops,      \* which AccountSync loops run: those the last stop() or start()
                \* knows of, those a start() made after a stop(), and the orphans
                \* a stop() that timed out left behind (SyncManager's Orphans)
    overtaken,  \* history: calls of start() that the last stop() overtook
    locked,     \* the load's transaction holds its ACCESS EXCLUSIVE locks
    stale,      \* statements issued before the commit that replaced the data
    intruders   \* requests such a statement of which ran after that commit

httpVars == <<pc, user, cache, hungUp>>
syncVars == <<started, starting, loops, overtaken>>
dbVars == <<locked, stale, intruders>>
vars == <<gateVars, httpVars, syncVars, dbVars>>

\* The gate is shut and this request shut it.
Holding == {"drain", "stop", "refuse", "apply", "load", "undone", "after"}

\* The part of Holding inside intakeSessions.use: the backup is being applied.
Exclusive == {"apply", "load", "undone", "after"}

Step == {"idle", "identify", "resolving", "handler", "proof", "restart", "answer"}
            \cup Holding

\* isWriteMethod of the request's method.
IsWriteMethod(r) == r \in Applies \cup Writes

\* Requests whose handler can change the database.
Mutators == Writes \cup Callbacks

\* Type correctness; the gate only ever counts requests that can write.
TypeOK ==
    /\ GateTypeOK
    /\ inFlight \subseteq Applies \cup Writes
    /\ pc \in [Request -> Step]
    /\ user \in [Request -> User]
    /\ cache \in [User -> {"none", "live", "expired"}]
    /\ hungUp \subseteq Request
    /\ started \in BOOLEAN
    /\ starting \subseteq Request
    /\ loops \subseteq {"known", "late", "orphan"}
    /\ overtaken \subseteq Request
    /\ locked \in BOOLEAN
    /\ stale \subseteq Request
    /\ intruders \subseteq Request

\* The process has booted and its sync manager has started.
Init ==
    /\ GateInit
    /\ pc = [r \in Request |-> "idle"]
    /\ user \in [Request -> User]
    /\ cache = [u \in User |-> "none"]
    /\ hungUp = {}
    /\ started = TRUE
    /\ starting = {}
    /\ loops = {"known"}
    /\ overtaken = {}
    /\ locked = FALSE
    /\ stale = {}
    /\ intruders = {}

Goto(r, step) == pc' = [pc EXCEPT ![r] = step]

\* A statement of r reaches its tables.
Deliver(r) ==
    /\ ~locked
    /\ intruders' = intruders \cup ({r} \cap stale)
    /\ stale' = stale \ {r}
    /\ UNCHANGED locked
-----------------------------------------------------------------------------
(* The hooks of app.ts. *)

\* The first onRequest hook: a write is admitted or answered 503 and forgotten.  A slot
\* whose last handler is still at its start() is not free.
Arrive(r, u) ==
    /\ pc[r] = "idle"
    /\ r \notin starting
    /\ IF IsWriteMethod(r) THEN Admit(r) ELSE UNCHANGED gateVars
    /\ user' = [user EXCEPT ![r] = u]
    /\ Goto(r, "identify")
    /\ UNCHANGED <<cache, hungUp, syncVars, dbVars>>

\* The second onRequest hook.  While the gate is shut `cached` answers, whatever
\* the entry's age, and a user it does not know is refused.
Identify(r) ==
    LET entry == cache[user[r]] IN
    /\ pc[r] = "identify"
    /\ Goto(r, CASE refusing /\ entry = "none" -> "answer"
                 [] refusing /\ entry # "none" -> "handler"
                 [] ~refusing /\ entry = "live" -> "handler"
                 [] ~refusing /\ entry # "live" -> "resolving")
    /\ UNCHANGED <<gateVars, user, cache, hungUp, syncVars, dbVars>>

\* resolveUser's upsert returns and `resolve` caches the row.
Resolve(r) ==
    /\ pc[r] = "resolving"
    /\ Deliver(r)
    /\ cache' = [cache EXCEPT ![user[r]] = "live"]
    /\ Goto(r, "handler")
    /\ UNCHANGED <<gateVars, user, hungUp, syncVars>>

\* A cache entry outlives its TTL.
ExpireUser(u) ==
    /\ cache[u] = "live"
    /\ cache' = [cache EXCEPT ![u] = "expired"]
    /\ UNCHANGED <<gateVars, pc, user, hungUp, syncVars, dbVars>>

\* A handler other than apply's refuses, or reads, and answers.
HandleWithoutWriting(r) ==
    /\ r \notin Applies
    /\ pc[r] = "handler"
    /\ Goto(r, "answer")
    /\ UNCHANGED <<gateVars, user, cache, hungUp, syncVars, dbVars>>

\* A handler that changes the database does so and answers.
HandleWriting(r) ==
    /\ r \in Mutators
    /\ pc[r] = "handler"
    /\ Deliver(r)
    /\ Goto(r, "answer")
    /\ UNCHANGED <<gateVars, user, cache, hungUp, syncVars>>

\* onResponse.
Respond(r) ==
    /\ pc[r] = "answer"
    /\ Finish(r)
    /\ Goto(r, "idle")
    /\ hungUp' = hungUp \ {r}
    /\ stale' = stale \ {r}
    /\ intruders' = intruders \ {r}
    /\ UNCHANGED <<user, cache, syncVars, locked>>

\* onRequestAbort: the client is gone and the handler goes on running.  Node
\* reports it for a request whose body nobody reads; once a body has been read
\* the request stream is closed and a later hang-up is not reported.
HangUp(r) ==
    /\ r \in Bodyless \ hungUp
    /\ pc[r] # "idle"
    /\ Finish(r)
    /\ hungUp' = hungUp \cup {r}
    /\ UNCHANGED <<pc, user, cache, syncVars, dbVars>>
-----------------------------------------------------------------------------
(* SyncManager.start(), as startSyncAgain calls it. *)

StartSync(r) ==
    /\ starting' = IF started THEN starting ELSE starting \cup {r}
    /\ started' = TRUE

\* The SELECT start() awaits returns and a loop is made for every account, also
\* when a stop() ran meanwhile; or it fails, which startSyncAgain logs.
SyncStarted(r) ==
    /\ starting' = starting \ {r}
    /\ UNCHANGED <<started, overtaken>>
    /\ IF r \in starting
       THEN /\ ~locked
            /\ \/ loops' = IF started THEN (loops \ {"late"}) \cup {"known"}
                                      ELSE loops \cup {"late"}
               \/ UNCHANGED loops
       ELSE UNCHANGED loops

\* SyncManager.stop() up to its first await: it now knows of every loop in the
\* manager's maps, and of no start() that has yet to make its own.
StopSync ==
    /\ started' = FALSE
    /\ overtaken' = starting
    /\ loops' = (loops \cap {"orphan"})
                    \cup (IF loops \subseteq {"orphan"} THEN {} ELSE {"known"})
    /\ UNCHANGED starting

\* Every loop that was told to stop is gone, or every orphan is.
LoopsEnd(kind) ==
    /\ kind \in loops
    /\ kind = "orphan" \/ (kind = "known" /\ ~started)
    /\ loops' = loops \ {kind}
    /\ UNCHANGED <<gateVars, httpVars, started, starting, overtaken, dbVars>>
-----------------------------------------------------------------------------
(* POST /api/restore/apply. *)

\* Re-authentication, the body, the install's name and the plan: go on or answer.
LookUpPlan(r) ==
    /\ r \in Applies
    /\ pc[r] = "handler"
    /\ \/ Goto(r, "proof")
       \/ Goto(r, "answer")
    /\ UNCHANGED <<gateVars, user, cache, hungUp, syncVars, dbVars>>

\* A second closer that reopens the gate on its way out.
BusyReopens(r) ==
    /\ pc[r] = "proof"
    /\ refusing
    /\ Resume(r)
    /\ Goto(r, "answer")
    /\ UNCHANGED <<user, cache, hungUp, syncVars, dbVars>>

\* WriteGateBusyError: another apply holds the gate; nothing was acquired.
Busy(r) ==
    /\ pc[r] = "proof"
    /\ refusing
    /\ Goto(r, "answer")
    /\ UNCHANGED <<gateVars, user, cache, hungUp, syncVars, dbVars>>

\* The scrypt refuses the passphrase.
WrongPassphrase(r) ==
    /\ pc[r] = "proof"
    /\ Goto(r, "answer")
    /\ UNCHANGED <<gateVars, user, cache, hungUp, syncVars, dbVars>>

Close(r) ==
    /\ pc[r] = "proof"
    /\ RefuseNewWrites(r)
    /\ Goto(r, "drain")
    /\ UNCHANGED <<user, cache, hungUp, syncVars, dbVars>>

DrainGivesUp(r) ==
    /\ pc[r] = "drain"
    /\ DrainTimeout(r)
    /\ UNCHANGED <<httpVars, syncVars, dbVars>>

\* The drain succeeded: manager.stop() is called.
Drained(r) ==
    /\ pc[r] = "drain"
    /\ drain[r] = "drained"
    /\ StopSync
    /\ Goto(r, "stop")
    /\ UNCHANGED <<gateVars, user, cache, hungUp, dbVars>>

\* A refusal that leaves the gate shut.
NotDrainedShut(r) ==
    /\ pc[r] = "drain"
    /\ drain[r] = "notDrained"
    /\ Goto(r, "answer")
    /\ UNCHANGED <<gateVars, user, cache, hungUp, syncVars, dbVars>>

\* The drain did not succeed: reopen and answer restore_writes_in_flight.
NotDrained(r) ==
    /\ pc[r] = "drain"
    /\ drain[r] = "notDrained"
    /\ Resume(r)
    /\ Goto(r, "answer")
    /\ UNCHANGED <<user, cache, hungUp, syncVars, dbVars>>

\* A restore that takes whatever stop() resolved with for a stop.
StoppedAnyway(r) ==
    /\ pc[r] = "stop"
    /\ Goto(r, "apply")
    /\ UNCHANGED <<gateVars, user, cache, hungUp, syncVars, dbVars>>

\* stop() answers that nothing is left running.
SyncStopped(r) ==
    /\ pc[r] = "stop"
    /\ "known" \notin loops
    /\ Goto(r, "apply")
    /\ UNCHANGED <<gateVars, user, cache, hungUp, syncVars, dbVars>>

\* stop() ran out of time, and a loop an account change was stopping is now known to
\* nobody: start again, with the gate still shut.
SyncNotStopped(r) ==
    /\ pc[r] = "stop"
    /\ "known" \in loops
    /\ StartSync(r)
    /\ UNCHANGED overtaken
    /\ loops' \in {loops, loops \cup {"orphan"}, (loops \ {"known"}) \cup {"orphan"}}
    /\ Goto(r, "refuse")
    /\ UNCHANGED <<gateVars, user, cache, hungUp, dbVars>>

\* Then reopen and answer restore_sync_running.
SyncRefused(r) ==
    /\ pc[r] = "refuse"
    /\ SyncStarted(r)
    /\ Resume(r)
    /\ Goto(r, "answer")
    /\ UNCHANGED <<user, cache, hungUp, dbVars>>

\* psql's transaction drops the planned schemas.
LoadBegins(r) ==
    /\ pc[r] = "apply"
    /\ locked' = TRUE
    /\ Goto(r, "load")
    /\ UNCHANGED <<gateVars, user, cache, hungUp, syncVars, stale, intruders>>

\* It commits.  Every statement still waiting or about to be issued by a handler
\* that read the old data now finds the restored tables.
LoadCommits(r) ==
    /\ pc[r] = "load"
    /\ locked' = FALSE
    /\ stale' = {q \in Request \ {r} :
                    \/ pc[q] = "resolving"
                    \/ q \in Mutators /\ pc[q] = "handler"}
    /\ Goto(r, "after")
    /\ UNCHANGED <<gateVars, user, cache, hungUp, syncVars, intruders>>

LoadRollsBack(r) ==
    /\ pc[r] = "load"
    /\ locked' = FALSE
    /\ Goto(r, "undone")
    /\ UNCHANGED <<gateVars, user, cache, hungUp, syncVars, stale, intruders>>

\* A finally that forgets one of the two writers.
ReleaseGateOnly(r) ==
    /\ pc[r] \in {"apply", "undone", "after"}
    /\ Resume(r)
    /\ Goto(r, "answer")
    /\ UNCHANGED <<user, cache, hungUp, syncVars, dbVars>>

\* The finally lets go of both writers and then waits for start().
LetGo(r, next) ==
    /\ Resume(r)
    /\ StartSync(r)
    /\ UNCHANGED <<loops, overtaken>>
    /\ Goto(r, next)
    /\ UNCHANGED <<user, cache, hungUp, dbVars>>

\* The finally of an apply that found no plan left or failed, however far it got: its
\* answer was sent in the catch (or before), and goes out while start() is waiting.
ReleaseFailed(r) ==
    /\ pc[r] \in {"apply", "undone", "after"}
    /\ LetGo(r, "answer")

\* The finally of one that succeeded: what the handler returns is sent after start().
ReleaseRestored(r) ==
    /\ pc[r] = "after"
    /\ LetGo(r, "restart")

SyncRestarted(r) ==
    /\ pc[r] = "restart"
    /\ SyncStarted(r)
    /\ Goto(r, "answer")
    /\ UNCHANGED <<gateVars, user, cache, hungUp, dbVars>>

\* start() ends behind an answer that has been sent.
SyncRestartedBehind(r) ==
    /\ pc[r] \in {"answer", "idle"}
    /\ r \in starting
    /\ SyncStarted(r)
    /\ UNCHANGED <<gateVars, httpVars, dbVars>>
-----------------------------------------------------------------------------
ApplyStep(r) ==
    \/ Busy(r) \/ WrongPassphrase(r) \/ Close(r)
    \/ DrainGivesUp(r) \/ Drained(r) \/ NotDrained(r)
    \/ SyncStopped(r) \/ SyncNotStopped(r) \/ SyncRefused(r)
    \/ LoadBegins(r) \/ LoadCommits(r) \/ LoadRollsBack(r)
    \/ ReleaseFailed(r) \/ ReleaseRestored(r) \/ SyncRestarted(r) \/ SyncRestartedBehind(r)

Next ==
    \/ \E r \in Request, u \in User : Arrive(r, u)
    \/ \E r \in Request :
        \/ Identify(r) \/ Resolve(r)
        \/ HandleWithoutWriting(r) \/ HandleWriting(r)
        \/ Respond(r) \/ HangUp(r)
        \/ LookUpPlan(r) \/ ApplyStep(r)
    \/ \E u \in User : ExpireUser(u)
    \/ \E kind \in {"known", "orphan"} : LoopsEnd(kind)

Spec == Init /\ [][Next]_vars

(***************************************************************************)
(* An apply's own awaits end: the scrypt, the drain's and the stop's       *)
(* timers, psql, the SELECT of start().  No other handler is assumed to    *)
(* end, nor any client to read or hang up.                                 *)
(***************************************************************************)
FairSpec == Spec /\ \A r \in Applies : WF_vars(ApplyStep(r))
-----------------------------------------------------------------------------
(* Properties. *)

\* The gate is shut exactly while one apply holds it, and `except` names that
\* apply: a second apply that found the gate shut neither holds nor reopens it.
GateHasOneOwner ==
    /\ refusing <=> \E r \in Request : pc[r] \in Holding
    /\ \A r \in Request : pc[r] \in Holding => except = r

\* While a backup is being applied, every other request that is past the hooks
\* and could still write is one of three: a write whose client hung up, the OAuth
\* callback, or an upsert of an identity issued before the gate shut.
OnlyTheHolesOverlap ==
    \A h, r \in Request :
        /\ pc[h] \in Exclusive
        /\ r # h
        /\ pc[r] = "resolving" \/ (r \in Mutators /\ pc[r] = "handler")
        => r \in hungUp \cup Callbacks \cup Reads

\* A write that crosses the commit into the restored data came through one of
\* those three: no admitted write whose client waits is ever delivered there.
IntrudersAreTheHoles ==
    intruders \subseteq hungUp \cup Callbacks \cup Reads

\* While a backup is being applied no mail loop runs that the manager knew of when it was
\* stopped.  One that has begun since was made by a start() which that stop() overtook: it
\* was called by an apply that failed, whose answer went out while the SELECT of start()
\* was pending, so that the drain of the next apply did not wait for it.
SyncIsSilent ==
    \A h \in Request : pc[h] \in Exclusive =>
        /\ "known" \notin loops
        /\ "late" \in loops => overtaken # {}
        /\ \A r \in overtaken : r \in Applies \ {h}
        /\ \A r \in starting : r \in overtaken /\ pc[r] = "idle"

\* A gate that shuts opens again, whatever the writes it waits for do.
GateReopens == refusing ~> ~refusing

\* A sync stopped for a restore is started again, whatever became of the restore.
SyncComesBack == ~started ~> started
=============================================================================
