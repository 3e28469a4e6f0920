---------------------------- MODULE SyncManager ----------------------------
(***************************************************************************)
(* SyncManager of services/mail-sync.ts: one AccountSync per mail account  *)
(* that is not archived, reconciled after every account change, stopped by *)
(* a restore within a bound and started again after it.                    *)
(*                                                                         *)
(* An action is one turn of the event loop.  What a turn's microtasks do   *)
(* before the next turn is part of the action or, for the continuation of  *)
(* stop(), an action that goes before every other.                         *)
(*                                                                         *)
(* Here a loop runs until it is told to stop or finds its account archived *)
(* and takes any time to end; what it does with its mailbox is MailSync's. *)
(* A restore is the only caller of stop() and, after the boot, of start(). *)
(***************************************************************************)
EXTENDS Naturals, FiniteSets

CONSTANTS
    Account,     \* ids of mail accounts
    Slot,        \* tells apart the AccountSync objects of an account; a slot is
                 \* used again once nothing refers to its object
    Change,      \* calls of accountChanged that have not returned
    Stop,        \* calls of stop() whose continuation has not ended
    None,
    MaxChanges,  \* bound on account changes and Sync-now presses
    MaxRestores  \* bound on restores

ASSUME SyncAssumption ==
    /\ None \notin Account \cup (Account \X Slot) \cup Change \cup Stop
    /\ Slot # {}
    /\ MaxChanges \in Nat
    /\ MaxRestores \in Nat

Loop == Account \X Slot

VARIABLES
    live,        \* mail_accounts: the accounts that are not archived
    started,     \* this.started; the account-changed hook is set while it is true
    syncs,       \* this.syncs: the loop of each account, or None
    chain,       \* this.chain: the last change of each account, or None
    abandoned,   \* this.abandoned: loops a stop() gave up waiting for
    starting,    \* calls of start() waiting for their SELECT
    state,       \* each loop: "gone", "running", or "told" to stop
    change,      \* each accountChanged call
    stop,        \* each stop() call
    call,        \* the stop() whose answer the restore is waiting for, or None
    route,       \* how far the restore that has the write gate is, if any
    changes,     \* account changes made so far
    restores,    \* restores begun so far
    overtaken,   \* history: the loops that have not ended and were made by a start()
                 \* whose SELECT returned after a later stop() had begun
    cleared,     \* history: accounts a stop() took out of the map after the start()
                 \* that followed it
    failed       \* history: some SELECT of the manager failed

mailVars == <<live, changes>>
history == <<overtaken, cleared, failed>>
routeVars == <<call, route, restores>>
vars == <<mailVars, started, syncs, chain, abandoned, starting, state, change, stop, routeVars,
          history>>

NoChange == [step |-> "free", acct |-> None, connection |-> FALSE, after |-> None,
             old |-> None, wanted |-> FALSE]
NoStop == [step |-> "free", chains |-> {}, outstanding |-> {}]

\* Type correctness; an account's chain ends in one of its own changes.
TypeOK ==
    /\ live \subseteq Account
    /\ started \in BOOLEAN
    /\ \A a \in Account : syncs[a] \in ({a} \X Slot) \cup {None}
    /\ chain \in [Account -> Change \cup {None}]
    /\ \A a \in Account : chain[a] # None => change[chain[a]].acct = a
    /\ abandoned \subseteq Loop
    /\ starting \subseteq {"refusal", "release"}
    /\ state \in [Loop -> {"gone", "running", "told"}]
    /\ change \in [Change -> [step : {"free", "queued", "select", "stopping"},
                              acct : Account \cup {None},
                              connection : BOOLEAN, after : Change \cup {None},
                              old : Loop \cup {None}, wanted : BOOLEAN]]
    /\ stop \in [Stop -> [step : {"free", "chains", "loops"},
                          chains : SUBSET Change, outstanding : SUBSET Loop]]
    /\ call \in Stop \cup {None}
    /\ route \in {"open", "stopping", "applying", "refusing"}
    /\ changes \in 0..MaxChanges
    /\ restores \in 0..MaxRestores
    /\ overtaken \subseteq Loop
    /\ cleared \subseteq Account
    /\ failed \in BOOLEAN

Values(f) == {f[x] : x \in DOMAIN f} \ {None}

\* The objects of account a that nothing refers to any more.
Spare(a) ==
    {l \in {a} \X Slot :
        state[l] = "gone" /\ l \notin abandoned /\ \A s \in Stop : l \notin stop[s].outstanding}

\* The server has booted and start() has made a loop for every live account.
Init ==
    /\ live \in SUBSET Account
    /\ started = TRUE
    /\ abandoned = {}
    /\ starting = {}
    /\ chain = [a \in Account |-> None]
    /\ change = [c \in Change |-> NoChange]
    /\ stop = [s \in Stop |-> NoStop]
    /\ call = None
    /\ route = "open"
    /\ changes = 0
    /\ restores = 0
    /\ overtaken = {}
    /\ cleared = {}
    /\ failed = FALSE
    /\ LET first == CHOOSE s \in Slot : TRUE IN
          /\ syncs = [a \in Account |-> IF a \in live THEN <<a, first>> ELSE None]
          /\ state = [l \in Loop |-> IF l[1] \in live /\ l[2] = first THEN "running" ELSE "gone"]
-----------------------------------------------------------------------------
\* sync.stop() for each loop of ls, up to its await.
TellToStop(ls) ==
    [l \in Loop |-> IF l \in ls /\ state[l] = "running" THEN "told" ELSE state[l]]

\* An ensureSync that does not ask whether the account has a loop already.
EnsureTwice(as, syncs1, abandoned1, state1) ==
    LET missing == {a \in as : \A l \in abandoned1 : l[1] # a}
        new == [a \in missing |-> CHOOSE l \in Spare(a) : TRUE]
    IN /\ \A a \in missing : Spare(a) # {}
       /\ syncs' = [a \in Account |-> IF a \in missing THEN new[a] ELSE syncs1[a]]
       /\ state' = [l \in Loop |-> IF l \in Values(new) THEN "running" ELSE state1[l]]

\* One that replaces an abandoned loop while it is unwinding.
EnsureOverAbandoned(as, syncs1, abandoned1, state1) ==
    LET missing == {a \in as : syncs1[a] = None}
        new == [a \in missing |-> CHOOSE l \in Spare(a) : TRUE]
    IN /\ \A a \in missing : Spare(a) # {}
       /\ syncs' = [a \in Account |-> IF a \in missing THEN new[a] ELSE syncs1[a]]
       /\ state' = [l \in Loop |-> IF l \in Values(new) THEN "running" ELSE state1[l]]

\* ensureSync for each account of as, once the turn has made syncs1, abandoned1 and
\* state1 of the maps: nothing for an account with a loop or an abandoned one.
EnsureSync(as, syncs1, abandoned1, state1) ==
    LET missing == {a \in as : syncs1[a] = None /\ \A l \in abandoned1 : l[1] # a}
        new == [a \in missing |-> CHOOSE l \in Spare(a) : TRUE]
    IN /\ \A a \in missing : Spare(a) # {}
       /\ syncs' = [a \in Account |-> IF a \in missing THEN new[a] ELSE syncs1[a]]
       /\ state' = [l \in Loop |-> IF l \in Values(new) THEN "running" ELSE state1[l]]

\* The changes cs have settled: whoever waited for them goes on, and the chain
\* forgets them.
Settle(cs) ==
    /\ change' = [c \in Change |->
                    IF c \in cs THEN NoChange
                    ELSE IF change[c].after \in cs THEN [change[c] EXCEPT !.after = None]
                    ELSE change[c]]
    /\ chain' = [a \in Account |-> IF chain[a] \in cs THEN None ELSE chain[a]]
-----------------------------------------------------------------------------
(* Account changes. *)

\* accountChanged(a, connection): the call goes to the end of the account's chain.
Enqueue(a, connection) ==
    \E c \in Change :
        /\ change[c].step = "free"
        /\ change' = [change EXCEPT ![c] = [NoChange EXCEPT !.step = "queued", !.acct = a,
                                            !.connection = connection, !.after = chain[a]]]
        /\ chain' = [chain EXCEPT ![a] = c]

\* A route, or the OAuth callback while the gate is shut, commits a change to an
\* account and notifies the hook: create, unarchive, new credentials, archive, or an
\* edit that leaves the connection alone.
ChangeAccount(a, wanted, connection) ==
    /\ changes < MaxChanges
    /\ changes' = changes + 1
    /\ route = "open" \/ (wanted /\ connection)
    /\ connection \/ (wanted /\ a \in live)
    /\ live' = IF wanted THEN live \cup {a} ELSE live \ {a}
    /\ IF started THEN Enqueue(a, connection) ELSE UNCHANGED <<change, chain>>
    /\ UNCHANGED <<started, syncs, abandoned, starting, state, stop, routeVars, history>>

\* syncNow(a) of an account without a loop; with one it only wakes the loop.
SyncNow(a) ==
    /\ changes < MaxChanges
    /\ changes' = changes + 1
    /\ route = "open"
    /\ syncs[a] = None
    /\ Enqueue(a, TRUE)
    /\ UNCHANGED <<live, started, syncs, abandoned, starting, state, stop, routeVars, history>>

\* applyAccountChange up to its SELECT, once the change before it has settled.
BeginChange(c) ==
    /\ change[c].step = "queued"
    /\ change[c].after = None
    /\ IF started
       THEN /\ change' = [change EXCEPT ![c].step = "select"]
            /\ UNCHANGED <<chain, stop>>
       ELSE /\ Settle({c})
            /\ stop' = [s \in Stop |-> [stop[s] EXCEPT !.chains = @ \ {c}]]
    /\ UNCHANGED <<mailVars, started, syncs, abandoned, starting, state, routeVars, history>>

\* The SELECT returns the account's row.
ReconcileAccount(c) ==
    LET a == change[c].acct
        existing == syncs[a]
        wanted == a \in live
        replace == existing # None /\ (~wanted \/ change[c].connection)
    IN
    /\ change[c].step = "select"
    /\ IF replace
       THEN /\ change' = [change EXCEPT ![c].step = "stopping", ![c].old = existing,
                                        ![c].wanted = wanted]
            /\ syncs' = [syncs EXCEPT ![a] = None]
            /\ state' = TellToStop({existing})
            /\ UNCHANGED <<chain, stop>>
       ELSE /\ EnsureSync(IF wanted /\ started THEN {a} ELSE {}, syncs, abandoned, state)
            /\ Settle({c})
            /\ stop' = [s \in Stop |-> [stop[s] EXCEPT !.chains = @ \ {c}]]
    /\ UNCHANGED <<mailVars, started, abandoned, starting, routeVars, history>>

\* The SELECT fails: the call rejects, which the hook logs.
ReconcileFails(c) ==
    /\ failed' = TRUE
    /\ change[c].step = "select"
    /\ Settle({c})
    /\ stop' = [s \in Stop |-> [stop[s] EXCEPT !.chains = @ \ {c}]]
    /\ UNCHANGED <<mailVars, started, syncs, abandoned, starting, state, routeVars,
                   overtaken, cleared>>
-----------------------------------------------------------------------------
(* The loops. *)

\* loadAccount finds the account archived: the loop stops itself.
StopItself(l) ==
    /\ state[l] = "running"
    /\ l[1] \notin live
    /\ state' = [state EXCEPT ![l] = "told"]
    /\ UNCHANGED <<mailVars, started, syncs, chain, abandoned, starting, change, stop, routeVars, history>>

\* A stoppedAtLast that takes the loop off the books and leaves it there.
EndLoopForGood(l) ==
    LET a == l[1]
        waiters == {c \in Change : change[c].step = "stopping" /\ change[c].old = l}
        asked == {s \in Stop : stop[s].step = "loops" /\ l \in stop[s].outstanding}
        syncs1 == IF syncs[a] = l THEN [syncs EXCEPT ![a] = None] ELSE syncs
        abandoned1 == IF asked # {} THEN abandoned \ {l} ELSE abandoned
        again == started /\ \E c \in waiters : change[c].wanted
    IN
    /\ state[l] = "told"
    /\ abandoned' = abandoned1
    /\ EnsureSync(IF again THEN {a} ELSE {}, syncs1, abandoned1, [state EXCEPT ![l] = "gone"])
    /\ Settle(waiters)
    /\ stop' = [s \in Stop |-> [stop[s] EXCEPT !.chains = @ \ waiters,
                                  !.outstanding = IF s \in asked THEN @ \ {l} ELSE @]]
    /\ overtaken' = overtaken \ {l}
    /\ UNCHANGED <<mailVars, started, starting, routeVars, cleared, failed>>

\* The loop's promise resolves.  teardown takes it out of the map (onStopped); a
\* change that awaited it makes the account's next loop if the row it read wanted
\* one; a stop() that awaited it takes it off its list and, if it had been
\* abandoned, stoppedAtLast gives the account a loop again.
EndLoop(l) ==
    LET a == l[1]
        waiters == {c \in Change : change[c].step = "stopping" /\ change[c].old = l}
        asked == {s \in Stop : stop[s].step = "loops" /\ l \in stop[s].outstanding}
        syncs1 == IF syncs[a] = l THEN [syncs EXCEPT ![a] = None] ELSE syncs
        abandoned1 == IF asked # {} THEN abandoned \ {l} ELSE abandoned
        again == started /\ (abandoned1 # abandoned \/ \E c \in waiters : change[c].wanted)
    IN
    /\ state[l] = "told"
    /\ abandoned' = abandoned1
    /\ EnsureSync(IF again THEN {a} ELSE {}, syncs1, abandoned1, [state EXCEPT ![l] = "gone"])
    /\ Settle(waiters)
    /\ stop' = [s \in Stop |-> [stop[s] EXCEPT !.chains = @ \ waiters,
                                  !.outstanding = IF s \in asked THEN @ \ {l} ELSE @]]
    /\ overtaken' = overtaken \ {l}
    /\ UNCHANGED <<mailVars, started, starting, routeVars, cleared, failed>>
-----------------------------------------------------------------------------
(* start() and stop(), as a restore calls them. *)

\* start() up to its SELECT.
BeginStart(k) ==
    /\ started' = TRUE
    /\ starting' = IF started THEN starting ELSE starting \cup {k}

\* The loops a step makes.
Made == {l \in Loop : state[l] = "gone" /\ state'[l] = "running"}

\* The SELECT returns: ensureSync for every live account, whatever `started` is now.
\* A refused restore opens the gate after this.
Start(k) ==
    /\ k \in starting
    /\ starting' = starting \ {k}
    /\ EnsureSync(live, syncs, abandoned, state)
    /\ overtaken' = IF started THEN overtaken ELSE overtaken \cup Made
    /\ cleared' = IF started THEN {} ELSE cleared
    /\ route' = IF k = "refusal" THEN "open" ELSE route
    /\ UNCHANGED <<mailVars, started, chain, abandoned, change, stop, call, restores, failed>>

\* It fails, which startSyncAgain logs: the manager counts as started, without loops.
StartFails(k) ==
    /\ failed' = TRUE
    /\ k \in starting
    /\ starting' = starting \ {k}
    /\ route' = IF k = "refusal" THEN "open" ELSE route
    /\ UNCHANGED <<mailVars, started, syncs, chain, abandoned, state, change, stop, call, restores,
                   overtaken, cleared>>

\* A stop() that forgets the loops an earlier one abandoned.
ForgetAbandoned(s) ==
    /\ route = "open"
    /\ restores < MaxRestores
    /\ restores' = restores + 1
    /\ stop[s].step = "free"
    /\ started' = FALSE
    /\ stop' = [stop EXCEPT ![s] = [step |-> "chains", chains |-> Values(chain),
                                    outstanding |-> Values(syncs)]]
    /\ chain' = [a \in Account |-> None]
    /\ call' = s
    /\ route' = "stopping"
    /\ UNCHANGED <<mailVars, syncs, abandoned, starting, state, change, history>>

\* stop() up to its first await, called by a restore that has shut the gate.
CallStop(s) ==
    /\ route = "open"
    /\ restores < MaxRestores
    /\ restores' = restores + 1
    /\ stop[s].step = "free"
    /\ started' = FALSE
    /\ stop' = [stop EXCEPT ![s] = [step |-> "chains", chains |-> Values(chain),
                                    outstanding |-> abandoned \cup Values(syncs)]]
    /\ chain' = [a \in Account |-> None]
    /\ call' = s
    /\ route' = "stopping"
    /\ UNCHANGED <<mailVars, syncs, abandoned, starting, state, change, history>>

\* A continuation that takes a loop which has ended off the books, and no more.
TellLoopsForGood(s) ==
    LET told == stop[s].outstanding \cup Values(syncs)
        gone == {l \in told : state[l] = "gone"}
    IN
    /\ stop[s].step = "chains"
    /\ stop[s].chains = {}
    /\ stop' = [stop EXCEPT ![s].step = "loops", ![s].outstanding = told \ gone]
    /\ abandoned' = abandoned \ gone
    /\ syncs' = [a \in Account |-> None]
    /\ state' = TellToStop(told)
    /\ cleared' = IF started THEN cleared \cup {a \in Account : syncs[a] # None} ELSE cleared
    /\ UNCHANGED <<mailVars, started, chain, starting, change, routeVars, overtaken, failed>>

\* The chains stop() captured have settled: tell every loop to stop, also when the
\* call has answered long ago.  A loop that is gone already is done at once.
TellLoops(s) ==
    LET told == stop[s].outstanding \cup Values(syncs)
        gone == {l \in told : state[l] = "gone"}
        freed == abandoned \cap gone
    IN
    /\ stop[s].step = "chains"
    /\ stop[s].chains = {}
    /\ stop' = [stop EXCEPT ![s].step = "loops", ![s].outstanding = told \ gone]
    /\ abandoned' = abandoned \ gone
    /\ EnsureSync(IF started THEN {l[1] : l \in freed} ELSE {},
                  [a \in Account |-> None], abandoned', TellToStop(told))
    /\ cleared' = IF started THEN cleared \cup {a \in Account : syncs[a] # None} ELSE cleared
    /\ UNCHANGED <<mailVars, started, chain, starting, change, routeVars, overtaken, failed>>

\* Every loop it told is gone: stop() answers, if it still has to.
AnswerStopped(s) ==
    /\ stop[s].step = "loops"
    /\ stop[s].outstanding = {}
    /\ stop' = [stop EXCEPT ![s] = NoStop]
    /\ call' = IF call = s THEN None ELSE call
    /\ route' = IF call = s THEN "applying" ELSE route
    /\ UNCHANGED <<mailVars, started, syncs, chain, abandoned, starting, state, change, restores, history>>

\* The bound ran out: what is left is abandoned, and the restore that asked is
\* refused and starts the manager again.
TimeOut(s) ==
    /\ call = s
    /\ abandoned' = abandoned \cup stop[s].outstanding
    /\ call' = None
    /\ route' = "refusing"
    /\ BeginStart("refusal")
    /\ UNCHANGED <<mailVars, syncs, chain, state, change, stop, restores, history>>

\* The restore ends, having replaced the accounts or not: it opens the gate and
\* calls start().
Release ==
    /\ route = "applying"
    /\ live' \in SUBSET Account
    /\ route' = "open"
    /\ BeginStart("release")
    /\ UNCHANGED <<changes, syncs, chain, abandoned, state, change, stop, call, restores,
                   history>>
-----------------------------------------------------------------------------
\* A microtask is due: a change nothing is before, or a stop() whose chains settled.
MicrotaskDue ==
    \/ \E c \in Change : change[c].step = "queued" /\ change[c].after = None
    \/ \E s \in Stop : stop[s].step = "chains" /\ stop[s].chains = {}

Turn ==
    \/ \E a \in Account :
          \/ \E wanted, connection \in BOOLEAN : ChangeAccount(a, wanted, connection)
          \/ SyncNow(a)
    \/ \E c \in Change : ReconcileAccount(c) \/ ReconcileFails(c)
    \/ \E l \in Loop : StopItself(l) \/ EndLoop(l)
    \/ \E k \in {"refusal", "release"} : Start(k) \/ StartFails(k)
    \/ \E s \in Stop : CallStop(s) \/ AnswerStopped(s) \/ TimeOut(s)
    \/ Release

Next ==
    \/ \E c \in Change : BeginChange(c)
    \/ \E s \in Stop : TellLoops(s)
    \/ ~MicrotaskDue /\ Turn

Spec == Init /\ [][Next]_vars

(***************************************************************************)
(* Every await of the manager ends: its SELECTs, the timer of stop(), and  *)
(* the operation a loop is in when it is told to stop (the IMAP client's   *)
(* socket timeout).  A restore that is being applied ends.                 *)
(***************************************************************************)
FairSpec ==
    /\ Spec
    /\ \A c \in Change : WF_vars(BeginChange(c)) /\ WF_vars(ReconcileAccount(c))
    /\ \A l \in Loop : WF_vars(StopItself(l)) /\ WF_vars(EndLoop(l))
    /\ \A k \in {"refusal", "release"} : WF_vars(Start(k))
    /\ \A s \in Stop : WF_vars(TellLoops(s)) /\ WF_vars(AnswerStopped(s)) /\ WF_vars(TimeOut(s))
    /\ WF_vars(Release)
-----------------------------------------------------------------------------
(* Properties. *)

Alive(l) == state[l] # "gone"

\* Loops nobody keeps account of once a stop() has timed out: those a change is
\* waiting for, which are in neither map, and those its continuation told to stop
\* after it had answered.
Awaited == {l \in Loop : \E c \in Change : change[c].step = "stopping" /\ change[c].old = l}
ToldTooLate ==
    (UNION {stop[s].outstanding : s \in {t \in Stop : t # call /\ stop[t].step = "loops"}})
        \ abandoned
Orphans == Awaited \cup ToldTooLate

\* this.syncs is exact: `get` never hands out a dead loop, and a loop that has not
\* been told to stop is its account's entry, so that no account ever has two.
MapIsTheLoops ==
    /\ \A a \in Account : syncs[a] # None => Alive(syncs[a])
    /\ \A l \in Loop : state[l] = "running" => syncs[l[1]] = l

\* A mailbox has a second loop only while one of the two is an orphan, or was made by a
\* start() whose SELECT returned after a later stop() had begun: ensureSync does not see
\* the loops which that stop() has taken out of the map and not yet abandoned.
SecondLoopIsOrphan ==
    \A l, m \in Loop :
        l # m /\ l[1] = m[1] /\ Alive(l) /\ Alive(m) =>
            {l, m} \cap (Orphans \cup overtaken) # {}

\* When stop() has answered "stopped" no loop is left, in particular none that an earlier
\* stop() abandoned, but for the orphans and for the loops of a start() it overtook.
\* Those are in the map, where the next stop() finds them.
StoppedButForOrphans ==
    route = "applying" =>
        \A l \in Loop :
            Alive(l) => l \in Orphans \/ (l \in overtaken /\ syncs[l[1]] = l)

\* A manager that has started and has nothing pending for a live account runs a loop for
\* it.  It does not if a SELECT of its own failed, or for an account a stop() which had run
\* out of time took out of the map behind the start() that followed.
LiveAccountHasLoop ==
    started /\ starting = {} /\ ~failed =>
        \A a \in live \ cleared :
            \/ syncs[a] # None /\ state[syncs[a]] = "running"
            \/ \E c \in Change : change[c].acct = a
            \/ \E l \in abandoned : l[1] = a

\* An account whose loop was abandoned gets a loop again, if it is still wanted and
\* no SELECT of the manager failed.
AbandonedComesBack ==
    \A a \in Account :
        (\E l \in abandoned : l[1] = a) ~>
            \/ \E l \in Loop \ abandoned : l[1] = a /\ state[l] = "running"
            \/ ~started \/ a \notin live \/ failed
=============================================================================
