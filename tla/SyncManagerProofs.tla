-------------------------- MODULE SyncManagerProofs --------------------------
(***************************************************************************)
(* Theorems of module SyncManager, for any accounts, calls and restores.   *)
(* The inductive invariant says where each loop that has not ended is kept *)
(* account of, and that the loops a restore is stopping or has given up    *)
(* waiting for are one to an account and have no successor in the map, but *)
(* for the loops of a start() that a stop() overtook.  A second invariant  *)
(* (LiveInv) says who has a loop, or what will give it one.                *)
(***************************************************************************)
EXTENDS SyncManager, TLAPS

ChangeCall == [step : {"free", "queued", "select", "stopping"}, acct : Account \cup {None},
               connection : BOOLEAN, after : Change \cup {None},
               old : Loop \cup {None}, wanted : BOOLEAN]
StopCall == [step : {"free", "chains", "loops"}, chains : SUBSET Change,
             outstanding : SUBSET Loop]
Links == \A a \in Account : chain[a] # None => change[chain[a]].acct = a
LoopStates == {"gone", "running", "told"}

\* A call of accountChanged has an account for as long as it has not returned.
Changes ==
    \A c \in Change :
        /\ change[c].step = "free" => change[c] = NoChange
        /\ change[c].step # "free" => change[c].acct \in Account

\* The calls and their chains, as every action keeps them.
Calls ==
    /\ change \in [Change -> ChangeCall]
    /\ chain \in [Account -> Change \cup {None}]
    /\ Links
    /\ Changes

\* The map and the loops, as every action keeps them.
Loops ==
    /\ syncs \in [Account -> Loop \cup {None}]
    /\ \A a \in Account : syncs[a] \in ({a} \X Slot) \cup {None}
    /\ state \in [Loop -> LoopStates]

\* What else the manager and a restore keep.
Rest ==
    /\ live \subseteq Account /\ started \in BOOLEAN
    /\ abandoned \subseteq Loop /\ starting \subseteq {"refusal", "release"}
    /\ stop \in [Stop -> StopCall]
    /\ call \in Stop \cup {None} /\ route \in {"open", "stopping", "applying", "refusing"}
    /\ changes \in 0..MaxChanges /\ restores \in 0..MaxRestores
    /\ overtaken \subseteq Loop /\ cleared \subseteq Account /\ failed \in BOOLEAN

\* Where a loop is kept account of: the map, the abandoned, a change that awaits
\* it, or a stop() that told it.
Known(l) ==
    \/ syncs[l[1]] = l
    \/ l \in abandoned
    \/ l \in Awaited
    \/ \E s \in Stop : stop[s].step = "loops" /\ l \in stop[s].outstanding
AllKnown == \A l \in Loop : Alive(l) => Known(l)

\* How far a restore is and what the manager does meanwhile.
Route ==
    /\ call # None <=> route = "stopping"
    /\ call # None => stop[call].step # "free"
    /\ route \in {"stopping", "applying"} => ~started
    /\ "refusal" \in starting => route = "refusing"

\* The loops that are to end before their account gets another.
Ending == IF call = None THEN abandoned ELSE stop[call].outstanding
OnlyOvertakenMapped == \A a \in Account : syncs[a] \in {None} \cup overtaken
Books ==
    /\ abandoned \subseteq Ending
    /\ \A l, m \in Ending :
         l[1] = m[1] /\ Alive(l) /\ Alive(m) => l = m \/ l \in overtaken \/ m \in overtaken
    /\ \A l \in Ending : Alive(l) => syncs[l[1]] \in {None, l} \cup overtaken
    /\ call # None => (stop[call].step = "loops" => OnlyOvertakenMapped)
    /\ route = "applying" => Ending = {} /\ OnlyOvertakenMapped

IInv == Calls /\ Loops /\ Rest /\ MapIsTheLoops /\ AllKnown /\ Route /\ Books
-----------------------------------------------------------------------------
(* What the actions share: a call enqueued, calls settled, loops made. *)

\* None is no account, no loop and no call.
LEMMA NoneIsNothing ==
    /\ None \notin Account /\ None \notin Loop /\ None \notin Change /\ None \notin Stop
    BY SyncAssumption DEF Loop

\* A call is enqueued under a free id, which no other chain ends in.
LEMMA Enqueued ==
    ASSUME Calls, NEW a \in Account, NEW connection \in BOOLEAN, Enqueue(a, connection)
    PROVE  /\ Calls'
           /\ \A c \in Change :
                change'[c].step = "stopping" <=> change[c].step = "stopping"
           /\ \A c \in Change :
                change[c].step = "stopping" => change'[c] = change[c]
<1>1. PICK c \in Change :
        /\ change[c].step = "free"
        /\ change' = [change EXCEPT ![c] = [NoChange EXCEPT !.step = "queued", !.acct = a,
                                            !.connection = connection, !.after = chain[a]]]
        /\ chain' = [chain EXCEPT ![a] = c]
    BY DEF Enqueue
<1> DEFINE new == [NoChange EXCEPT !.step = "queued", !.acct = a,
                                   !.connection = connection, !.after = chain[a]]
<1>2. new \in ChangeCall /\ new.step = "queued" /\ new.acct = a
    BY DEF Calls, NoChange, ChangeCall
<1> HIDE DEF new
<1>3. \A d \in Change : change'[d] = IF d = c THEN new ELSE change[d]
    BY <1>1 DEF Calls, new
<1>4. change' \in [Change -> ChangeCall] /\ chain' \in [Account -> Change \cup {None}]
    BY <1>1, <1>2 DEF Calls, new
<1>5. \A b \in Account : chain'[b] = IF b = a THEN c ELSE chain[b]
    BY <1>1 DEF Calls
<1>6. Links'
  <2>1. change[c].acct = None
    BY <1>1 DEF Calls, Changes, NoChange
  <2>2. \A b \in Account : chain[b] # c
    BY <1>1, <2>1, NoneIsNothing DEF Calls, Links
  <2>3. QED
    BY <1>2, <1>3, <1>5, <2>2 DEF Calls, Links
<1>7. Changes'
    BY <1>2, <1>3 DEF Calls, Changes
<1>8. QED
    BY <1>1, <1>2, <1>3, <1>4, <1>6, <1>7 DEF Calls

\* Settled calls are free and forgotten; the others go on where they were.
LEMMA Settled ==
    ASSUME Calls, NEW cs \in SUBSET Change, Settle(cs)
    PROVE  /\ Calls'
           /\ \A c \in cs : change'[c].step = "free"
           /\ \A c \in Change \ cs :
                change'[c].step = change[c].step /\ change'[c].old = change[c].old
<1>1. \A c \in Change : change[c] \in ChangeCall
    BY DEF Calls
<1>2. NoChange \in ChangeCall /\ NoChange.step = "free"
    BY DEF NoChange, ChangeCall
<1>3. \A c \in Change : change'[c] = IF c \in cs THEN NoChange
                                     ELSE IF change[c].after \in cs
                                     THEN [change[c] EXCEPT !.after = None]
                                     ELSE change[c]
    BY DEF Settle
<1>4. \A c \in Change \ cs :
        /\ change'[c] \in ChangeCall
        /\ change'[c].step = change[c].step /\ change'[c].old = change[c].old
        /\ change'[c].acct = change[c].acct
  <2>1. SUFFICES ASSUME NEW c \in Change \ cs
                 PROVE  /\ change'[c] \in ChangeCall
                        /\ change'[c].step = change[c].step /\ change'[c].old = change[c].old
                        /\ change'[c].acct = change[c].acct
    OBVIOUS
  <2>2. change[c] \in ChangeCall
    BY <1>1
  <2>3. [change[c] EXCEPT !.after = None] \in ChangeCall
    BY <2>2 DEF ChangeCall
  <2>4. change'[c] \in {change[c], [change[c] EXCEPT !.after = None]}
    BY <1>3
  <2>5. QED
    BY <2>2, <2>3, <2>4 DEF ChangeCall
<1>5. change' \in [Change -> ChangeCall]
  <2>1. \A c \in Change : change'[c] \in ChangeCall
    BY <1>2, <1>3, <1>4
  <2>2. DOMAIN change' = Change /\ change' = [c \in Change |-> change'[c]]
    BY DEF Settle
  <2>3. QED
    BY <2>1, <2>2
<1>6. chain' \in [Account -> Change \cup {None}]
      /\ \A a \in Account : chain'[a] # None => chain'[a] = chain[a] /\ chain[a] \in Change \ cs
    BY DEF Settle, Calls
<1>7. Links'
    BY <1>4, <1>6 DEF Calls, Links
<1>8. Changes'
  <2>1. \A c \in Change \ cs : change[c].step = "free" => change[c] = NoChange
    BY DEF Calls, Changes
  <2>2. \A c \in Change \ cs : change[c].step = "free" => change'[c] = NoChange
    <3>1. NoChange.after \notin cs
      BY NoneIsNothing DEF NoChange
    <3>2. QED
      BY <1>3, <2>1, <3>1
  <2>3. QED
    BY <1>2, <1>3, <1>4, <2>2 DEF Calls, Changes
<1>9. QED
    BY <1>2, <1>3, <1>4, <1>5, <1>6, <1>7, <1>8 DEF Calls

\* A spare object is a loop of the account that has ended and nobody refers to.
LEMMA SpareIs ==
    ASSUME NEW a \in Account, NEW l \in Spare(a)
    PROVE  /\ l \in Loop /\ l \in {a} \X Slot /\ l[1] = a
           /\ state[l] = "gone" /\ l \notin abandoned
           /\ \A s \in Stop : l \notin stop[s].outstanding
    BY DEF Spare, Loop

\* MapIsTheLoops of a map and of the states of the loops.
Exact(syncs1, state1) ==
    /\ \A a \in Account : syncs1[a] # None => state1[syncs1[a]] # "gone"
    /\ \A l \in Loop : state1[l] = "running" => syncs1[l[1]] = l

\* What ensureSync leaves in an entry of the map, and of an object.
Entry(a, as, syncs1, abandoned1) ==
    \/ syncs'[a] = syncs1[a]
    \/ /\ a \in as /\ syncs1[a] = None /\ \A l \in abandoned1 : l[1] # a
       /\ syncs'[a] \in Spare(a) /\ state'[syncs'[a]] = "running"
Object(l, syncs1, state1) ==
    \/ state'[l] = state1[l]
    \/ /\ state'[l] = "running" /\ syncs'[l[1]] = l /\ l \in Spare(l[1])
       /\ syncs1[l[1]] = None

\* ensureSync makes a loop, from a spare object, for an account that has neither
\* a loop nor an abandoned one, and touches nothing else: a map that was exact is so still.
LEMMA Ensured ==
    ASSUME NEW as \in SUBSET Account,
           NEW syncs1 \in [Account -> Loop \cup {None}],
           \A a \in Account : syncs1[a] \in ({a} \X Slot) \cup {None},
           NEW abandoned1, NEW state1 \in [Loop -> LoopStates],
           EnsureSync(as, syncs1, abandoned1, state1)
    PROVE  /\ Loops'
           /\ \A a \in Account : Entry(a, as, syncs1, abandoned1)
           /\ \A l \in Loop : Object(l, syncs1, state1)
           /\ Exact(syncs1, state1) => MapIsTheLoops'
<1> DEFINE missing == {a \in as : syncs1[a] = None /\ \A l \in abandoned1 : l[1] # a}
           new == [a \in missing |-> CHOOSE l \in Spare(a) : TRUE]
<1>1. /\ \A a \in missing : Spare(a) # {}
      /\ syncs' = [a \in Account |-> IF a \in missing THEN new[a] ELSE syncs1[a]]
      /\ state' = [l \in Loop |-> IF l \in Values(new) THEN "running" ELSE state1[l]]
    BY DEF EnsureSync
<1>2. ASSUME NEW a \in missing PROVE new[a] \in Spare(a)
  <2>1. new[a] = CHOOSE l \in Spare(a) : TRUE
    OBVIOUS
  <2>2. QED
    BY <1>1, <2>1
<1>3. \A a \in missing : new[a] \in Loop /\ new[a] \in {a} \X Slot /\ new[a][1] = a
    BY <1>2, SpareIs
<1>4. DOMAIN new = missing /\ missing \subseteq Account /\ missing \subseteq as
      /\ \A a \in missing : syncs1[a] = None /\ \A l \in abandoned1 : l[1] # a
    OBVIOUS
<1> HIDE DEF new, missing
<1>5. \A a \in missing : new[a] \in Values(new)
    BY <1>3, <1>4, NoneIsNothing DEF Values
<1>6. \A l \in Values(new) : \E a \in missing : l = new[a]
    BY <1>4 DEF Values
<1>7. Loops'
  <2>1. \A a \in Account : syncs'[a] \in ({a} \X Slot) \cup {None} /\ syncs'[a] \in Loop \cup {None}
    BY <1>1, <1>3
  <2>2. syncs' \in [Account -> Loop \cup {None}]
    BY <1>1, <2>1
  <2>3. state' \in [Loop -> LoopStates]
    BY <1>1 DEF LoopStates
  <2>4. QED
    BY <2>1, <2>2, <2>3 DEF Loops
<1>8. ASSUME NEW a \in Account
      PROVE  \/ syncs'[a] = syncs1[a]
             \/ /\ a \in as /\ syncs1[a] = None /\ \A l \in abandoned1 : l[1] # a
                /\ syncs'[a] \in Spare(a) /\ state'[syncs'[a]] = "running"
  <2>1. CASE a \in missing
    BY <1>1, <1>2, <1>3, <1>4, <1>5, <2>1
  <2>2. CASE a \notin missing
    BY <1>1, <2>2
  <2>3. QED
    BY <2>1, <2>2
<1>9. ASSUME NEW l \in Loop
      PROVE  \/ state'[l] = state1[l]
             \/ /\ state'[l] = "running" /\ syncs'[l[1]] = l /\ l \in Spare(l[1])
                /\ syncs1[l[1]] = None
  <2>1. CASE l \in Values(new)
    <3>1. PICK a \in missing : l = new[a]
      BY <1>6, <2>1
    <3>2. l[1] = a
      BY <1>3, <3>1
    <3>3. QED
      BY <1>1, <1>2, <1>4, <2>1, <3>1, <3>2
  <2>2. CASE l \notin Values(new)
    BY <1>1, <2>2
  <2>3. QED
    BY <2>1, <2>2
<1>10. ASSUME Exact(syncs1, state1) PROVE MapIsTheLoops'
  <2>1. ASSUME NEW a \in Account, syncs'[a] # None PROVE state'[syncs'[a]] # "gone"
    <3>1. CASE syncs'[a] = syncs1[a]
      <4>1. syncs1[a] \in Loop /\ state1[syncs1[a]] # "gone"
        BY <1>10, <2>1, <3>1 DEF Exact
      <4>2. QED
        BY <1>9, <3>1, <4>1
    <3>2. CASE state'[syncs'[a]] = "running"
      BY <3>2
    <3>3. QED
      BY <1>8, <3>1, <3>2
  <2>2. ASSUME NEW l \in Loop, state'[l] = "running" PROVE syncs'[l[1]] = l
    <3>1. l[1] \in Account /\ l # None
      BY NoneIsNothing DEF Loop
    <3>2. CASE state'[l] = state1[l]
      <4>1. syncs1[l[1]] = l
        BY <1>10, <2>2, <3>2 DEF Exact
      <4>2. QED
        BY <1>8, <3>1, <4>1
    <3>3. CASE syncs'[l[1]] = l
      BY <3>3
    <3>4. QED
      BY <1>9, <3>2, <3>3
  <2>3. QED
    BY <2>1, <2>2 DEF MapIsTheLoops, Alive
<1>11. QED
    BY <1>7, <1>8, <1>9, <1>10 DEF Entry, Object

\* Telling loops to stop ends none and leaves none of them running.
LEMMA Told ==
    ASSUME Loops, NEW ls \in SUBSET Loop
    PROVE  /\ TellToStop(ls) \in [Loop -> LoopStates]
           /\ \A l \in Loop : TellToStop(ls)[l] = "gone" <=> state[l] = "gone"
           /\ \A l \in Loop : TellToStop(ls)[l] = "running" => state[l] = "running" /\ l \notin ls
    BY DEF TellToStop, Loops, LoopStates
-----------------------------------------------------------------------------
(* Types. *)

\* A manager that has booted has the types.
LEMMA InitTypes == Init => Calls /\ Loops /\ Rest
<1> SUFFICES ASSUME Init PROVE Calls /\ Loops /\ Rest
    OBVIOUS
<1> DEFINE first == CHOOSE s \in Slot : TRUE
<1>1. first \in Slot
    BY SyncAssumption
<1> HIDE DEF first
<1>2. /\ syncs = [a \in Account |-> IF a \in live THEN <<a, first>> ELSE None]
      /\ state = [l \in Loop |-> IF l[1] \in live /\ l[2] = first THEN "running" ELSE "gone"]
    BY DEF Init, first
<1>3. Loops
    BY <1>1, <1>2 DEF Loops, Loop, LoopStates
<1>4. NoChange \in ChangeCall /\ NoChange.step = "free"
    BY DEF NoChange, ChangeCall
<1>5. Calls
    BY <1>4 DEF Init, Calls, Links, Changes
<1>6. NoStop \in StopCall
    BY DEF NoStop, StopCall
<1>7. Rest
  <2>1. stop \in [Stop -> StopCall]
    BY <1>6 DEF Init
  <2>2. 0 \in 0..MaxChanges /\ 0 \in 0..MaxRestores
    BY SyncAssumption
  <2>3. QED
    BY <2>1, <2>2 DEF Init, Rest
<1>8. QED
    BY <1>3, <1>5, <1>7

\* Every step keeps the types.
LEMMA StepTypes == Calls /\ Loops /\ Rest /\ [Next]_vars => Calls' /\ Loops' /\ Rest'
<1> SUFFICES ASSUME Calls, Loops, Rest, [Next]_vars PROVE Calls' /\ Loops' /\ Rest'
    OBVIOUS
<1> USE SyncAssumption DEF mailVars, history, routeVars
<1> DEFINE Waiting(cs) == [s \in Stop |-> [stop[s] EXCEPT !.chains = @ \ cs]]
<1>a. ASSUME NEW cs PROVE Waiting(cs) \in [Stop -> StopCall]
    BY DEF Rest, StopCall
<1>b. \A a \in Account : {a} \subseteq Account
    OBVIOUS
<1>1. ASSUME NEW a \in Account, NEW wanted \in BOOLEAN, NEW connection \in BOOLEAN,
             ChangeAccount(a, wanted, connection)
      PROVE  Calls' /\ Loops' /\ Rest'
  <2>1. Calls'
    <3>1. CASE started
      BY <1>1, <3>1, Enqueued DEF ChangeAccount
    <3>2. CASE ~started
      BY <1>1, <3>2 DEF ChangeAccount, Calls, Links, Changes
    <3>3. QED
      BY <3>1, <3>2
  <2>2. Loops' /\ Rest'
    BY <1>1 DEF ChangeAccount, Loops, Rest
  <2>3. QED
    BY <2>1, <2>2
<1>2. ASSUME NEW a \in Account, SyncNow(a) PROVE Calls' /\ Loops' /\ Rest'
  <2>1. Calls'
    BY <1>2, Enqueued DEF SyncNow
  <2>2. Loops' /\ Rest'
    BY <1>2 DEF SyncNow, Loops, Rest
  <2>3. QED
    BY <2>1, <2>2
<1>3. ASSUME NEW c \in Change, BeginChange(c) PROVE Calls' /\ Loops' /\ Rest'
  <2>1. CASE started
    <3>1. change' = [change EXCEPT ![c].step = "select"] /\ UNCHANGED <<chain, stop>>
      BY <1>3, <2>1 DEF BeginChange
    <3>2. change' \in [Change -> ChangeCall]
      BY <3>1 DEF Calls, ChangeCall
    <3>3. \A d \in Change : change'[d].acct = change[d].acct
                            /\ (d # c => change'[d] = change[d]) /\ change'[c].step = "select"
      BY <3>1 DEF Calls, ChangeCall
    <3>4. Calls'
      BY <1>3, <3>1, <3>2, <3>3 DEF BeginChange, Calls, Links, Changes
    <3>5. QED
      BY <1>3, <3>1, <3>4 DEF BeginChange, Loops, Rest
  <2>2. CASE ~started
    <3>1. Calls'
      BY <1>3, <2>2, Settled DEF BeginChange
    <3>2. stop' \in [Stop -> StopCall]
      BY <1>3, <2>2, <1>a DEF BeginChange
    <3>3. QED
      BY <1>3, <3>1, <3>2 DEF BeginChange, Loops, Rest
  <2>3. QED
    BY <2>1, <2>2
<1>4. ASSUME NEW c \in Change, ReconcileAccount(c) PROVE Calls' /\ Loops' /\ Rest'
  <2> DEFINE a == change[c].acct
             replace == syncs[a] # None /\ (a \notin live \/ change[c].connection)
  <2>1. a \in Account
    BY <1>4 DEF ReconcileAccount, Calls, Changes
  <2>2. CASE replace
    <3>1. /\ change' = [change EXCEPT ![c].step = "stopping", ![c].old = syncs[a],
                                      ![c].wanted = a \in live]
          /\ syncs' = [syncs EXCEPT ![a] = None]
          /\ state' = TellToStop({syncs[a]})
          /\ UNCHANGED <<chain, stop>>
      BY <1>4, <2>2 DEF ReconcileAccount
    <3>2. syncs[a] \in Loop
      BY <2>1, <2>2 DEF Loops
    <3>3. change' \in [Change -> ChangeCall]
      <4>1. \A d \in ChangeCall, w \in BOOLEAN :
              [d EXCEPT !.step = "stopping", !.old = syncs[a], !.wanted = w] \in ChangeCall
        BY <3>2 DEF ChangeCall
      <4>2. change' = [change EXCEPT ![c] =
                         [change[c] EXCEPT !.step = "stopping", !.old = syncs[a],
                                           !.wanted = a \in live]]
        BY <3>1 DEF Calls, ChangeCall
      <4>3. change[c] \in ChangeCall /\ (a \in live) \in BOOLEAN
        BY DEF Calls
      <4>4. QED
        BY <4>1, <4>2, <4>3 DEF Calls
    <3>4. \A d \in Change : change'[d].acct = change[d].acct
                            /\ (d # c => change'[d] = change[d]) /\ change'[c].step = "stopping"
      BY <3>1 DEF Calls, ChangeCall
    <3>5. Calls'
      BY <1>4, <3>1, <3>3, <3>4 DEF ReconcileAccount, Calls, Links, Changes
    <3>6. Loops'
      <4>1. state' \in [Loop -> LoopStates]
        BY <3>1, <3>2, Told
      <4>2. QED
        BY <2>1, <3>1, <4>1 DEF Loops
    <3>7. QED
      BY <1>4, <3>1, <3>5, <3>6 DEF ReconcileAccount, Rest
  <2>3. CASE ~replace
    <3>1. PICK as \in SUBSET Account : EnsureSync(as, syncs, abandoned, state)
      BY <1>4, <2>1, <2>3, <1>b DEF ReconcileAccount
    <3>2. Settle({c}) /\ stop' = Waiting({c})
      BY <1>4, <2>3 DEF ReconcileAccount
    <3>3. Calls'
      BY <3>2, Settled
    <3>4. Loops'
      BY <3>1, Ensured DEF Loops
    <3>5. QED
      BY <1>4, <1>a, <3>2, <3>3, <3>4 DEF ReconcileAccount, Rest
  <2>4. QED
    BY <2>2, <2>3
<1>5. ASSUME NEW c \in Change, ReconcileFails(c) PROVE Calls' /\ Loops' /\ Rest'
  <2>1. Calls'
    BY <1>5, Settled DEF ReconcileFails
  <2>2. stop' \in [Stop -> StopCall]
    BY <1>5, <1>a DEF ReconcileFails
  <2>3. QED
    BY <1>5, <2>1, <2>2 DEF ReconcileFails, Loops, Rest
<1>6. ASSUME NEW l \in Loop, StopItself(l) PROVE Calls' /\ Loops' /\ Rest'
    BY <1>6 DEF StopItself, Calls, Links, Changes, Loops, LoopStates, Rest
<1>7. ASSUME NEW l \in Loop, EndLoop(l) PROVE Calls' /\ Loops' /\ Rest'
  <2> DEFINE syncs1 == IF syncs[l[1]] = l THEN [syncs EXCEPT ![l[1]] = None] ELSE syncs
             state1 == [state EXCEPT ![l] = "gone"]
             asked == {s \in Stop : stop[s].step = "loops" /\ l \in stop[s].outstanding}
             waiters == {c \in Change : change[c].step = "stopping" /\ change[c].old = l}
  <2>1. l[1] \in Account
    BY DEF Loop
  <2>2. /\ syncs1 \in [Account -> Loop \cup {None}]
        /\ \A a \in Account : syncs1[a] \in ({a} \X Slot) \cup {None}
        /\ state1 \in [Loop -> LoopStates]
    BY <2>1 DEF Loops, LoopStates
  <2>3. /\ \E as \in SUBSET Account : EnsureSync(as, syncs1, abandoned', state1)
        /\ Settle(waiters)
        /\ stop' = [s \in Stop |-> [stop[s] EXCEPT !.chains = @ \ waiters,
                                      !.outstanding = IF s \in asked THEN @ \ {l} ELSE @]]
        /\ abandoned' \subseteq abandoned
    BY <1>7, <2>1, <1>b DEF EndLoop
  <2> HIDE DEF waiters, asked, syncs1, state1
  <2>4. Loops'
    BY <2>2, <2>3, Ensured
  <2>5. Calls'
    BY <2>3, Settled DEF waiters
  <2>6. stop' \in [Stop -> StopCall]
    BY <2>3 DEF Rest, StopCall
  <2>7. QED
    BY <1>7, <2>3, <2>4, <2>5, <2>6 DEF EndLoop, Rest
<1>8. ASSUME NEW k \in {"refusal", "release"}, Start(k) PROVE Calls' /\ Loops' /\ Rest'
  <2>1. Loops'
    BY <1>8, Ensured DEF Start, Loops, Rest
  <2>2. overtaken' \subseteq Loop /\ cleared' \subseteq Account
    BY <1>8 DEF Start, Made, Rest
  <2>3. QED
    BY <1>8, <2>1, <2>2 DEF Start, Calls, Links, Changes, Rest
<1>9. ASSUME NEW k \in {"refusal", "release"}, StartFails(k) PROVE Calls' /\ Loops' /\ Rest'
    BY <1>9 DEF StartFails, Calls, Links, Changes, Loops, Rest
<1>10. ASSUME NEW s \in Stop, CallStop(s) PROVE Calls' /\ Loops' /\ Rest'
  <2>1. Values(chain) \subseteq Change /\ Values(syncs) \subseteq Loop
    BY DEF Values, Calls, Loops
  <2>2. stop' \in [Stop -> StopCall]
    BY <1>10, <2>1 DEF CallStop, Rest, StopCall
  <2>3. Calls'
    BY <1>10 DEF CallStop, Calls, Links, Changes
  <2>4. QED
    <3>1. restores' \in 0..MaxRestores
      BY <1>10 DEF CallStop, Rest
    <3>2. QED
      BY <1>10, <2>2, <2>3, <3>1 DEF CallStop, Loops, Rest
<1>11. ASSUME NEW s \in Stop, TellLoops(s) PROVE Calls' /\ Loops' /\ Rest'
  <2> DEFINE told == stop[s].outstanding \cup Values(syncs)
             gone == {l \in told : state[l] = "gone"}
             none == [a \in Account |-> None]
  <2>1. told \in SUBSET Loop
    BY DEF Values, Loops, Rest, StopCall
  <2>2. {l[1] : l \in abandoned \cap gone} \in SUBSET Account
    BY DEF Rest, Loop
  <2>3. /\ \E as \in SUBSET Account : EnsureSync(as, none, abandoned', TellToStop(told))
        /\ stop' = [stop EXCEPT ![s].step = "loops", ![s].outstanding = told \ gone]
        /\ abandoned' = abandoned \ gone
    BY <1>11, <2>2 DEF TellLoops
  <2>4. TellToStop(told) \in [Loop -> LoopStates]
    BY <2>1, Told
  <2> HIDE DEF told, gone
  <2>5. none \in [Account -> Loop \cup {None}]
        /\ \A a \in Account : none[a] \in ({a} \X Slot) \cup {None}
    OBVIOUS
  <2> HIDE DEF none
  <2>6. Loops'
    BY <2>3, <2>4, <2>5, Ensured
  <2>7. stop' \in [Stop -> StopCall]
    BY <2>1, <2>3 DEF Rest, StopCall
  <2>8. QED
    BY <1>11, <2>3, <2>6, <2>7 DEF TellLoops, Calls, Links, Changes, Rest
<1>12. ASSUME NEW s \in Stop, AnswerStopped(s) PROVE Calls' /\ Loops' /\ Rest'
  <2>1. NoStop \in StopCall
    BY DEF NoStop, StopCall
  <2>2. QED
    BY <1>12, <2>1 DEF AnswerStopped, Calls, Links, Changes, Loops, Rest
<1>13. ASSUME NEW s \in Stop, TimeOut(s) PROVE Calls' /\ Loops' /\ Rest'
    BY <1>13 DEF TimeOut, BeginStart, Calls, Links, Changes, Loops, Rest, StopCall
<1>14. CASE Release
    BY <1>14 DEF Release, BeginStart, Calls, Links, Changes, Loops, Rest
<1>15. CASE UNCHANGED vars
    BY <1>15 DEF vars, Calls, Links, Changes, Loops, Rest
<1>16. QED
    BY <1>1, <1>2, <1>3, <1>4, <1>5, <1>6, <1>7, <1>8, <1>9, <1>10, <1>11, <1>12, <1>13, <1>14,
       <1>15 DEF Next, Turn
-----------------------------------------------------------------------------
(* The map and the loops. *)

\* No step leaves an ended loop in the map, or a running one out of it.
LEMMA StepExact == Calls /\ Loops /\ Rest /\ MapIsTheLoops /\ [Next]_vars => MapIsTheLoops'
<1> SUFFICES ASSUME Calls, Loops, Rest, MapIsTheLoops, [Next]_vars PROVE MapIsTheLoops'
    OBVIOUS
<1>0. /\ \A a \in Account : syncs[a] \in Loop \cup {None}
      /\ \A a \in Account : syncs[a] # None => state[syncs[a]] # "gone"
      /\ \A l \in Loop : state[l] = "running" => syncs[l[1]] = l
      /\ \A l \in Loop : l[1] \in Account
    BY DEF Loops, MapIsTheLoops, Alive, Loop
<1>a. ASSUME UNCHANGED <<syncs, state>> PROVE MapIsTheLoops'
    BY <1>a DEF MapIsTheLoops, Alive
<1>b. ASSUME \E as \in SUBSET Account : EnsureSync(as, syncs, abandoned, state)
      PROVE  MapIsTheLoops'
  <2>1. Exact(syncs, state)
    BY <1>0 DEF Exact
  <2>2. QED
    BY <1>b, <2>1, Ensured DEF Loops
<1>1. ASSUME NEW c \in Change, ReconcileAccount(c) PROVE MapIsTheLoops'
  <2> DEFINE a == change[c].acct
             replace == syncs[a] # None /\ (a \notin live \/ change[c].connection)
  <2>1. a \in Account
    BY <1>1 DEF ReconcileAccount, Calls, Changes
  <2>2. CASE replace
    <3>1. syncs' = [syncs EXCEPT ![a] = None] /\ state' = TellToStop({syncs[a]})
      BY <1>1, <2>2 DEF ReconcileAccount
    <3>2. /\ \A l \in Loop : state'[l] = "gone" <=> state[l] = "gone"
          /\ \A l \in Loop : state'[l] = "running" => state[l] = "running" /\ l # syncs[a]
      BY <1>0, <2>1, <2>2, <3>1, Told
    <3>3. \A b \in Account : syncs'[b] = IF b = a THEN None ELSE syncs[b]
      BY <2>1, <3>1 DEF Loops
    <3>4. QED
      BY <1>0, <3>2, <3>3 DEF MapIsTheLoops, Alive
  <2>3. CASE ~replace
    <3>1. (IF a \in live /\ started THEN {a} ELSE {}) \in SUBSET Account
      BY <2>1
    <3>2. QED
      BY <1>1, <1>b, <2>3, <3>1 DEF ReconcileAccount
  <2>4. QED
    BY <2>2, <2>3
<1>2. ASSUME NEW l \in Loop, StopItself(l) PROVE MapIsTheLoops'
  <2>1. syncs' = syncs /\ \A m \in Loop : state'[m] = IF m = l THEN "told" ELSE state[m]
    BY <1>2 DEF StopItself, Loops
  <2>2. QED
    BY <1>0, <2>1 DEF MapIsTheLoops, Alive
<1>3. ASSUME NEW l \in Loop, EndLoop(l) PROVE MapIsTheLoops'
  <2> DEFINE syncs1 == IF syncs[l[1]] = l THEN [syncs EXCEPT ![l[1]] = None] ELSE syncs
             state1 == [state EXCEPT ![l] = "gone"]
  <2>1. /\ \A a \in Account : syncs1[a] = IF syncs[a] = l THEN None ELSE syncs[a]
        /\ \A m \in Loop : state1[m] = IF m = l THEN "gone" ELSE state[m]
        /\ syncs1 \in [Account -> Loop \cup {None}]
        /\ state1 \in [Loop -> LoopStates]
    <3>1. \A a \in Account : syncs[a] = l => a = l[1]
      BY NoneIsNothing DEF Loops
    <3>2. QED
      BY <1>0, <3>1 DEF Loops, LoopStates
  <2>2. {l[1]} \in SUBSET Account
    BY <1>0
  <2>3. \E as \in SUBSET Account : EnsureSync(as, syncs1, abandoned', state1)
    BY <1>3, <2>2 DEF EndLoop
  <2> HIDE DEF syncs1, state1
  <2>4. \A a \in Account : syncs1[a] \in ({a} \X Slot) \cup {None}
    BY <2>1 DEF Loops
  <2>5. \A a \in Account : syncs1[a] # None => state1[syncs1[a]] # "gone"
    BY <1>0, <2>1
  <2>6. \A m \in Loop : state1[m] = "running" => syncs1[m[1]] = m
    BY <1>0, <2>1
  <2>7. Exact(syncs1, state1)
    BY <2>5, <2>6 DEF Exact
  <2>8. QED
    BY <2>1, <2>3, <2>4, <2>7, Ensured
<1>4. ASSUME NEW k \in {"refusal", "release"}, Start(k) PROVE MapIsTheLoops'
    BY <1>4, <1>b DEF Start, Rest
<1>5. ASSUME NEW s \in Stop, TellLoops(s) PROVE MapIsTheLoops'
  <2> DEFINE told == stop[s].outstanding \cup Values(syncs)
             gone == {l \in told : state[l] = "gone"}
             none == [a \in Account |-> None]
  <2>1. told \in SUBSET Loop /\ \A a \in Account : syncs[a] # None => syncs[a] \in told
    BY DEF Values, Loops, Rest, StopCall
  <2>2. {l[1] : l \in abandoned \cap gone} \in SUBSET Account
    BY <1>0 DEF Rest
  <2>3. \E as \in SUBSET Account : EnsureSync(as, none, abandoned', TellToStop(told))
    BY <1>5, <2>2 DEF TellLoops
  <2>4. TellToStop(told) \in [Loop -> LoopStates]
        /\ \A l \in Loop : TellToStop(told)[l] # "running"
    BY <1>0, <2>1, NoneIsNothing, Told
  <2>5. none \in [Account -> Loop \cup {None}] /\ \A a \in Account : none[a] = None
    OBVIOUS
  <2> HIDE DEF none, told
  <2>6. Exact(none, TellToStop(told))
    BY <2>4, <2>5 DEF Exact
  <2>7. QED
    BY <2>3, <2>4, <2>5, <2>6, Ensured
<1>6. CASE UNCHANGED vars
    BY <1>6, <1>a DEF vars
<1>7. QED
  <2>1. ASSUME \/ \E a \in Account :
                     \/ \E wanted, connection \in BOOLEAN : ChangeAccount(a, wanted, connection)
                     \/ SyncNow(a)
               \/ \E c \in Change : BeginChange(c) \/ ReconcileFails(c)
               \/ \E k \in {"refusal", "release"} : StartFails(k)
               \/ \E s \in Stop : CallStop(s) \/ AnswerStopped(s) \/ TimeOut(s)
               \/ Release
        PROVE  MapIsTheLoops'
    BY <1>a, <2>1 DEF ChangeAccount, SyncNow, BeginChange, ReconcileFails, StartFails, CallStop,
          AnswerStopped, TimeOut, Release
  <2>2. QED
    BY <1>1, <1>2, <1>3, <1>4, <1>5, <1>6, <2>1 DEF Next, Turn
-----------------------------------------------------------------------------
(* Every loop that has not ended is kept account of. *)

\* A loop is known still if what kept account of it does, or something else does.
LEMMA KeepsKnown ==
    ASSUME AllKnown,
           \A l \in Loop : state'[l] # "gone" => state[l] # "gone" \/ syncs'[l[1]] = l,
           \A l \in Loop : state'[l] # "gone" /\ syncs[l[1]] = l => Known(l)',
           \A l \in abandoned : state'[l] # "gone" => l \in abandoned',
           \A c \in Change, l \in Loop :
              change[c].step = "stopping" /\ change[c].old = l /\ state'[l] # "gone" =>
                 change'[c].step = "stopping" /\ change'[c].old = l,
           \A s \in Stop, l \in Loop :
              stop[s].step = "loops" /\ l \in stop[s].outstanding /\ state'[l] # "gone" =>
                 stop'[s].step = "loops" /\ l \in stop'[s].outstanding
    PROVE  AllKnown'
<1> SUFFICES ASSUME NEW l \in Loop, state'[l] # "gone" PROVE Known(l)'
    BY DEF AllKnown, Alive
<1>1. CASE syncs'[l[1]] = l
    BY <1>1 DEF Known
<1>2. CASE Alive(l)
  <2>1. Known(l)
    BY <1>2 DEF AllKnown
  <2>2. CASE l \in Awaited
    BY <2>2 DEF Known, Awaited
  <2>3. QED
    BY <2>1, <2>2 DEF Known
<1>3. QED
    BY <1>1, <1>2 DEF Alive

\* No step loses a loop that has not ended.
LEMMA StepKnown == Calls /\ Loops /\ Rest /\ AllKnown /\ [Next]_vars => AllKnown'
<1> SUFFICES ASSUME Calls, Loops, Rest, AllKnown, [Next]_vars PROVE AllKnown'
    OBVIOUS
<1> DEFINE Waiting(cs) == [s \in Stop |-> [stop[s] EXCEPT !.chains = @ \ cs]]
           SameStops == \A s \in Stop : stop'[s].step = stop[s].step
                                        /\ stop'[s].outstanding = stop[s].outstanding
           SameAwaits == \A c \in Change :
                            change[c].step = "stopping" =>
                               change'[c].step = "stopping" /\ change'[c].old = change[c].old
           SameLoops == /\ \A l \in Loop : state'[l] # "gone" => state[l] # "gone"
                        /\ syncs' = syncs /\ abandoned \subseteq abandoned'
<1>0. /\ \A l \in Loop : l[1] \in Account /\ l # None
      /\ \A s \in Stop : stop[s].outstanding \subseteq Loop
      /\ abandoned \subseteq Loop
    BY NoneIsNothing DEF Loop, Rest, StopCall
<1>a. ASSUME SameLoops, SameAwaits, SameStops PROVE AllKnown'
    BY <1>0, <1>a, KeepsKnown DEF Known
<1>b. ASSUME NEW cs, stop' = Waiting(cs) PROVE SameStops
    BY <1>b DEF Rest, StopCall
<1>c. ASSUME \E as \in SUBSET Account : EnsureSync(as, syncs, abandoned, state),
             abandoned' = abandoned, SameAwaits, SameStops
      PROVE  AllKnown'
  <2>1. PICK as : /\ \A a \in Account : Entry(a, as, syncs, abandoned)
                  /\ \A l \in Loop : Object(l, syncs, state)
    BY <1>c, Ensured DEF Loops
  <2>2. \A l \in Loop : state'[l] # "gone" => state[l] # "gone" \/ syncs'[l[1]] = l
    BY <2>1 DEF Object
  <2>3. \A l \in Loop : syncs[l[1]] = l => syncs'[l[1]] = l
    BY <1>0, <2>1 DEF Entry
  <2>4. QED
    BY <1>0, <1>c, <2>2, <2>3, KeepsKnown DEF Known
<1>1. ASSUME NEW a \in Account, NEW wanted \in BOOLEAN, NEW connection \in BOOLEAN,
             ChangeAccount(a, wanted, connection)
      PROVE  AllKnown'
  <2>1. SameAwaits
    BY <1>1, Enqueued DEF ChangeAccount
  <2>2. QED
    BY <1>1, <1>a, <2>1 DEF ChangeAccount
<1>2. ASSUME NEW a \in Account, SyncNow(a) PROVE AllKnown'
  <2>1. SameAwaits
    BY <1>2, Enqueued DEF SyncNow
  <2>2. QED
    BY <1>2, <1>a, <2>1 DEF SyncNow
<1>3. ASSUME NEW c \in Change, BeginChange(c) PROVE AllKnown'
  <2>1. CASE started
    <3>1. change' = [change EXCEPT ![c].step = "select"] /\ change[c].step = "queued"
      BY <1>3, <2>1 DEF BeginChange
    <3>2. SameAwaits
      BY <3>1 DEF Calls
    <3>3. QED
      BY <1>3, <1>a, <2>1, <3>2 DEF BeginChange
  <2>2. CASE ~started
    <3>1. SameAwaits
      BY <1>3, <2>2, Settled DEF BeginChange
    <3>2. SameStops
      BY <1>3, <1>b, <2>2 DEF BeginChange
    <3>3. QED
      BY <1>3, <1>a, <3>1, <3>2 DEF BeginChange
  <2>3. QED
    BY <2>1, <2>2
<1>4. ASSUME NEW c \in Change, ReconcileAccount(c) PROVE AllKnown'
  <2> DEFINE a == change[c].acct
             replace == syncs[a] # None /\ (a \notin live \/ change[c].connection)
  <2>1. a \in Account
    BY <1>4 DEF ReconcileAccount, Calls, Changes
  <2>2. CASE replace
    <3>1. /\ change' = [change EXCEPT ![c].step = "stopping", ![c].old = syncs[a],
                                      ![c].wanted = a \in live]
          /\ syncs' = [syncs EXCEPT ![a] = None]
          /\ state' = TellToStop({syncs[a]})
          /\ UNCHANGED <<chain, stop, abandoned>>
      BY <1>4, <2>2 DEF ReconcileAccount
    <3>2. syncs[a] \in Loop
      BY <2>1, <2>2 DEF Loops
    <3>3. \A l \in Loop : state'[l] # "gone" => state[l] # "gone"
      BY <3>1, <3>2, Told
    <3>4. /\ change'[c].step = "stopping" /\ change'[c].old = syncs[a]
          /\ \A d \in Change : d # c => change'[d] = change[d]
      BY <3>1 DEF Calls, ChangeCall
    <3>5. SameAwaits
      BY <1>4, <3>4 DEF ReconcileAccount
    <3>6. \A b \in Account : b # a => syncs'[b] = syncs[b]
      BY <3>1 DEF Loops
    <3>7. ASSUME NEW l \in Loop, syncs[l[1]] = l PROVE Known(l)'
      <4>1. CASE l[1] = a
        BY <3>4, <3>7, <4>1 DEF Known, Awaited
      <4>2. CASE l[1] # a
        BY <1>0, <3>6, <3>7, <4>2 DEF Known
      <4>3. QED
        BY <4>1, <4>2
    <3>8. QED
      BY <1>0, <3>1, <3>3, <3>5, <3>7, KeepsKnown
  <2>3. CASE ~replace
    <3>1. (IF a \in live /\ started THEN {a} ELSE {}) \in SUBSET Account
      BY <2>1
    <3>2. /\ \E as \in SUBSET Account : EnsureSync(as, syncs, abandoned, state)
          /\ Settle({c}) /\ stop' = Waiting({c}) /\ abandoned' = abandoned
      BY <1>4, <2>3, <3>1 DEF ReconcileAccount
    <3>3. SameAwaits
      BY <1>4, <3>2, Settled DEF ReconcileAccount
    <3>4. QED
      BY <1>b, <1>c, <3>2, <3>3
  <2>4. QED
    BY <2>2, <2>3
<1>5. ASSUME NEW c \in Change, ReconcileFails(c) PROVE AllKnown'
  <2>1. SameAwaits
    BY <1>5, Settled DEF ReconcileFails
  <2>2. SameStops
    BY <1>5, <1>b DEF ReconcileFails
  <2>3. QED
    BY <1>5, <1>a, <2>1, <2>2 DEF ReconcileFails
<1>6. ASSUME NEW l \in Loop, StopItself(l) PROVE AllKnown'
  <2>1. \A m \in Loop : state'[m] # "gone" => state[m] # "gone"
    BY <1>6 DEF StopItself, Loops
  <2>2. QED
    BY <1>6, <1>a, <2>1 DEF StopItself
<1>7. ASSUME NEW l \in Loop, EndLoop(l) PROVE AllKnown'
  <2> DEFINE syncs1 == IF syncs[l[1]] = l THEN [syncs EXCEPT ![l[1]] = None] ELSE syncs
             state1 == [state EXCEPT ![l] = "gone"]
             asked == {s \in Stop : stop[s].step = "loops" /\ l \in stop[s].outstanding}
             waiters == {c \in Change : change[c].step = "stopping" /\ change[c].old = l}
  <2>1. {l[1]} \in SUBSET Account
    BY <1>0
  <2>2. /\ \E as \in SUBSET Account : EnsureSync(as, syncs1, abandoned', state1)
        /\ Settle(waiters)
        /\ stop' = [s \in Stop |-> [stop[s] EXCEPT !.chains = @ \ waiters,
                                      !.outstanding = IF s \in asked THEN @ \ {l} ELSE @]]
        /\ abandoned \ {l} \subseteq abandoned'
    BY <1>7, <2>1 DEF EndLoop
  <2>3. /\ \A a \in Account : syncs1[a] = IF syncs[a] = l THEN None ELSE syncs[a]
        /\ \A m \in Loop : state1[m] = IF m = l THEN "gone" ELSE state[m]
        /\ syncs1 \in [Account -> Loop \cup {None}]
        /\ \A a \in Account : syncs1[a] \in ({a} \X Slot) \cup {None}
        /\ state1 \in [Loop -> LoopStates]
    <3>1. \A a \in Account : syncs[a] = l => a = l[1]
      BY <1>0 DEF Loops
    <3>2. QED
      BY <1>0, <3>1 DEF Loops, LoopStates
  <2>4. \A c \in Change \ waiters :
          change'[c].step = change[c].step /\ change'[c].old = change[c].old
    BY <2>2, Settled
  <2>5. \A s \in Stop : stop'[s].step = stop[s].step
                        /\ stop[s].outstanding \ {l} \subseteq stop'[s].outstanding
    BY <2>2 DEF Rest, StopCall
  <2> HIDE DEF syncs1, state1, asked
  <2>6. PICK as : /\ \A a \in Account : Entry(a, as, syncs1, abandoned')
                  /\ \A m \in Loop : Object(m, syncs1, state1)
    BY <2>2, <2>3, Ensured
  <2>7. \A m \in Loop : state'[m] # "gone" =>
          (state[m] # "gone" /\ m # l) \/ syncs'[m[1]] = m
    BY <2>3, <2>6 DEF Object
  <2>8. ASSUME NEW m \in Loop, m # l, syncs[m[1]] = m PROVE syncs'[m[1]] = m
    <3>1. m[1] \in Account /\ m # None
      BY <1>0
    <3>2. syncs1[m[1]] = m
      BY <2>3, <2>8, <3>1
    <3>3. Entry(m[1], as, syncs1, abandoned')
      BY <2>6, <3>1
    <3>4. QED
      BY <3>1, <3>2, <3>3 DEF Entry
  <2>9. ASSUME NEW m \in Loop, state'[m] # "gone" PROVE Known(m)'
    <3>1. CASE syncs'[m[1]] = m
      BY <3>1 DEF Known
    <3>2. CASE Alive(m) /\ m # l
      <4>1. Known(m)
        BY <3>2 DEF AllKnown
      <4>2. CASE m \in Awaited
        <5>1. PICK c \in Change : change[c].step = "stopping" /\ change[c].old = m
          BY <4>2 DEF Awaited
        <5>2. QED
          BY <2>4, <3>2, <5>1 DEF Known, Awaited
      <4>3. CASE syncs[m[1]] = m
        BY <2>8, <3>2, <4>3 DEF Known
      <4>4. CASE m \in abandoned
        BY <2>2, <3>2, <4>4 DEF Known
      <4>5. CASE \E s \in Stop : stop[s].step = "loops" /\ m \in stop[s].outstanding
        BY <2>5, <3>2, <4>5 DEF Known
      <4>6. QED
        BY <4>1, <4>2, <4>3, <4>4, <4>5 DEF Known
    <3>3. QED
      BY <2>7, <2>9, <3>1, <3>2 DEF Alive
  <2>10. QED
    BY <2>9 DEF AllKnown, Alive
<1>8. ASSUME NEW k \in {"refusal", "release"}, Start(k) PROVE AllKnown'
    BY <1>8, <1>c DEF Start, Rest
<1>9. ASSUME NEW k \in {"refusal", "release"}, StartFails(k) PROVE AllKnown'
    BY <1>9, <1>a DEF StartFails
<1>10. ASSUME NEW s \in Stop, CallStop(s) PROVE AllKnown'
  <2>1. \A t \in Stop : t # s => stop'[t] = stop[t]
    BY <1>10 DEF CallStop, Rest
  <2>2. stop[s].step # "loops"
    BY <1>10 DEF CallStop
  <2>3. QED
    BY <1>0, <1>10, <2>1, <2>2, KeepsKnown DEF CallStop, Known
<1>11. ASSUME NEW s \in Stop, TellLoops(s) PROVE AllKnown'
  <2> DEFINE told == stop[s].outstanding \cup Values(syncs)
             gone == {l \in told : state[l] = "gone"}
             none == [a \in Account |-> None]
  <2>1. told \in SUBSET Loop /\ \A a \in Account : syncs[a] # None => syncs[a] \in told
    BY DEF Values, Loops, Rest, StopCall
  <2>2. {l[1] : l \in abandoned \cap gone} \in SUBSET Account
    BY <1>0
  <2>3. /\ \E as \in SUBSET Account : EnsureSync(as, none, abandoned', TellToStop(told))
        /\ stop' = [stop EXCEPT ![s].step = "loops", ![s].outstanding = told \ gone]
        /\ abandoned' = abandoned \ gone
        /\ stop[s].step = "chains"
    BY <1>11, <2>2 DEF TellLoops
  <2>4. TellToStop(told) \in [Loop -> LoopStates]
        /\ \A l \in Loop : TellToStop(told)[l] # "gone" => state[l] # "gone"
    BY <2>1, Told
  <2>5. /\ stop'[s].step = "loops" /\ stop'[s].outstanding = told \ gone
        /\ \A t \in Stop : t # s => stop'[t] = stop[t]
    BY <2>3 DEF Rest, StopCall
  <2>6. none \in [Account -> Loop \cup {None}] /\ \A a \in Account : none[a] = None
    OBVIOUS
  <2>7. \A l \in Loop : l \in gone => state[l] = "gone"
    OBVIOUS
  <2> HIDE DEF none, told, gone
  <2>8. PICK as : /\ \A a \in Account : Entry(a, as, none, abandoned')
                  /\ \A l \in Loop : Object(l, none, TellToStop(told))
    BY <2>3, <2>4, <2>6, Ensured
  <2>9. \A l \in Loop : state'[l] # "gone" => state[l] # "gone" \/ syncs'[l[1]] = l
    BY <2>4, <2>8 DEF Object
  <2>10. ASSUME NEW l \in Loop, state'[l] # "gone" PROVE Known(l)'
    <3>1. CASE syncs'[l[1]] = l
      BY <3>1 DEF Known
    <3>2. CASE Alive(l)
      <4>1. l \notin gone
        BY <2>7, <3>2 DEF Alive
      <4>2. Known(l)
        BY <3>2 DEF AllKnown
      <4>3. CASE syncs[l[1]] = l
        <5>1. l \in told
          BY <1>0, <2>1, <4>3
        <5>2. QED
          BY <2>5, <4>1, <5>1 DEF Known
      <4>4. CASE l \in abandoned
        BY <2>3, <4>1, <4>4 DEF Known
      <4>5. CASE l \in Awaited
        BY <1>11, <4>5 DEF TellLoops, Known, Awaited
      <4>6. CASE \E t \in Stop : stop[t].step = "loops" /\ l \in stop[t].outstanding
        BY <2>3, <2>5, <4>6 DEF Known
      <4>7. QED
        BY <4>2, <4>3, <4>4, <4>5, <4>6 DEF Known
    <3>3. QED
      BY <2>9, <2>10, <3>1, <3>2 DEF Alive
  <2>11. QED
    BY <2>10 DEF AllKnown, Alive
<1>12. ASSUME NEW s \in Stop, AnswerStopped(s) PROVE AllKnown'
  <2>1. \A t \in Stop : t # s => stop'[t] = stop[t]
    BY <1>12 DEF AnswerStopped, Rest
  <2>2. stop[s].outstanding = {}
    BY <1>12 DEF AnswerStopped
  <2>3. QED
    BY <1>0, <1>12, <2>1, <2>2, KeepsKnown DEF AnswerStopped, Known
<1>13. ASSUME NEW s \in Stop, TimeOut(s) PROVE AllKnown'
    BY <1>13, <1>a DEF TimeOut
<1>14. CASE Release
    BY <1>14, <1>a DEF Release
<1>15. CASE UNCHANGED vars
    BY <1>15, <1>a DEF vars, mailVars
<1>16. QED
    BY <1>1, <1>2, <1>3, <1>4, <1>5, <1>6, <1>7, <1>8, <1>9, <1>10, <1>11, <1>12, <1>13, <1>14,
       <1>15 DEF Next, Turn
-----------------------------------------------------------------------------
(* A restore, its stop() and the manager. *)

\* While a restore stops the manager or is applied the manager is not started.
LEMMA StepRoute == Rest /\ Route /\ [Next]_vars => Route'
<1> SUFFICES ASSUME Rest, Route, [Next]_vars PROVE Route'
    OBVIOUS
<1> USE DEF mailVars, history, routeVars
<1>1. ASSUME stop' \in [Stop -> StopCall], \A s \in Stop : stop'[s].step = stop[s].step,
             UNCHANGED <<call, route, started, starting>>
      PROVE  Route'
    BY <1>1 DEF Route, Rest
<1> DEFINE Waiting(cs) == [s \in Stop |-> [stop[s] EXCEPT !.chains = @ \ cs]]
<1>2. ASSUME NEW cs, stop' = Waiting(cs), UNCHANGED <<call, route, started, starting>>
      PROVE  Route'
    BY <1>2 DEF Route, Rest, StopCall
<1>3. ASSUME UNCHANGED <<stop, call, route, started, starting>> PROVE Route'
    BY <1>3 DEF Route
<1>4. ASSUME NEW a \in Account,
             \/ \E wanted, connection \in BOOLEAN : ChangeAccount(a, wanted, connection)
             \/ SyncNow(a)
      PROVE  Route'
    BY <1>3, <1>4 DEF ChangeAccount, SyncNow
<1>5. ASSUME NEW c \in Change, BeginChange(c) \/ ReconcileAccount(c) \/ ReconcileFails(c)
      PROVE  Route'
    BY <1>2, <1>3, <1>5 DEF BeginChange, ReconcileAccount, ReconcileFails
<1>6. ASSUME NEW l \in Loop, StopItself(l) PROVE Route'
    BY <1>3, <1>6 DEF StopItself
<1>7. ASSUME NEW l \in Loop, EndLoop(l) PROVE Route'
  <2>1. \A s \in Stop : stop'[s].step = stop[s].step
    BY <1>7 DEF EndLoop, Rest, StopCall
  <2>2. UNCHANGED <<call, route, started, starting>>
    BY <1>7 DEF EndLoop
  <2>3. QED
    BY <2>1, <2>2 DEF Route, Rest
<1>8. ASSUME NEW k \in {"refusal", "release"}, Start(k) \/ StartFails(k) PROVE Route'
    BY <1>8 DEF Start, StartFails, Route
<1>9. ASSUME NEW s \in Stop, CallStop(s) PROVE Route'
  <2>1. stop'[s].step = "chains" /\ s # None
    BY <1>9, NoneIsNothing DEF CallStop, Rest
  <2>2. QED
    BY <1>9, <2>1 DEF CallStop, Route
<1>10. ASSUME NEW s \in Stop, TellLoops(s) PROVE Route'
  <2>1. stop'[s].step = "loops" /\ \A t \in Stop : t # s => stop'[t] = stop[t]
    BY <1>10 DEF TellLoops, Rest, StopCall
  <2>2. UNCHANGED <<call, route, started, starting>>
    BY <1>10 DEF TellLoops
  <2>3. QED
    BY <2>1, <2>2 DEF Route, Rest
<1>11. ASSUME NEW s \in Stop, AnswerStopped(s) PROVE Route'
  <2>1. \A t \in Stop : t # s => stop'[t] = stop[t]
    BY <1>11 DEF AnswerStopped, Rest
  <2>2. QED
    BY <1>11, <2>1, NoneIsNothing DEF AnswerStopped, Route, Rest
<1>12. ASSUME NEW s \in Stop, TimeOut(s) PROVE Route'
    BY <1>12, NoneIsNothing DEF TimeOut, BeginStart, Route
<1>13. CASE Release
    BY <1>13 DEF Release, BeginStart, Route
<1>14. CASE UNCHANGED vars
    BY <1>3, <1>14 DEF vars
<1>15. QED
    BY <1>4, <1>5, <1>6, <1>7, <1>8, <1>9, <1>10, <1>11, <1>12, <1>13, <1>14 DEF Next, Turn

\* A loop of a start() that was overtaken is one until it has ended, and a loop that is to
\* end does not begin again.
StayOvertaken == \A l \in overtaken : l \in overtaken' \/ ~Alive(l)'
NoneBegins(ls) == \A l \in ls : Alive(l)' => Alive(l)

\* An entry of the map that is kept is overtaken still if it was.
LEMMA StaysMapped ==
    ASSUME StayOvertaken, MapIsTheLoops'
    PROVE  \A a \in Account :
             syncs'[a] = syncs[a] /\ syncs[a] \in overtaken =>
                syncs'[a] = None \/ syncs'[a] \in overtaken'
<1>1. \A a \in Account : syncs'[a] # None => state'[syncs'[a]] # "gone"
    BY DEF MapIsTheLoops, Alive
<1>2. QED
    BY <1>1 DEF StayOvertaken, Alive

\* The books stay right while the map and the loops that are to end only shrink.
LEMMA KeepsBooks ==
    ASSUME Books, \A l \in Ending : l[1] \in Account,
           MapIsTheLoops', StayOvertaken, NoneBegins(Ending),
           \A a \in Account : syncs'[a] \in {None, syncs[a]},
           abandoned' \subseteq Ending', Ending' \subseteq Ending,
           call' # None => call # None /\ (stop'[call'].step = "loops" => stop[call].step = "loops"),
           route' = "applying" => route = "applying"
    PROVE  Books'
<1>1. ASSUME NEW l \in Ending', NEW m \in Ending', l[1] = m[1], Alive(l)', Alive(m)'
      PROVE  l = m \/ l \in overtaken' \/ m \in overtaken'
  <2>1. Alive(l) /\ Alive(m) /\ l \in Ending /\ m \in Ending
    BY <1>1 DEF NoneBegins
  <2>2. l = m \/ l \in overtaken \/ m \in overtaken
    BY <1>1, <2>1 DEF Books
  <2>3. QED
    BY <1>1, <2>2 DEF StayOvertaken
<1>2. ASSUME NEW l \in Ending', Alive(l)' PROVE syncs'[l[1]] \in {None, l} \cup overtaken'
  <2>1. l[1] \in Account /\ syncs[l[1]] \in {None, l} \cup overtaken
    BY <1>2 DEF Books, NoneBegins
  <2>2. QED
    BY <2>1, StaysMapped
<1>3. OnlyOvertakenMapped => OnlyOvertakenMapped'
    BY StaysMapped DEF OnlyOvertakenMapped
<1>4. QED
    BY <1>1, <1>2, <1>3 DEF Books

\* And when a manager that is started makes loops, as none has one to end.
LEMMA MakesBooks ==
    ASSUME Books, Route, started, \A l \in abandoned : l[1] \in Account,
           MapIsTheLoops', StayOvertaken, NoneBegins(abandoned),
           call' = call, route' \in {route, "open"}, abandoned' \subseteq abandoned,
           NEW as, NEW syncs1, \A a \in Account : syncs1[a] \in {None, syncs[a]},
           \A a \in Account : Entry(a, as, syncs1, abandoned')
    PROVE  Books'
<1>1. call = None /\ call' = None /\ route' # "applying" /\ Ending' = abandoned' /\ Ending = abandoned
    BY DEF Route, Ending
<1>2. ASSUME NEW l \in abandoned', NEW m \in abandoned', l[1] = m[1], Alive(l)', Alive(m)'
      PROVE  l = m \/ l \in overtaken' \/ m \in overtaken'
  <2>1. Alive(l) /\ Alive(m) /\ l \in Ending /\ m \in Ending
    BY <1>1, <1>2 DEF NoneBegins
  <2>2. l = m \/ l \in overtaken \/ m \in overtaken
    BY <1>2, <2>1 DEF Books
  <2>3. QED
    BY <1>2, <2>2 DEF StayOvertaken
<1>3. ASSUME NEW l \in abandoned', Alive(l)' PROVE syncs'[l[1]] \in {None, l} \cup overtaken'
  <2>1. l[1] \in Account /\ syncs[l[1]] \in {None, l} \cup overtaken
    BY <1>1, <1>3 DEF Books, NoneBegins
  <2>2. syncs'[l[1]] = syncs1[l[1]]
    BY <2>1 DEF Entry
  <2>3. syncs'[l[1]] \in {None, syncs[l[1]]}
    BY <2>1, <2>2
  <2>4. QED
    BY <2>1, <2>3, StaysMapped
<1>4. QED
    BY <1>1, <1>2, <1>3 DEF Books

\* Every step but that of a start() which makes loops keeps the loops that are overtaken.
LEMMA StepOvertaken == Loops /\ [Next]_vars => StayOvertaken
<1> SUFFICES ASSUME Loops, [Next]_vars, NEW k \in overtaken PROVE k \in overtaken' \/ ~Alive(k)'
    BY DEF StayOvertaken
<1>1. ASSUME NEW l \in Loop, EndLoop(l) PROVE k \in overtaken' \/ ~Alive(k)'
  <2> DEFINE syncs1 == IF syncs[l[1]] = l THEN [syncs EXCEPT ![l[1]] = None] ELSE syncs
             state1 == [state EXCEPT ![l] = "gone"]
  <2>1. /\ l[1] \in Account /\ {l[1]} \in SUBSET Account
        /\ syncs1 \in [Account -> Loop \cup {None}]
        /\ \A a \in Account : syncs1[a] \in ({a} \X Slot) \cup {None}
        /\ state1 \in [Loop -> LoopStates] /\ state1[l] = "gone"
    BY DEF Loop, Loops, LoopStates
  <2>2. /\ \E as \in SUBSET Account : EnsureSync(as, syncs1, abandoned', state1)
        /\ state[l] = "told" /\ overtaken' = overtaken \ {l}
    BY <1>1, <2>1 DEF EndLoop
  <2> HIDE DEF syncs1, state1
  <2>3. Object(l, syncs1, state1)
    BY <2>1, <2>2, Ensured
  <2>4. state'[l] = "gone"
    BY <2>1, <2>2, <2>3, SpareIs DEF Object
  <2>5. QED
    BY <2>2, <2>4 DEF Alive
<1>2. QED
    BY <1>1 DEF Next, Turn, vars, mailVars, history, routeVars, ChangeAccount, SyncNow, BeginChange,
          ReconcileAccount, ReconcileFails, StopItself, Start, StartFails, CallStop,
          TellLoops, AnswerStopped, TimeOut, Release

\* No account gets a loop while another is to end, but by a start() that was overtaken.
LEMMA StepBooks ==
    Calls /\ Loops /\ Rest /\ Route /\ MapIsTheLoops /\ Books /\ [Next]_vars => Books'
<1> SUFFICES ASSUME Calls, Loops, Rest, Route, MapIsTheLoops, Books, [Next]_vars PROVE Books'
    OBVIOUS
<1> USE DEF mailVars, history, routeVars
<1> DEFINE Waiting(cs) == [s \in Stop |-> [stop[s] EXCEPT !.chains = @ \ cs]]
<1>0. /\ \A l \in Loop : l[1] \in Account /\ l # None
      /\ \A s \in Stop : stop[s].outstanding \subseteq Loop
      /\ abandoned \subseteq Loop /\ Ending \subseteq Loop
      /\ \A l \in Ending : l[1] \in Account
      /\ \A l \in abandoned : l[1] \in Account
    BY NoneIsNothing DEF Loop, Rest, StopCall, Ending
<1>m. MapIsTheLoops' /\ StayOvertaken
    BY StepExact, StepOvertaken
<1>n. ASSUME NEW syncs1, NEW state1, \A l \in Loop : Object(l, syncs1, state1),
             \A l \in Loop : state[l] = "gone" => state1[l] = "gone"
      PROVE  NoneBegins(Ending) /\ NoneBegins(abandoned)
  <2>1. ASSUME NEW l \in Ending \cup abandoned, state[l] = "gone" PROVE state'[l] = "gone"
    <3>1. l \in Loop /\ l \notin Spare(l[1])
      BY <1>0, SpareIs DEF Ending, Rest
    <3>2. QED
      BY <1>n, <2>1, <3>1 DEF Object
  <2>2. QED
    BY <2>1 DEF NoneBegins, Alive
<1>a. ASSUME UNCHANGED <<syncs, abandoned, stop, call>>, route' \in {route, "open"},
             NoneBegins(Ending)
      PROVE  Books'
  <2>1. Ending' = Ending
    BY <1>a DEF Ending
  <2>2. QED
    BY <1>0, <1>a, <1>m, <2>1, KeepsBooks DEF Books
<1>b. ASSUME NEW cs, stop' = Waiting(cs) \/ stop' = stop,
             \A a \in Account : syncs'[a] \in {None, syncs[a]},
             UNCHANGED <<abandoned, call, route>>, NoneBegins(Ending)
      PROVE  Books'
  <2>1. call # None => stop'[call].step = stop[call].step
                       /\ stop'[call].outstanding = stop[call].outstanding
    BY <1>b DEF Rest, StopCall
  <2>2. Ending' = Ending
    BY <1>b, <2>1 DEF Ending
  <2>3. QED
    BY <1>0, <1>b, <1>m, <2>1, <2>2, KeepsBooks DEF Books
<1>c. ASSUME state' = state PROVE NoneBegins(Ending)
    BY <1>c DEF NoneBegins, Alive
<1>1. ASSUME NEW a \in Account,
             \/ \E wanted, connection \in BOOLEAN : ChangeAccount(a, wanted, connection)
             \/ SyncNow(a)
      PROVE  Books'
    BY <1>1, <1>a, <1>c DEF ChangeAccount, SyncNow
<1>2. ASSUME NEW c \in Change, BeginChange(c) \/ ReconcileFails(c) PROVE Books'
    BY <1>2, <1>b, <1>c DEF BeginChange, ReconcileFails
<1>3. ASSUME NEW c \in Change, ReconcileAccount(c) PROVE Books'
  <2> DEFINE a == change[c].acct
             replace == syncs[a] # None /\ (a \notin live \/ change[c].connection)
             as == IF a \in live /\ started THEN {a} ELSE {}
  <2>1. a \in Account
    BY <1>3 DEF ReconcileAccount, Calls, Changes
  <2>2. CASE replace
    <3>1. syncs' = [syncs EXCEPT ![a] = None]
      BY <1>3, <2>2 DEF ReconcileAccount
    <3>2. \A b \in Account : syncs'[b] \in {None, syncs[b]}
      BY <3>1 DEF Loops
    <3>3. UNCHANGED <<stop, abandoned, call, route>>
      BY <1>3, <2>2 DEF ReconcileAccount
    <3>4. NoneBegins(Ending)
      <4>1. state' = TellToStop({syncs[a]}) /\ syncs[a] \in Loop
        BY <1>3, <2>1, <2>2 DEF ReconcileAccount, Loops
      <4>2. QED
        BY <1>0, <4>1, Told DEF NoneBegins, Alive
    <3>5. QED
      BY <1>b, <3>2, <3>3, <3>4
  <2>3. CASE ~replace
    <3>1. /\ EnsureSync(as, syncs, abandoned, state) /\ stop' = Waiting({c})
          /\ UNCHANGED <<abandoned, call, route>>
      BY <1>3, <2>3 DEF ReconcileAccount
    <3>2. as \in SUBSET Account
      BY <2>1
    <3>3. /\ \A b \in Account : Entry(b, as, syncs, abandoned)
          /\ \A l \in Loop : Object(l, syncs, state)
      BY <3>1, <3>2, Ensured DEF Loops
    <3>n. NoneBegins(Ending) /\ NoneBegins(abandoned)
      BY <1>n, <3>3
    <3>4. CASE started
      <4>1. \A b \in Account : Entry(b, as, syncs, abandoned')
        BY <3>1, <3>3
      <4>2. \A b \in Account : syncs[b] \in {None, syncs[b]}
        OBVIOUS
      <4> HIDE DEF as
      <4>3. QED
        BY <1>0, <1>m, <3>1, <3>n, <3>4, <4>1, <4>2, MakesBooks
    <3>5. CASE ~started
      <4>1. \A b \in Account : syncs'[b] = syncs[b]
        BY <3>3, <3>5 DEF Entry
      <4>2. QED
        BY <1>b, <3>1, <3>n, <4>1
    <3>6. QED
      BY <3>4, <3>5
  <2>4. QED
    BY <2>2, <2>3
<1>4. ASSUME NEW l \in Loop, StopItself(l) PROVE Books'
  <2>1. NoneBegins(Ending)
    BY <1>0, <1>4 DEF StopItself, NoneBegins, Alive, Loops
  <2>2. QED
    BY <1>4, <1>a, <2>1 DEF StopItself
<1>5. ASSUME NEW l \in Loop, EndLoop(l) PROVE Books'
  <2> DEFINE syncs1 == IF syncs[l[1]] = l THEN [syncs EXCEPT ![l[1]] = None] ELSE syncs
             state1 == [state EXCEPT ![l] = "gone"]
             asked == {s \in Stop : stop[s].step = "loops" /\ l \in stop[s].outstanding}
             waiters == {c \in Change : change[c].step = "stopping" /\ change[c].old = l}
  <2>1. {l[1]} \in SUBSET Account
    BY <1>0
  <2>2. /\ \E as \in SUBSET Account :
              EnsureSync(as, syncs1, abandoned', state1) /\ (~started => as = {})
        /\ stop' = [s \in Stop |-> [stop[s] EXCEPT !.chains = @ \ waiters,
                                      !.outstanding = IF s \in asked THEN @ \ {l} ELSE @]]
        /\ abandoned' = IF asked # {} THEN abandoned \ {l} ELSE abandoned
        /\ UNCHANGED <<call, route>>
    BY <1>5, <2>1 DEF EndLoop
  <2>3. /\ syncs1 \in [Account -> Loop \cup {None}]
        /\ \A a \in Account : syncs1[a] \in ({a} \X Slot) \cup {None}
        /\ state1 \in [Loop -> LoopStates]
        /\ \A a \in Account : syncs1[a] \in {None, syncs[a]}
        /\ \A m \in Loop : state[m] = "gone" => state1[m] = "gone"
    BY <1>0 DEF Loops, LoopStates
  <2>4. \A s \in Stop : /\ stop'[s].step = stop[s].step
                        /\ stop'[s].outstanding = IF s \in asked THEN stop[s].outstanding \ {l}
                                                  ELSE stop[s].outstanding
    BY <2>2 DEF Rest, StopCall
  <2> HIDE DEF syncs1, state1, asked, waiters
  <2>5. PICK as : /\ \A a \in Account : Entry(a, as, syncs1, abandoned')
                  /\ \A m \in Loop : Object(m, syncs1, state1)
                  /\ ~started => as = {}
    BY <2>2, <2>3, Ensured
  <2>n. NoneBegins(Ending) /\ NoneBegins(abandoned)
    BY <1>n, <2>3, <2>5
  <2>6. abandoned' \subseteq abandoned
    BY <2>2
  <2>7. CASE started
    BY <1>0, <1>m, <2>2, <2>3, <2>n, <2>5, <2>6, <2>7, MakesBooks
  <2>8. CASE ~started
    <3>1. \A a \in Account : syncs'[a] \in {None, syncs[a]}
      BY <2>3, <2>5, <2>8 DEF Entry
    <3>2. abandoned' \subseteq Ending' /\ Ending' \subseteq Ending
      <4>1. CASE call = None
        BY <2>2, <2>6, <4>1 DEF Ending
      <4>2. CASE call # None
        <5>1. call \in Stop /\ Ending = stop[call].outstanding /\ Ending' = stop'[call].outstanding
              /\ abandoned \subseteq Ending
          BY <2>2, <4>2 DEF Ending, Rest, Books
        <5>2. CASE call \in asked
          <6>1. abandoned' = abandoned \ {l} /\ Ending' = Ending \ {l}
            BY <2>2, <2>4, <5>1, <5>2
          <6>2. QED
            BY <5>1, <6>1
        <5>3. CASE call \notin asked
          <6>1. Ending' = Ending
            BY <2>4, <5>1, <5>3
          <6>2. QED
            BY <2>6, <5>1, <6>1
        <5>4. QED
          BY <5>2, <5>3
      <4>3. QED
        BY <4>1, <4>2
    <3>3. call' # None => call # None /\ (stop'[call'].step = "loops" => stop[call].step = "loops")
      BY <2>2, <2>4 DEF Rest
    <3>4. QED
      BY <1>0, <1>m, <2>2, <2>n, <3>1, <3>2, <3>3, KeepsBooks
  <2>9. QED
    BY <2>7, <2>8
<1>6. ASSUME NEW k \in {"refusal", "release"}, Start(k) PROVE Books'
  <2>1. live \in SUBSET Account /\ EnsureSync(live, syncs, abandoned, state)
        /\ UNCHANGED <<abandoned, stop, call>> /\ route' \in {route, "open"}
    BY <1>6 DEF Start, Rest
  <2>2. /\ \A a \in Account : Entry(a, live, syncs, abandoned)
        /\ \A l \in Loop : Object(l, syncs, state)
    BY <2>1, Ensured DEF Loops
  <2>3. \A a \in Account : Entry(a, live, syncs, abandoned') /\ syncs[a] \in {None, syncs[a]}
    BY <2>1, <2>2
  <2>4. NoneBegins(Ending) /\ NoneBegins(abandoned)
    BY <1>n, <2>2
  <2>5. CASE started
    BY <1>0, <1>m, <2>1, <2>3, <2>4, <2>5, MakesBooks
  <2>6. CASE ~started
    <3>1. overtaken' = overtaken \cup Made /\ Ending' = Ending
      BY <1>6, <2>1, <2>6 DEF Start, Ending
    <3>2. ASSUME NEW a \in Account PROVE syncs'[a] = syncs[a] \/ syncs'[a] \in overtaken'
      BY <2>2, <3>1, SpareIs DEF Entry, Made
    <3>3. \A l \in Ending : Alive(l)' => syncs'[l[1]] \in {None, l} \cup overtaken'
      BY <1>0, <2>4, <3>1, <3>2 DEF Books, NoneBegins
    <3>4. \A l, m \in Ending : l[1] = m[1] /\ Alive(l)' /\ Alive(m)' =>
             l = m \/ l \in overtaken' \/ m \in overtaken'
      BY <2>4, <3>1 DEF Books, NoneBegins
    <3>5. OnlyOvertakenMapped => OnlyOvertakenMapped'
      BY <3>1, <3>2 DEF OnlyOvertakenMapped
    <3>6. QED
      BY <2>1, <3>1, <3>3, <3>4, <3>5 DEF Books
  <2>7. QED
    BY <2>5, <2>6
<1>7. ASSUME NEW k \in {"refusal", "release"}, StartFails(k) PROVE Books'
    BY <1>7, <1>a, <1>c DEF StartFails
<1>8. ASSUME NEW s \in Stop, CallStop(s) PROVE Books'
  <2>1. call = None /\ Ending = abandoned
    BY <1>8 DEF CallStop, Route, Ending
  <2>2. call' = s /\ s # None /\ stop'[s].step = "chains"
        /\ stop'[s].outstanding = abandoned \cup Values(syncs)
    BY <1>8, NoneIsNothing DEF CallStop, Rest
  <2>3. Ending' = abandoned \cup Values(syncs)
    BY <2>2 DEF Ending
  <2>4. \A l \in Values(syncs) : l[1] \in Account /\ syncs[l[1]] = l /\ l # None
    BY DEF Values, Loops
  <2>5. UNCHANGED <<syncs, state, abandoned, overtaken>> /\ route' = "stopping"
    BY <1>8 DEF CallStop
  <2>6. \A l \in Ending' : Alive(l) => syncs[l[1]] \in {None, l} \cup overtaken
    BY <2>1, <2>3, <2>4 DEF Books
  <2>7. \A l, m \in Ending' : l[1] = m[1] /\ Alive(l) /\ Alive(m) =>
           l = m \/ l \in overtaken \/ m \in overtaken
    <3>1. \A l \in abandoned, m \in Values(syncs) : l[1] = m[1] /\ Alive(l) =>
             l = m \/ m \in overtaken
      BY <2>1, <2>4 DEF Books
    <3>2. QED
      BY <2>1, <2>3, <2>4, <3>1 DEF Books
  <2>8. QED
    BY <2>2, <2>3, <2>5, <2>6, <2>7 DEF Books, Alive
<1>9. ASSUME NEW s \in Stop, TellLoops(s) PROVE Books'
  <2> DEFINE told == stop[s].outstanding \cup Values(syncs)
             gone == {l \in told : state[l] = "gone"}
             none == [a \in Account |-> None]
  <2>1. told \in SUBSET Loop
    BY DEF Values, Loops, Rest, StopCall
  <2>2. {l[1] : l \in abandoned \cap gone} \in SUBSET Account
    BY <1>0
  <2>3. /\ \E as \in SUBSET Account :
              EnsureSync(as, none, abandoned', TellToStop(told)) /\ (~started => as = {})
        /\ stop' = [stop EXCEPT ![s].step = "loops", ![s].outstanding = told \ gone]
        /\ abandoned' = abandoned \ gone
        /\ stop[s].step = "chains"
        /\ UNCHANGED <<call, route>>
    BY <1>9, <2>2 DEF TellLoops
  <2>4. TellToStop(told) \in [Loop -> LoopStates]
    BY <2>1, Told
  <2>5. /\ stop'[s].step = "loops" /\ stop'[s].outstanding = told \ gone
        /\ \A t \in Stop : t # s => stop'[t] = stop[t]
    BY <2>3 DEF Rest, StopCall
  <2>6. none \in [Account -> Loop \cup {None}] /\ \A a \in Account : none[a] = None
    OBVIOUS
  <2>7. told = stop[s].outstanding \cup Values(syncs)
        /\ \A l \in Values(syncs) : l[1] \in Account /\ syncs[l[1]] = l /\ l # None
    BY DEF Values, Loops
  <2> HIDE DEF none, told, gone
  <2>8. PICK as : /\ \A a \in Account : Entry(a, as, none, abandoned')
                  /\ \A l \in Loop : Object(l, none, TellToStop(told))
                  /\ ~started => as = {}
    BY <2>3, <2>4, <2>6, Ensured
  <2>n. NoneBegins(Ending) /\ NoneBegins(abandoned)
    BY <1>n, <2>1, <2>8, Told
  <2>o. overtaken' = overtaken
    BY <1>9 DEF TellLoops
  <2>9. abandoned' \subseteq abandoned
    BY <2>3
  <2>10. CASE started
    <3>1. \A a \in Account : none[a] \in {None, syncs[a]}
      BY <2>6
    <3>2. QED
      BY <1>0, <1>m, <2>3, <2>n, <2>8, <2>9, <2>10, <3>1, MakesBooks
  <2>11. CASE ~started
    <3>1. \A a \in Account : syncs'[a] = None
      BY <2>6, <2>8, <2>11 DEF Entry
    <3>2. CASE call = s
      <4>1. s # None /\ Ending = stop[s].outstanding /\ Ending' = told \ gone
        BY <2>3, <2>5, <3>2, NoneIsNothing DEF Ending
      <4>2. abandoned' \subseteq Ending'
        BY <2>3, <2>7, <4>1 DEF Books
      <4>3. \A l, m \in told : l[1] = m[1] /\ Alive(l) /\ Alive(m) =>
               l = m \/ l \in overtaken \/ m \in overtaken
        <5>1. \A l \in Ending, m \in Values(syncs) : l[1] = m[1] /\ Alive(l) =>
                 l = m \/ m \in overtaken
          BY <2>7 DEF Books
        <5>2. QED
          BY <2>7, <4>1, <5>1 DEF Books
      <4>4. \A l \in told : Alive(l)' => Alive(l)
        <5>1. \A l \in told : state'[l] = TellToStop(told)[l] \/ syncs'[l[1]] = l
          BY <2>1, <2>8 DEF Object
        <5>2. \A l \in told : l[1] \in Account /\ l # None
          BY <1>0, <2>1
        <5>3. QED
          BY <2>1, <2>4, <3>1, <5>1, <5>2, Told DEF Alive
      <4>5. \A l \in Ending' : l[1] \in Account
        BY <1>0, <2>1, <4>1
      <4>6. route' # "applying"
        BY <2>3, <3>2, <4>1 DEF Route
      <4>7. /\ \A l, m \in Ending' : l[1] = m[1] /\ Alive(l)' /\ Alive(m)' =>
                   l = m \/ l \in overtaken' \/ m \in overtaken'
            /\ \A l \in Ending' : syncs'[l[1]] = None
        BY <2>o, <3>1, <4>1, <4>3, <4>4, <4>5
      <4>8. QED
        BY <3>1, <4>2, <4>6, <4>7 DEF Books, OnlyOvertakenMapped
    <3>3. CASE call # s
      <4>1. Ending' \subseteq Ending /\ abandoned' \subseteq Ending'
        BY <2>3, <2>5, <2>9, <3>3 DEF Ending, Rest, Books
      <4>2. call' # None => call # None /\ (stop'[call'].step = "loops" => stop[call].step = "loops")
        BY <2>3, <2>5, <3>3 DEF Rest
      <4>3. QED
        BY <1>0, <1>m, <2>3, <2>n, <3>1, <4>1, <4>2, KeepsBooks
    <3>4. QED
      BY <3>2, <3>3
  <2>12. QED
    BY <2>10, <2>11
<1>10. ASSUME NEW s \in Stop, AnswerStopped(s) PROVE Books'
  <2>1. \A t \in Stop : t # s => stop'[t] = stop[t]
    BY <1>10 DEF AnswerStopped, Rest
  <2>2. UNCHANGED <<syncs, state, abandoned, overtaken>>
    BY <1>10 DEF AnswerStopped
  <2>3. CASE call = s
    <3>1. Ending = {} /\ abandoned = {} /\ OnlyOvertakenMapped
      BY <1>10, <2>3, NoneIsNothing DEF AnswerStopped, Ending, Books
    <3>2. call' = None /\ Ending' = {} /\ OnlyOvertakenMapped'
      BY <1>10, <2>2, <2>3, <3>1 DEF AnswerStopped, Ending, OnlyOvertakenMapped
    <3>3. QED
      BY <2>2, <3>1, <3>2 DEF Books
  <2>4. CASE call # s
    <3>1. call' = call /\ route' = route
      BY <1>10, <2>4 DEF AnswerStopped
    <3>2. Ending' = Ending /\ (call # None => stop'[call] = stop[call])
      BY <2>1, <2>2, <2>4, <3>1 DEF Ending, Rest
    <3>3. QED
      BY <2>2, <3>1, <3>2 DEF Books, OnlyOvertakenMapped, Alive
  <2>5. QED
    BY <2>3, <2>4
<1>11. ASSUME NEW s \in Stop, TimeOut(s) PROVE Books'
  <2>1. Ending = stop[s].outstanding /\ call' = None /\ abandoned' = Ending
    BY <1>11, NoneIsNothing DEF TimeOut, Ending, Books
  <2>2. Ending' = Ending
    BY <2>1 DEF Ending
  <2>3. UNCHANGED <<syncs, state, overtaken>> /\ route' = "refusing"
    BY <1>11 DEF TimeOut
  <2>4. QED
    BY <2>1, <2>2, <2>3 DEF Books, Alive
<1>12. CASE Release
    BY <1>12, <1>a, <1>c DEF Release
<1>13. CASE UNCHANGED vars
    BY <1>13, <1>a, <1>c DEF vars
<1>14. QED
    BY <1>1, <1>2, <1>3, <1>4, <1>5, <1>6, <1>7, <1>8, <1>9, <1>10, <1>11, <1>12, <1>13
       DEF Next, Turn
-----------------------------------------------------------------------------
\* The invariant holds of a manager that has booted, and every step keeps it.
LEMMA InitIInv == Init => IInv
<1> SUFFICES ASSUME Init PROVE IInv
    OBVIOUS
<1>1. Calls /\ Loops /\ Rest
    BY InitTypes
<1> DEFINE first == CHOOSE s \in Slot : TRUE
<1>2. first \in Slot
    BY SyncAssumption
<1> HIDE DEF first
<1>3. /\ syncs = [a \in Account |-> IF a \in live THEN <<a, first>> ELSE None]
      /\ state = [l \in Loop |-> IF l[1] \in live /\ l[2] = first THEN "running" ELSE "gone"]
    BY DEF Init, first
<1>4. MapIsTheLoops
    BY <1>2, <1>3, NoneIsNothing DEF MapIsTheLoops, Alive, Loop
<1>5. AllKnown
    BY <1>2, <1>3 DEF AllKnown, Known, Alive, Loop
<1>6. Route
    BY DEF Init, Route
<1>7. Books
    BY DEF Init, Books, Ending
<1>8. QED
    BY <1>1, <1>4, <1>5, <1>6, <1>7 DEF IInv

\* Every step keeps the inductive invariant.
LEMMA StepIInv == IInv /\ [Next]_vars => IInv'
    BY StepTypes, StepExact, StepKnown, StepRoute, StepBooks DEF IInv

\* The inductive invariant of the manager.
LEMMA Invariant == Spec => []IInv
    BY InitIInv, StepIInv, PTL DEF Spec

\* Every reachable state has the types of SyncManager.
THEOREM Types == Spec => []TypeOK
<1>1. IInv => TypeOK
    BY DEF IInv, TypeOK, Calls, Loops, Rest, Links, ChangeCall, StopCall, LoopStates
<1>2. QED
    BY <1>1, Invariant, PTL

\* The map of the manager holds the loops that were not told to stop, and no loop
\* that has ended: no account ever has two that go on.
THEOREM OneLoop == Spec => []MapIsTheLoops
    BY Invariant, PTL DEF IInv

\* A mailbox has a second loop only while one of the two is an orphan of a stop(), or was
\* made by a start() that a stop() overtook.
THEOREM Orphaned == Spec => []SecondLoopIsOrphan
<1>1. ASSUME IInv PROVE SecondLoopIsOrphan
  <2> SUFFICES ASSUME NEW l \in Loop, NEW m \in Loop, l # m, l[1] = m[1], Alive(l), Alive(m),
                      {l, m} \cap (Orphans \cup overtaken) = {}
               PROVE  FALSE
    BY DEF SecondLoopIsOrphan
  <2>1. Books /\ AllKnown /\ call \in Stop \cup {None}
    BY <1>1 DEF IInv, Rest
  <2>2. ASSUME NEW k \in Loop, Alive(k), k \notin Orphans PROVE syncs[k[1]] = k \/ k \in Ending
    <3>1. Known(k)
      BY <2>1, <2>2 DEF AllKnown
    <3>2. k \notin Awaited /\ k \notin ToldTooLate
      BY <2>2 DEF Orphans
    <3>3. CASE k \in abandoned
      BY <2>1, <3>3 DEF Books
    <3>4. CASE k \notin abandoned /\ \E s \in Stop : stop[s].step = "loops" /\ k \in stop[s].outstanding
      <4>1. PICK s \in Stop : stop[s].step = "loops" /\ k \in stop[s].outstanding
        BY <3>4
      <4>2. s = call
        BY <3>2, <3>4, <4>1 DEF ToldTooLate
      <4>3. QED
        BY <4>1, <4>2, NoneIsNothing DEF Ending
    <3>5. QED
      BY <3>1, <3>2, <3>3, <3>4 DEF Known
  <2>3. (syncs[l[1]] = l \/ l \in Ending) /\ (syncs[m[1]] = m \/ m \in Ending)
        /\ l \notin overtaken /\ m \notin overtaken
    BY <2>2
  <2>4. l # None /\ m # None
    BY NoneIsNothing
  <2>5. QED
    BY <2>1, <2>3, <2>4 DEF Books
<1>2. QED
    BY <1>1, Invariant, PTL

\* When stop() has answered "stopped" no loop is left but the orphans of an earlier one and
\* the loops, all of them in the map, of a start() which it overtook: none that a stop()
\* abandoned.
THEOREM Stopped == Spec => []StoppedButForOrphans
<1>1. ASSUME IInv PROVE StoppedButForOrphans
  <2> SUFFICES ASSUME route = "applying", NEW l \in Loop, Alive(l), l \notin Orphans
               PROVE  l \in overtaken /\ syncs[l[1]] = l
    BY DEF StoppedButForOrphans
  <2>1. Books /\ Known(l) /\ Route
    BY <1>1 DEF IInv, AllKnown
  <2>2. call = None /\ abandoned = {} /\ OnlyOvertakenMapped
    BY <2>1 DEF Route, Books, Ending
  <2>3. l[1] \in Account /\ l # None
    BY NoneIsNothing DEF Loop
  <2>4. l \notin Awaited /\ \A s \in Stop : ~(stop[s].step = "loops" /\ l \in stop[s].outstanding)
    BY <2>2, NoneIsNothing DEF Orphans, ToldTooLate
  <2>5. QED
    BY <2>1, <2>2, <2>3, <2>4 DEF Known, OnlyOvertakenMapped
<1>2. QED
    BY <1>1, Invariant, PTL
-----------------------------------------------------------------------------
(* Every live account has a loop, or something that will give it one. *)

\* The entry of an account is a loop that has not been told to stop.
Runs(a) == syncs[a] # None /\ state[syncs[a]] = "running"

\* A change is to come that will replace the loop of an account, and one that will look
\* whether it wants a loop, or has seen that it does.
Replaces(c, a) ==
    change[c].acct = a /\ change[c].connection /\ change[c].step \in {"queued", "select"}
Reconciles(c, a) ==
    /\ change[c].acct = a
    /\ \/ change[c].step \in {"queued", "select"}
       \/ change[c].step = "stopping" /\ change[c].wanted

Has(a) ==
    \/ Runs(a)
    \/ \E c \in Change : Reconciles(c, a)
    \/ \E l \in abandoned : l[1] = a

\* A change awaits a loop of its own account.
OldIsOwn ==
    \A c \in Change : change[c].step = "stopping" =>
        change[c].old \in Loop /\ change[c].old[1] = change[c].acct

\* While the manager is stopped for a restore, what is in the map is what stop() is about to
\* tell, or a running loop of a live account, which a start() has made that it overtook.
Paused ==
    ~started =>
        /\ route \in {"stopping", "applying"}
        /\ \A a \in Account : syncs[a] # None =>
              \/ call # None /\ stop[call].step = "chains" /\ syncs[a] \in stop[call].outstanding
              \/ Runs(a) /\ a \in live

\* A loop that has stopped itself, of an account that is live again, is going to be replaced.
Winding ==
    started /\ ~failed =>
        \A a \in live : syncs[a] # None /\ ~Runs(a) =>
            (\E c \in Change : Replaces(c, a)) \/ syncs[a] \in abandoned

Served == started /\ starting = {} /\ ~failed => \A a \in live \ cleared : Has(a)

LiveInv == OldIsOwn /\ Paused /\ Winding /\ Served

\* What ensureSync leaves of the entries it finds, and whom it serves.
LEMMA Serves ==
    ASSUME NEW as \in SUBSET Account,
           NEW syncs1 \in [Account -> Loop \cup {None}],
           \A a \in Account : syncs1[a] \in ({a} \X Slot) \cup {None},
           NEW abandoned1, NEW state1 \in [Loop -> LoopStates],
           EnsureSync(as, syncs1, abandoned1, state1)
    PROVE  \A a \in Account :
             /\ syncs1[a] # None =>
                   syncs'[a] = syncs1[a] /\ state'[syncs1[a]] = state1[syncs1[a]]
             /\ syncs1[a] = None => syncs'[a] = None \/ (Runs(a)' /\ a \in as)
             /\ a \in as => syncs'[a] # None \/ \E l \in abandoned1 : l[1] = a
<1> SUFFICES ASSUME NEW a \in Account
             PROVE  /\ syncs1[a] # None =>
                          syncs'[a] = syncs1[a] /\ state'[syncs1[a]] = state1[syncs1[a]]
                    /\ syncs1[a] = None => syncs'[a] = None \/ (Runs(a)' /\ a \in as)
                    /\ a \in as => syncs'[a] # None \/ \E l \in abandoned1 : l[1] = a
    OBVIOUS
<1>1. /\ \A b \in Account : Entry(b, as, syncs1, abandoned1)
      /\ \A l \in Loop : Object(l, syncs1, state1)
    BY Ensured
<1>2. syncs1[a] # None => syncs'[a] = syncs1[a] /\ state'[syncs1[a]] = state1[syncs1[a]]
  <2> SUFFICES ASSUME syncs1[a] # None
               PROVE  syncs'[a] = syncs1[a] /\ state'[syncs1[a]] = state1[syncs1[a]]
    OBVIOUS
  <2>1. syncs1[a] \in Loop /\ syncs1[a][1] = a
    OBVIOUS
  <2>2. QED
    BY <1>1, <2>1 DEF Entry, Object
<1>3. syncs1[a] = None => syncs'[a] = None \/ (Runs(a)' /\ a \in as)
    BY <1>1 DEF Entry, Runs
<1>4. ASSUME a \in as, \A l \in abandoned1 : l[1] # a, syncs1[a] = None PROVE syncs'[a] # None
  <2> DEFINE missing == {b \in as : syncs1[b] = None /\ \A l \in abandoned1 : l[1] # b}
             new == [b \in missing |-> CHOOSE l \in Spare(b) : TRUE]
  <2>1. a \in missing
    BY <1>4
  <2>2. Spare(a) # {} /\ syncs'[a] = new[a]
    BY <2>1 DEF EnsureSync
  <2>3. new[a] = CHOOSE l \in Spare(a) : TRUE
    BY <2>1
  <2>4. syncs'[a] \in Spare(a)
    BY <2>2, <2>3
  <2>5. QED
    BY <2>4, SpareIs, NoneIsNothing
<1>5. QED
    BY <1>2, <1>3, <1>4

\* A call that is enqueued is there, beside those that were.
LEMMA Arrives ==
    ASSUME Calls, NEW a \in Account, NEW connection \in BOOLEAN, Enqueue(a, connection)
    PROVE  /\ \A c \in Change : change[c].step # "free" => change'[c] = change[c]
           /\ \E c \in Change : Reconciles(c, a)' /\ (connection => Replaces(c, a)')
           /\ \A c \in Change : change'[c].step = "stopping" => change'[c] = change[c]
<1>1. PICK c \in Change :
        /\ change[c].step = "free"
        /\ change' = [change EXCEPT ![c] = [NoChange EXCEPT !.step = "queued", !.acct = a,
                                            !.connection = connection, !.after = chain[a]]]
    BY DEF Enqueue
<1>2. \A d \in Change : d # c => change'[d] = change[d]
    BY <1>1 DEF Calls
<1>3. change'[c].step = "queued" /\ change'[c].acct = a /\ change'[c].connection = connection
    BY <1>1 DEF Calls, NoChange
<1>4. QED
    BY <1>1, <1>2, <1>3 DEF Reconciles, Replaces

\* Calls that settle leave the others what they were.
LEMMA SettledKeeps ==
    ASSUME Calls, NEW cs \in SUBSET Change, Settle(cs)
    PROVE  /\ \A c \in cs : change'[c].step = "free"
           /\ \A c \in Change \ cs :
                 /\ change'[c].step = change[c].step /\ change'[c].old = change[c].old
                 /\ change'[c].acct = change[c].acct /\ change'[c].wanted = change[c].wanted
                 /\ change'[c].connection = change[c].connection
<1>1. \A c \in cs : change'[c].step = "free"
    BY DEF Settle, NoChange, Calls
<1>2. ASSUME NEW c \in Change \ cs
      PROVE  /\ change'[c].step = change[c].step /\ change'[c].old = change[c].old
             /\ change'[c].acct = change[c].acct /\ change'[c].wanted = change[c].wanted
             /\ change'[c].connection = change[c].connection
  <2>1. change'[c] \in {change[c], [change[c] EXCEPT !.after = None]}
    BY DEF Settle
  <2>2. change[c] \in ChangeCall
    BY DEF Calls
  <2>3. QED
    BY <2>1, <2>2 DEF ChangeCall
<1>3. QED
    BY <1>1, <1>2
-----------------------------------------------------------------------------
\* After the boot every live account's loop runs.
LEMMA InitLive == Init => LiveInv
<1> SUFFICES ASSUME Init PROVE LiveInv
    OBVIOUS
<1> DEFINE first == CHOOSE s \in Slot : TRUE
<1>1. first \in Slot
    BY SyncAssumption
<1>2. /\ started /\ change = [c \in Change |-> NoChange] /\ live \subseteq Account
      /\ syncs = [a \in Account |-> IF a \in live THEN <<a, first>> ELSE None]
      /\ state = [l \in Loop |-> IF l[1] \in live /\ l[2] = first THEN "running" ELSE "gone"]
    BY DEF Init
<1> HIDE DEF first
<1>3. ASSUME NEW a \in live PROVE Runs(a)
  <2>1. a \in Account /\ syncs[a] = <<a, first>> /\ <<a, first>> \in Loop
    BY <1>1, <1>2, <1>3 DEF Loop
  <2>2. state[<<a, first>>] = "running"
    BY <1>2, <2>1, <1>3
  <2>3. QED
    BY <2>1, <2>2, NoneIsNothing DEF Runs
<1>4. QED
    BY <1>2, <1>3 DEF LiveInv, OldIsOwn, Paused, Winding, Served, Has, NoChange

\* Whose loop a change awaits.
LEMMA StepOld == Calls /\ Loops /\ Rest /\ OldIsOwn /\ [Next]_vars => OldIsOwn'
<1> SUFFICES ASSUME Calls, Loops, Rest, OldIsOwn, [Next]_vars PROVE OldIsOwn'
    OBVIOUS
<1>a. ASSUME UNCHANGED change PROVE OldIsOwn'
    BY <1>a DEF OldIsOwn
<1>b. ASSUME NEW cs \in SUBSET Change, Settle(cs) PROVE OldIsOwn'
    BY <1>b, SettledKeeps DEF OldIsOwn
<1>c. ASSUME NEW a \in Account, NEW connection \in BOOLEAN, Enqueue(a, connection)
      PROVE  OldIsOwn'
    BY <1>c, Arrives DEF OldIsOwn
<1>1. ASSUME NEW a \in Account, NEW wanted \in BOOLEAN, NEW connection \in BOOLEAN,
             ChangeAccount(a, wanted, connection)
      PROVE  OldIsOwn'
    BY <1>1, <1>a, <1>c DEF ChangeAccount
<1>2. ASSUME NEW a \in Account, SyncNow(a) PROVE OldIsOwn'
    BY <1>2, <1>c DEF SyncNow
<1>3. ASSUME NEW c \in Change, BeginChange(c) PROVE OldIsOwn'
  <2>1. CASE change' = [change EXCEPT ![c].step = "select"]
    BY <2>1 DEF OldIsOwn, Calls, ChangeCall
  <2>2. CASE Settle({c})
    BY <2>2, <1>b
  <2>3. QED
    BY <1>3, <2>1, <2>2 DEF BeginChange
<1>4. ASSUME NEW c \in Change, ReconcileAccount(c) PROVE OldIsOwn'
  <2> DEFINE a == change[c].acct
  <2>1. CASE Settle({c})
    BY <2>1, <1>b
  <2>2. CASE ~Settle({c})
    <3>1. /\ change' = [change EXCEPT ![c].step = "stopping", ![c].old = syncs[a],
                                      ![c].wanted = a \in live]
          /\ syncs[a] # None /\ a \in Account
      BY <1>4, <2>2 DEF ReconcileAccount, Calls, Changes
    <3>2. syncs[a] \in Loop /\ syncs[a][1] = a
      BY <3>1 DEF Loops, Loop
    <3> HIDE DEF a
    <3>3. \A d \in Change : d # c => change'[d] = change[d]
      BY <3>1 DEF Calls
    <3>4. change'[c].old = syncs[a] /\ change'[c].acct = change[c].acct
      BY <3>1 DEF Calls, ChangeCall
    <3>5. QED
      BY <3>2, <3>3, <3>4 DEF OldIsOwn, a
  <2>3. QED
    BY <2>1, <2>2
<1>5. ASSUME NEW c \in Change, ReconcileFails(c) PROVE OldIsOwn'
    BY <1>5, <1>b DEF ReconcileFails
<1>6. ASSUME NEW l \in Loop, EndLoop(l) PROVE OldIsOwn'
    BY <1>6, <1>b DEF EndLoop
<1>7. QED
  <2>1. ASSUME \/ \E l \in Loop : StopItself(l)
               \/ \E k \in {"refusal", "release"} : Start(k) \/ StartFails(k)
               \/ \E s \in Stop : CallStop(s) \/ TellLoops(s) \/ AnswerStopped(s) \/ TimeOut(s)
               \/ Release \/ UNCHANGED vars
        PROVE  OldIsOwn'
    BY <1>a, <2>1 DEF StopItself, Start, StartFails, CallStop, TellLoops, AnswerStopped,
          TimeOut, Release, vars
  <2>2. QED
    BY <1>1, <1>2, <1>3, <1>4, <1>5, <1>6, <2>1 DEF Next, Turn

\* What an action leaves of the map while the manager is stopped.
LEMMA StepPaused == Calls /\ Loops /\ Rest /\ Route /\ Paused /\ [Next]_vars => Paused'
<1> SUFFICES ASSUME Calls, Loops, Rest, Route, Paused, [Next]_vars, ~started' PROVE Paused'
    BY DEF Paused
<1> USE DEF mailVars, history, routeVars
<1>0. /\ \A a \in Account : syncs[a] # None => syncs[a] \in Loop /\ syncs[a][1] = a
      /\ \A l \in Loop : l[1] \in Account
    BY DEF Loops, Loop
<1> DEFINE Calling(a) == call # None /\ stop[call].step = "chains"
                         /\ syncs[a] \in stop[call].outstanding
\* Every entry that is left is left as it was, and the stop() has not told any.
<1>a. ASSUME ~started, UNCHANGED <<call, route>>,
             \A a \in Account : syncs'[a] # None =>
                \/ syncs'[a] = syncs[a] /\ state'[syncs[a]] = state[syncs[a]]
                   /\ (a \in live => a \in live')
                \/ Runs(a)' /\ a \in live',
             call # None /\ stop[call].step = "chains" =>
                stop'[call].step = "chains" /\ stop'[call].outstanding = stop[call].outstanding
      PROVE  Paused'
    BY <1>a DEF Paused, Runs
<1>b. ASSUME ~started, UNCHANGED <<call, route, syncs, state>>, live \subseteq live',
             call # None /\ stop[call].step = "chains" =>
                stop'[call].step = "chains" /\ stop'[call].outstanding = stop[call].outstanding
      PROVE  Paused'
    BY <1>a, <1>b
<1>c. ASSUME NEW cs, stop' = [s \in Stop |-> [stop[s] EXCEPT !.chains = @ \ cs]]
      PROVE  call # None /\ stop[call].step = "chains" =>
                stop'[call].step = "chains" /\ stop'[call].outstanding = stop[call].outstanding
    BY <1>c DEF Rest, StopCall
<1>1. ASSUME NEW a \in Account, NEW wanted \in BOOLEAN, NEW connection \in BOOLEAN,
             ChangeAccount(a, wanted, connection)
      PROVE  Paused'
  <2>1. ~started /\ route # "open"
    BY <1>1 DEF ChangeAccount, Paused
  <2>2. QED
    BY <1>1, <1>b, <2>1 DEF ChangeAccount
<1>2. ASSUME NEW a \in Account, SyncNow(a) PROVE Paused'
    BY <1>2, <1>b DEF SyncNow
<1>3. ASSUME NEW c \in Change, BeginChange(c) \/ ReconcileFails(c) PROVE Paused'
  <2>1. ~started /\ UNCHANGED <<call, route, syncs, state, live>>
    BY <1>3 DEF BeginChange, ReconcileFails
  <2>2. stop' = [s \in Stop |-> [stop[s] EXCEPT !.chains = @ \ {c}]]
    BY <1>3, <2>1 DEF BeginChange, ReconcileFails
  <2>3. QED
    BY <1>b, <1>c, <2>1, <2>2
<1>4. ASSUME NEW c \in Change, ReconcileAccount(c) PROVE Paused'
  <2> DEFINE a == change[c].acct
  <2>0. ~started /\ a \in Account /\ UNCHANGED <<call, route, live>>
    BY <1>4 DEF ReconcileAccount, Calls, Changes
  <2>1. CASE syncs' = [syncs EXCEPT ![a] = None] /\ state' = TellToStop({syncs[a]}) /\ syncs[a] # None
             /\ UNCHANGED stop
    <3>1. \A b \in Account : b # a /\ syncs[b] # None => syncs[b] # syncs[a]
      BY <1>0, <2>0, <2>1
    <3>2. \A b \in Account : syncs'[b] # None =>
              syncs'[b] = syncs[b] /\ state'[syncs[b]] = state[syncs[b]]
      BY <1>0, <2>0, <2>1, <3>1 DEF Loops, TellToStop
    <3>3. QED
      BY <1>a, <2>0, <2>1, <3>2
  <2>2. CASE /\ EnsureSync({}, syncs, abandoned, state)
             /\ stop' = [s \in Stop |-> [stop[s] EXCEPT !.chains = @ \ {c}]]
    <3>1. \A b \in Account : syncs'[b] # None =>
              syncs'[b] = syncs[b] /\ state'[syncs[b]] = state[syncs[b]]
      <4>1. {} \in SUBSET Account
        OBVIOUS
      <4>2. QED
        BY <2>2, <4>1, Serves DEF Loops
    <3>2. QED
      BY <1>a, <1>c, <2>0, <2>2, <3>1
  <2>3. QED
    BY <1>4, <2>0, <2>1, <2>2 DEF ReconcileAccount
<1>5. ASSUME NEW l \in Loop, StopItself(l) PROVE Paused'
  <2>1. \A m \in Loop : state'[m] = IF m = l THEN "told" ELSE state[m]
    BY <1>5 DEF StopItself, Loops
  <2>2. QED
    BY <1>0, <1>5, <2>1 DEF StopItself, Paused, Runs
<1>6. ASSUME NEW l \in Loop, EndLoop(l) PROVE Paused'
  <2> DEFINE syncs1 == IF syncs[l[1]] = l THEN [syncs EXCEPT ![l[1]] = None] ELSE syncs
             state1 == [state EXCEPT ![l] = "gone"]
             waiters == {c \in Change : change[c].step = "stopping" /\ change[c].old = l}
             asked == {s \in Stop : stop[s].step = "loops" /\ l \in stop[s].outstanding}
  <2>1. /\ \A a \in Account : syncs1[a] = IF syncs[a] = l THEN None ELSE syncs[a]
        /\ \A m \in Loop : state1[m] = IF m = l THEN "gone" ELSE state[m]
        /\ syncs1 \in [Account -> Loop \cup {None}]
        /\ state1 \in [Loop -> LoopStates]
        /\ \A a \in Account : syncs1[a] \in ({a} \X Slot) \cup {None}
    BY <1>0, NoneIsNothing DEF Loops, LoopStates
  <2>2. ~started /\ EnsureSync({}, syncs1, abandoned', state1) /\ UNCHANGED <<call, route, live>>
    BY <1>6 DEF EndLoop
  <2>3. stop' = [s \in Stop |-> [stop[s] EXCEPT !.chains = @ \ waiters,
                                  !.outstanding = IF s \in asked THEN @ \ {l} ELSE @]]
    BY <1>6 DEF EndLoop
  <2> HIDE DEF syncs1, state1
  <2>4. \A b \in Account : syncs'[b] # None =>
            syncs'[b] = syncs[b] /\ state'[syncs[b]] = state[syncs[b]]
    <3>1. {} \in SUBSET Account
      OBVIOUS
    <3>2. \A b \in Account :
             /\ syncs1[b] # None =>
                   syncs'[b] = syncs1[b] /\ state'[syncs1[b]] = state1[syncs1[b]]
             /\ syncs1[b] = None => syncs'[b] = None
      BY <2>1, <2>2, <3>1, Serves
    <3>3. QED
      BY <1>0, <2>1, <3>2
  <2>5. call # None /\ stop[call].step = "chains" =>
            stop'[call].step = "chains" /\ stop'[call].outstanding = stop[call].outstanding
    BY <2>3 DEF Rest, StopCall
  <2>6. QED
    BY <1>a, <2>2, <2>4, <2>5
<1>7. ASSUME NEW k \in {"refusal", "release"}, Start(k) PROVE Paused'
  <2>1. live \in SUBSET Account
    BY DEF Rest
  <2>2. ~started /\ EnsureSync(live, syncs, abandoned, state) /\ UNCHANGED <<call, stop, live>>
        /\ k # "refusal"
    BY <1>7 DEF Start, Paused, Route
  <2>3. \A b \in Account : syncs'[b] # None =>
            \/ syncs'[b] = syncs[b] /\ state'[syncs[b]] = state[syncs[b]]
            \/ Runs(b)' /\ b \in live'
    BY <2>1, <2>2, Serves DEF Loops
  <2>4. QED
    BY <1>7, <1>a, <2>2, <2>3 DEF Start
<1>8. ASSUME NEW k \in {"refusal", "release"}, StartFails(k) PROVE Paused'
    BY <1>8, <1>b DEF StartFails, Paused, Route
<1>9. ASSUME NEW s \in Stop, CallStop(s) PROVE Paused'
  <2>1. /\ stop'[s].step = "chains" /\ stop'[s].outstanding = abandoned \cup Values(syncs)
        /\ call' = s /\ s # None /\ route' = "stopping" /\ syncs' = syncs
    BY <1>9, NoneIsNothing DEF CallStop, Rest
  <2>2. \A a \in Account : syncs[a] # None => syncs[a] \in Values(syncs)
    BY DEF Values, Loops
  <2>3. QED
    BY <2>1, <2>2 DEF Paused
<1>10. ASSUME NEW s \in Stop, TellLoops(s) PROVE Paused'
  <2> DEFINE told == stop[s].outstanding \cup Values(syncs)
             none == [a \in Account |-> None]
  <2>1. told \in SUBSET Loop
    BY DEF Values, Loops, Rest, StopCall
  <2>2. ~started /\ EnsureSync({}, none, abandoned', TellToStop(told)) /\ UNCHANGED route
    BY <1>10 DEF TellLoops
  <2>3. TellToStop(told) \in [Loop -> LoopStates]
    BY <2>1, Told
  <2>4. none \in [Account -> Loop \cup {None}] /\ \A a \in Account : none[a] = None
    BY <1>0
  <2> HIDE DEF none, told
  <2>5. \A a \in Account : syncs'[a] = None
    <3>1. {} \in SUBSET Account
      OBVIOUS
    <3>2. QED
      BY <2>2, <2>3, <2>4, <3>1, Serves
  <2>6. QED
    BY <2>2, <2>5 DEF Paused
<1>11. ASSUME NEW s \in Stop, AnswerStopped(s) PROVE Paused'
  <2>1. ~started /\ UNCHANGED <<syncs, state, live>>
    BY <1>11 DEF AnswerStopped
  <2>2. CASE s = call
    <3>1. stop[call].step = "loops" /\ route' = "applying"
      BY <1>11, <2>2 DEF AnswerStopped
    <3>2. QED
      BY <2>1, <3>1 DEF Paused, Runs
  <2>3. CASE s # call
    <3>1. UNCHANGED <<call, route>> /\ stop' = [stop EXCEPT ![s] = NoStop]
      BY <1>11, <2>3 DEF AnswerStopped
    <3>2. call # None => stop'[call] = stop[call]
      BY <2>3, <3>1 DEF Rest
    <3>3. QED
      BY <1>b, <2>1, <3>1, <3>2
  <2>4. QED
    BY <2>2, <2>3
<1>12. ASSUME Release \/ \E s \in Stop : TimeOut(s) PROVE Paused'
    BY <1>12 DEF Release, TimeOut, BeginStart
<1>13. CASE UNCHANGED vars
    BY <1>13, <1>b DEF vars
<1>14. QED
    BY <1>1, <1>2, <1>3, <1>4, <1>5, <1>6, <1>7, <1>8, <1>9, <1>10, <1>11, <1>12, <1>13
       DEF Next, Turn

\* What an end of a loop leaves of the map, the changes and the abandoned loops.
LEMMA EndLeaves ==
    ASSUME Calls, Loops, Rest, OldIsOwn, NEW l \in Loop, EndLoop(l), started
    PROVE  /\ \A a \in Account : syncs[a] # None /\ syncs[a] # l =>
                 syncs'[a] = syncs[a] /\ state'[syncs[a]] = state[syncs[a]]
           /\ \A a \in Account : syncs[a] \in {None, l} => syncs'[a] = None \/ Runs(a)'
           /\ \A c \in Change :
                 \/ change'[c].step = change[c].step /\ change'[c].acct = change[c].acct
                    /\ change'[c].wanted = change[c].wanted
                    /\ change'[c].connection = change[c].connection
                 \/ change[c].step = "stopping" /\ change[c].acct = l[1]
                    /\ (change[c].wanted =>
                          syncs'[l[1]] # None \/ \E m \in abandoned' : m[1] = l[1])
           /\ abandoned' = abandoned \/ (/\ abandoned' = abandoned \ {l}
                                         /\ syncs'[l[1]] # None \/ \E m \in abandoned' : m[1] = l[1])
<1> DEFINE waiters == {c \in Change : change[c].step = "stopping" /\ change[c].old = l}
           again == abandoned' # abandoned \/ \E c \in waiters : change[c].wanted
<1>1. /\ \A a \in Account : syncs[a] # None => syncs[a] \in Loop /\ syncs[a][1] = a
      /\ l[1] \in Account
    BY DEF Loops, Loop
<1>2. /\ EnsureSync(IF again THEN {l[1]} ELSE {},
                    IF syncs[l[1]] = l THEN [syncs EXCEPT ![l[1]] = None] ELSE syncs,
                    abandoned', [state EXCEPT ![l] = "gone"])
      /\ Settle(waiters)
      /\ abandoned' \in {abandoned, abandoned \ {l}}
    BY DEF EndLoop
<1>3. PICK served, syncs1, state1 :
         /\ served = IF again THEN {l[1]} ELSE {}
         /\ syncs1 = IF syncs[l[1]] = l THEN [syncs EXCEPT ![l[1]] = None] ELSE syncs
         /\ state1 = [state EXCEPT ![l] = "gone"]
         /\ EnsureSync(served, syncs1, abandoned', state1)
    BY <1>2
<1>4. /\ \A a \in Account : syncs1[a] = IF syncs[a] = l THEN None ELSE syncs[a]
      /\ \A m \in Loop : state1[m] = IF m = l THEN "gone" ELSE state[m]
      /\ syncs1 \in [Account -> Loop \cup {None}]
      /\ state1 \in [Loop -> LoopStates]
      /\ \A a \in Account : syncs1[a] \in ({a} \X Slot) \cup {None}
      /\ served \in SUBSET Account
    BY <1>1, <1>3, NoneIsNothing DEF Loops, LoopStates
<1>5. \A a \in Account :
         /\ syncs1[a] # None => syncs'[a] = syncs1[a] /\ state'[syncs1[a]] = state1[syncs1[a]]
         /\ syncs1[a] = None => syncs'[a] = None \/ (Runs(a)' /\ a \in served)
         /\ a \in served => syncs'[a] # None \/ \E m \in abandoned' : m[1] = a
  <2>1. PICK abandoned1 : abandoned1 = abandoned'
    OBVIOUS
  <2>2. EnsureSync(served, syncs1, abandoned1, state1)
    BY <1>3, <2>1
  <2>3. \A a \in Account :
           /\ syncs1[a] # None =>
                 syncs'[a] = syncs1[a] /\ state'[syncs1[a]] = state1[syncs1[a]]
           /\ syncs1[a] = None => syncs'[a] = None \/ (Runs(a)' /\ a \in served)
           /\ a \in served => syncs'[a] # None \/ \E m \in abandoned1 : m[1] = a
    BY <1>4, <2>2, Serves
  <2>4. QED
    BY <2>1, <2>3
<1>6. again => syncs'[l[1]] # None \/ \E m \in abandoned' : m[1] = l[1]
    BY <1>1, <1>3, <1>5
<1>7. /\ \A c \in Change \ waiters :
            /\ change'[c].step = change[c].step /\ change'[c].acct = change[c].acct
            /\ change'[c].wanted = change[c].wanted
            /\ change'[c].connection = change[c].connection
      /\ \A c \in waiters : change[c].acct = l[1]
    BY <1>2, SettledKeeps DEF OldIsOwn
<1>8. \A a \in Account : syncs[a] # None /\ syncs[a] # l =>
         syncs'[a] = syncs[a] /\ state'[syncs[a]] = state[syncs[a]]
  <2> SUFFICES ASSUME NEW a \in Account, syncs[a] # None, syncs[a] # l
               PROVE  syncs'[a] = syncs[a] /\ state'[syncs[a]] = state[syncs[a]]
    OBVIOUS
  <2>1. syncs1[a] = syncs[a] /\ state1[syncs[a]] = state[syncs[a]]
    BY <1>1, <1>4
  <2>2. QED
    BY <1>5, <2>1
<1>9. \A a \in Account : syncs[a] \in {None, l} => syncs'[a] = None \/ Runs(a)'
    BY <1>4, <1>5
<1>10. QED
    BY <1>2, <1>6, <1>7, <1>8, <1>9

\* A loop that has stopped itself, of a live account, is going to be replaced or is abandoned.
LEMMA StepWinding ==
    Calls /\ Loops /\ Rest /\ Route /\ OldIsOwn /\ Paused /\ Winding /\ [Next]_vars => Winding'
<1> SUFFICES ASSUME Calls, Loops, Rest, Route, OldIsOwn, Paused, Winding, [Next]_vars,
                    started', ~failed', NEW a \in live', syncs'[a] # None, ~Runs(a)'
             PROVE  (\E c \in Change : Replaces(c, a)') \/ syncs'[a] \in abandoned'
    BY DEF Winding
<1> USE DEF mailVars, history, routeVars
<1> DEFINE Goal == (\E c \in Change : Replaces(c, a)') \/ syncs'[a] \in abandoned'
<1>0. /\ a \in Account
      /\ \A b \in Account : syncs[b] # None => syncs[b] \in Loop /\ syncs[b][1] = b
      /\ \A l \in Loop : l[1] \in Account
  <2>1. Rest'
    BY StepTypes
  <2>2. QED
    BY <2>1 DEF Rest, Loops, Loop
<1>a. ASSUME started, ~failed, a \in live, syncs'[a] = syncs[a],
             state'[syncs[a]] = state[syncs[a]],
             \A c \in Change : Replaces(c, a) => Replaces(c, a)',
             syncs[a] \in abandoned => syncs[a] \in abandoned'
      PROVE  Goal
    BY <1>a DEF Winding, Runs
<1>1. ASSUME NEW b \in Account, NEW wanted \in BOOLEAN, NEW connection \in BOOLEAN,
             ChangeAccount(b, wanted, connection)
      PROVE  Goal
  <2>1. started /\ ~failed /\ Enqueue(b, connection) /\ UNCHANGED <<syncs, state, abandoned>>
    BY <1>1 DEF ChangeAccount
  <2>2. \A c \in Change : Replaces(c, a) => Replaces(c, a)'
    BY <2>1, Arrives DEF Replaces
  <2>3. CASE a \in live
    BY <1>a, <2>1, <2>2, <2>3
  <2>4. CASE a \notin live
    <3>1. a = b /\ connection
      BY <1>1, <2>4 DEF ChangeAccount
    <3>2. QED
      BY <2>1, <3>1, Arrives
  <2>5. QED
    BY <2>3, <2>4
<1>2. ASSUME NEW b \in Account, SyncNow(b) PROVE Goal
  <2>1. UNCHANGED <<started, failed, live, syncs, state, abandoned>> /\ Enqueue(b, TRUE)
    BY <1>2 DEF SyncNow
  <2>2. \A c \in Change : Replaces(c, a) => Replaces(c, a)'
    BY <2>1, Arrives DEF Replaces
  <2>3. QED
    BY <1>a, <2>1, <2>2
<1>3. ASSUME NEW c \in Change, BeginChange(c) PROVE Goal
  <2>1. /\ UNCHANGED <<started, failed, live, syncs, state, abandoned>>
        /\ change[c].step = "queued" /\ change' = [change EXCEPT ![c].step = "select"]
    BY <1>3 DEF BeginChange
  <2>2. \A d \in Change : Replaces(d, a) => Replaces(d, a)'
    BY <2>1 DEF Replaces, Calls, ChangeCall
  <2>3. QED
    BY <1>a, <2>1, <2>2
<1>4. ASSUME NEW c \in Change, ReconcileAccount(c) PROVE Goal
  <2> DEFINE b == change[c].acct
  <2>0. b \in Account /\ UNCHANGED <<started, failed, live, abandoned>>
    BY <1>4 DEF ReconcileAccount, Calls, Changes
  <2>1. CASE /\ syncs' = [syncs EXCEPT ![b] = None] /\ state' = TellToStop({syncs[b]})
             /\ syncs[b] # None
             /\ change' = [change EXCEPT ![c].step = "stopping", ![c].old = syncs[b],
                                         ![c].wanted = b \in live]
    <3>1. a # b
      BY <1>0, <2>0, <2>1 DEF Loops
    <3>2. syncs'[a] = syncs[a] /\ syncs[a] # syncs[b]
      BY <1>0, <2>0, <2>1, <3>1 DEF Loops
    <3>3. state'[syncs[a]] = state[syncs[a]]
      BY <1>0, <2>1, <3>2 DEF TellToStop, Loops
    <3>4. \A d \in Change : Replaces(d, a) => d # c /\ change'[d] = change[d]
      BY <2>1, <3>1 DEF Replaces, Calls
    <3>5. QED
      BY <1>a, <2>0, <3>2, <3>3, <3>4 DEF Replaces
  <2>2. CASE /\ EnsureSync(IF b \in live /\ started THEN {b} ELSE {}, syncs, abandoned, state)
             /\ Settle({c})
             /\ ~(syncs[b] # None /\ (b \notin live \/ change[c].connection))
    <3>1. (IF b \in live /\ started THEN {b} ELSE {}) \in SUBSET Account
      BY <2>0
    <3>2. /\ syncs[a] # None => syncs'[a] = syncs[a] /\ state'[syncs[a]] = state[syncs[a]]
          /\ syncs[a] = None => syncs'[a] = None \/ Runs(a)'
      BY <1>0, <2>2, <3>1, Serves DEF Loops
    <3>3. syncs[a] # None
      BY <3>2
    <3>4. \A d \in Change : Replaces(d, a) => d # c
      BY <2>2, <3>3 DEF Replaces
    <3>5. \A d \in Change : Replaces(d, a) => Replaces(d, a)'
      BY <2>2, <3>4, SettledKeeps DEF Replaces
    <3>6. QED
      BY <1>a, <2>0, <3>2, <3>3, <3>5
  <2>3. QED
    BY <1>4, <2>1, <2>2 DEF ReconcileAccount
<1>5. ASSUME NEW l \in Loop, StopItself(l) PROVE Goal
  <2>1. /\ l[1] # a /\ UNCHANGED <<started, failed, live, syncs, change, abandoned>>
        /\ \A m \in Loop : state'[m] = IF m = l THEN "told" ELSE state[m]
    BY <1>5 DEF StopItself, Loops
  <2>2. QED
    BY <1>0, <1>a, <2>1 DEF Replaces
<1>6. ASSUME NEW l \in Loop, EndLoop(l) PROVE Goal
  <2>1. UNCHANGED <<started, failed, live>>
    BY <1>6 DEF EndLoop
  <2>2. syncs[a] # None /\ syncs[a] # l
    BY <1>0, <1>6, <2>1, EndLeaves
  <2>3. syncs'[a] = syncs[a] /\ state'[syncs[a]] = state[syncs[a]]
    BY <1>0, <1>6, <2>1, <2>2, EndLeaves
  <2>4. \A c \in Change : Replaces(c, a) => Replaces(c, a)'
    BY <1>6, <2>1, EndLeaves DEF Replaces
  <2>5. abandoned \ {l} \subseteq abandoned'
    BY <1>6, <2>1, EndLeaves
  <2>6. QED
    BY <1>a, <2>1, <2>2, <2>3, <2>4, <2>5
<1>7. ASSUME NEW k \in {"refusal", "release"}, Start(k) PROVE Goal
  <2>1. /\ EnsureSync(live, syncs, abandoned, state) /\ live \in SUBSET Account
        /\ UNCHANGED <<started, failed, live, change, abandoned>>
    BY <1>7 DEF Start, Rest
  <2>2. /\ syncs[a] # None => syncs'[a] = syncs[a] /\ state'[syncs[a]] = state[syncs[a]]
        /\ syncs[a] = None => syncs'[a] = None \/ Runs(a)'
    BY <1>0, <2>1, Serves DEF Loops
  <2>3. QED
    BY <1>a, <2>1, <2>2 DEF Replaces
<1>8. ASSUME \/ \E k \in {"refusal", "release"} : StartFails(k)
             \/ \E c \in Change : ReconcileFails(c)
             \/ \E s \in Stop : CallStop(s)
      PROVE  Goal
    BY <1>8 DEF StartFails, ReconcileFails, CallStop
<1>9. ASSUME NEW s \in Stop, TellLoops(s) PROVE Goal
  <2> DEFINE told == stop[s].outstanding \cup Values(syncs)
             none == [b \in Account |-> None]
             as == IF started THEN {l[1] : l \in abandoned \cap {l \in told : state[l] = "gone"}}
                              ELSE {}
  <2>1. told \in SUBSET Loop
    BY DEF Values, Loops, Rest, StopCall
  <2>2. EnsureSync(as, none, abandoned', TellToStop(told))
    BY <1>9 DEF TellLoops
  <2>3. as \in SUBSET Account
    BY <1>0 DEF Rest
  <2>4. TellToStop(told) \in [Loop -> LoopStates]
    BY <2>1, Told
  <2>5. none \in [Account -> Loop \cup {None}] /\ \A b \in Account : none[b] = None
    BY <1>0
  <2> HIDE DEF none, told, as
  <2>6. syncs'[a] = None \/ Runs(a)'
    BY <1>0, <2>2, <2>3, <2>4, <2>5, Serves
  <2>7. QED
    BY <2>6
<1>10. ASSUME NEW s \in Stop, AnswerStopped(s) PROVE Goal
    BY <1>10, <1>a DEF AnswerStopped, Replaces
<1>11. ASSUME NEW s \in Stop, TimeOut(s) PROVE Goal
  <2>1. /\ call = s /\ call # None /\ ~started /\ UNCHANGED <<syncs, state, live>>
        /\ abandoned' = abandoned \cup stop[s].outstanding
    BY <1>11, NoneIsNothing DEF TimeOut, Route
  <2>2. syncs[a] \in stop[s].outstanding
    BY <1>0, <2>1 DEF Paused, Runs
  <2>3. QED
    BY <2>1, <2>2
<1>12. ASSUME Release PROVE Goal
    BY <1>0, <1>12 DEF Release, Paused, Route, Runs
<1>13. CASE UNCHANGED vars
    BY <1>13, <1>a DEF vars, Replaces
<1>14. QED
    BY <1>1, <1>2, <1>3, <1>4, <1>5, <1>6, <1>7, <1>8, <1>9, <1>10, <1>11, <1>12, <1>13
       DEF Next, Turn

\* A live account has a loop, or gets one, or has been cleared.
LEMMA StepServed ==
    Calls /\ Loops /\ Rest /\ Route /\ LiveInv /\ [Next]_vars => Served'
<1> SUFFICES ASSUME Calls, Loops, Rest, Route, LiveInv, [Next]_vars,
                    started', starting' = {}, ~failed', NEW a \in live' \ cleared'
             PROVE  Has(a)'
    BY DEF Served
<1> USE DEF mailVars, history, routeVars
<1>0. /\ OldIsOwn /\ Paused /\ Winding /\ Served
      /\ a \in Account /\ a \in live'
      /\ \A b \in Account : syncs[b] # None => syncs[b] \in Loop /\ syncs[b][1] = b
      /\ \A l \in Loop : l[1] \in Account
  <2>1. Rest'
    BY StepTypes
  <2>2. QED
    BY <2>1 DEF Rest, Loops, Loop, LiveInv
\* Whoever has an entry is served: if its loop is not running it is going to be replaced.
<1>a. ASSUME syncs'[a] # None PROVE Has(a)'
  <2>1. Winding' /\ Loops'
    BY <1>0, StepWinding, StepTypes
  <2>2. syncs'[a][1] = a
    BY <1>0, <1>a, <2>1 DEF Loops
  <2>3. Runs(a)' \/ (\E c \in Change : Replaces(c, a)') \/ syncs'[a] \in abandoned'
    BY <1>0, <1>a, <2>1 DEF Winding
  <2>4. \A c \in Change : Replaces(c, a)' => Reconciles(c, a)'
    BY DEF Replaces, Reconciles
  <2>5. QED
    BY <2>2, <2>3, <2>4 DEF Has
<1>b. ASSUME started, starting = {}, ~failed, a \in live \ cleared,
             syncs[a] # None => syncs'[a] # None,
             \A c \in Change : Reconciles(c, a) => Reconciles(c, a)',
             abandoned \subseteq abandoned'
      PROVE  Has(a)'
  <2>1. Has(a)
    BY <1>0, <1>b DEF Served
  <2>2. CASE Runs(a)
    BY <1>a, <1>b, <2>2 DEF Runs
  <2>3. CASE ~Runs(a)
    BY <1>b, <2>1, <2>3 DEF Has
  <2>4. QED
    BY <2>2, <2>3
<1>1. ASSUME NEW b \in Account, NEW wanted \in BOOLEAN, NEW connection \in BOOLEAN,
             ChangeAccount(b, wanted, connection)
      PROVE  Has(a)'
  <2>1. /\ started /\ Enqueue(b, connection)
        /\ UNCHANGED <<started, starting, failed, cleared, syncs, state, abandoned>>
    BY <1>1 DEF ChangeAccount
  <2>2. \A c \in Change : Reconciles(c, a) => Reconciles(c, a)'
    BY <2>1, Arrives DEF Reconciles
  <2>3. CASE a \in live
    BY <1>b, <2>1, <2>2, <2>3
  <2>4. CASE a \notin live
    <3>1. a = b
      BY <1>0, <1>1, <2>4 DEF ChangeAccount
    <3>2. QED
      BY <2>1, <3>1, Arrives DEF Has
  <2>5. QED
    BY <2>3, <2>4
<1>2. ASSUME NEW b \in Account, SyncNow(b) PROVE Has(a)'
  <2>1. /\ UNCHANGED <<started, starting, failed, cleared, live, syncs, state, abandoned>>
        /\ Enqueue(b, TRUE)
    BY <1>2 DEF SyncNow
  <2>2. \A c \in Change : Reconciles(c, a) => Reconciles(c, a)'
    BY <2>1, Arrives DEF Reconciles
  <2>3. QED
    BY <1>0, <1>b, <2>1, <2>2
<1>3. ASSUME NEW c \in Change, BeginChange(c) PROVE Has(a)'
  <2>1. /\ UNCHANGED <<started, starting, failed, cleared, live, syncs, state, abandoned>>
        /\ change[c].step = "queued" /\ change' = [change EXCEPT ![c].step = "select"]
    BY <1>3 DEF BeginChange
  <2>2. \A d \in Change : Reconciles(d, a) => Reconciles(d, a)'
    BY <2>1 DEF Reconciles, Calls, ChangeCall
  <2>3. QED
    BY <1>0, <1>b, <2>1, <2>2
<1>4. ASSUME NEW c \in Change, ReconcileAccount(c) PROVE Has(a)'
  <2> DEFINE b == change[c].acct
  <2>0. b \in Account
        /\ UNCHANGED <<started, starting, failed, cleared, live, abandoned>>
    BY <1>4 DEF ReconcileAccount, Calls, Changes
  <2>1. CASE /\ syncs' = [syncs EXCEPT ![b] = None]
             /\ change' = [change EXCEPT ![c].step = "stopping", ![c].old = syncs[b],
                                         ![c].wanted = b \in live]
    <3>1. CASE a = b
      <4>1. change'[c].acct = a /\ change'[c].step = "stopping" /\ change'[c].wanted
        BY <1>0, <2>0, <2>1, <3>1 DEF Calls, ChangeCall
      <4>2. QED
        BY <4>1 DEF Has, Reconciles
    <3>2. CASE a # b
      <4>1. syncs'[a] = syncs[a]
        BY <1>0, <2>0, <2>1, <3>2 DEF Loops
      <4>2. \A d \in Change : Reconciles(d, a) => Reconciles(d, a)'
        BY <2>1, <3>2 DEF Reconciles, Calls
      <4>3. QED
        BY <1>0, <1>b, <2>0, <4>1, <4>2
    <3>3. QED
      BY <3>1, <3>2
  <2>2. CASE /\ EnsureSync(IF b \in live /\ started THEN {b} ELSE {}, syncs, abandoned, state)
             /\ Settle({c})
    <3>1. PICK served \in SUBSET Account :
            EnsureSync(served, syncs, abandoned, state) /\ (a = b => a \in served)
      BY <1>0, <2>0, <2>2
    <3>2. /\ syncs[a] # None => syncs'[a] = syncs[a]
          /\ a \in served => syncs'[a] # None \/ \E l \in abandoned : l[1] = a
      <4>1. PICK syncs1, abandoned1, state1 :
              /\ syncs1 = syncs /\ abandoned1 = abandoned /\ state1 = state
              /\ EnsureSync(served, syncs1, abandoned1, state1)
        BY <3>1
      <4>2. /\ state1 \in [Loop -> LoopStates]
            /\ syncs1 \in [Account -> Loop \cup {None}]
            /\ \A d \in Account : syncs1[d] \in ({d} \X Slot) \cup {None}
        BY <4>1 DEF Loops
      <4>3. \A d \in Account :
             /\ syncs1[d] # None =>
                   syncs'[d] = syncs1[d] /\ state'[syncs1[d]] = state1[syncs1[d]]
             /\ syncs1[d] = None => syncs'[d] = None \/ (Runs(d)' /\ d \in served)
             /\ d \in served => syncs'[d] # None \/ \E l \in abandoned1 : l[1] = d
        <5>1. EnsureSync(served, syncs1, abandoned1, state1)
          BY <4>1
        <5> HIDE DEF b
        <5>2. QED
          BY <4>2, <5>1, Serves
      <4>4. QED
        BY <1>0, <4>1, <4>3
    <3>3. CASE a = b
      BY <1>a, <2>0, <3>1, <3>2, <3>3 DEF Has
    <3>4. CASE a # b
      <4>1. \A d \in Change : Reconciles(d, a) => Reconciles(d, a)'
        BY <2>2, <3>4, SettledKeeps DEF Reconciles
      <4>2. QED
        BY <1>0, <1>b, <2>0, <3>2, <4>1
    <3>5. QED
      BY <3>3, <3>4
  <2>3. QED
    BY <1>4, <2>1, <2>2 DEF ReconcileAccount
<1>5. ASSUME NEW l \in Loop, StopItself(l) PROVE Has(a)'
    BY <1>0, <1>5, <1>b DEF StopItself, Reconciles
<1>6. ASSUME NEW l \in Loop, EndLoop(l) PROVE Has(a)'
  <2>1. /\ UNCHANGED <<started, starting, failed, cleared, live>> /\ started
        /\ state[l] = "told"
    BY <1>6 DEF EndLoop
  <2>2. Has(a)
    BY <1>0, <2>1 DEF Served
  <2>3. CASE Runs(a)
    <3>1. syncs'[a] # None
      BY <1>0, <1>6, <2>1, <2>3, EndLeaves DEF Runs
    <3>2. QED
      BY <1>a, <3>1
  <2>4. CASE \E c \in Change : Reconciles(c, a)
    <3>1. PICK c \in Change : Reconciles(c, a)
      BY <2>4
    <3>2. Reconciles(c, a)' \/ syncs'[a] # None \/ \E m \in abandoned' : m[1] = a
      BY <1>0, <1>6, <2>1, <3>1, EndLeaves DEF Reconciles
    <3>3. QED
      BY <1>a, <3>2 DEF Has
  <2>5. CASE \E m \in abandoned : m[1] = a
    <3>1. syncs'[a] # None \/ \E m \in abandoned' : m[1] = a
      BY <1>0, <1>6, <2>1, <2>5, EndLeaves
    <3>2. QED
      BY <1>a, <3>1 DEF Has
  <2>6. QED
    BY <2>2, <2>3, <2>4, <2>5 DEF Has
<1>7. ASSUME NEW k \in {"refusal", "release"}, Start(k) PROVE Has(a)'
  <2>1. /\ EnsureSync(live, syncs, abandoned, state) /\ live \in SUBSET Account
        /\ UNCHANGED <<live, abandoned>>
    BY <1>7 DEF Start, Rest
  <2>2. syncs'[a] # None \/ \E l \in abandoned : l[1] = a
    <3>1. PICK served, syncs1, abandoned1, state1 :
            /\ served = live /\ syncs1 = syncs /\ abandoned1 = abandoned /\ state1 = state
            /\ EnsureSync(served, syncs1, abandoned1, state1)
      BY <2>1
    <3>2. /\ state1 \in [Loop -> LoopStates] /\ served \in SUBSET Account
          /\ syncs1 \in [Account -> Loop \cup {None}]
          /\ \A d \in Account : syncs1[d] \in ({d} \X Slot) \cup {None}
      BY <2>1, <3>1 DEF Loops
    <3>3. \A d \in Account :
           /\ syncs1[d] # None =>
                 syncs'[d] = syncs1[d] /\ state'[syncs1[d]] = state1[syncs1[d]]
           /\ syncs1[d] = None => syncs'[d] = None \/ (Runs(d)' /\ d \in served)
           /\ d \in served => syncs'[d] # None \/ \E l \in abandoned1 : l[1] = d
      BY <3>1, <3>2, Serves
    <3>4. a \in served
      BY <1>0, <2>1, <3>1
    <3>5. QED
      BY <1>0, <3>1, <3>3, <3>4
  <2>3. QED
    BY <1>a, <2>1, <2>2 DEF Has
<1>8. ASSUME \/ \E k \in {"refusal", "release"} : StartFails(k)
             \/ \E c \in Change : ReconcileFails(c)
             \/ \E s \in Stop : CallStop(s)
      PROVE  Has(a)'
    BY <1>8 DEF StartFails, ReconcileFails, CallStop
<1>9. ASSUME NEW s \in Stop, TellLoops(s) PROVE Has(a)'
  <2> DEFINE told == stop[s].outstanding \cup Values(syncs)
             gone == {l \in told : state[l] = "gone"}
             freed == abandoned \cap gone
             none == [b \in Account |-> None]
  <2>1. /\ UNCHANGED <<started, starting, failed, live, change>> /\ started
        /\ abandoned' = abandoned \ gone
        /\ cleared' = cleared \cup {b \in Account : syncs[b] # None}
    BY <1>9 DEF TellLoops
  <2>2. EnsureSync({l[1] : l \in freed}, none, abandoned', TellToStop(told))
    BY <1>9, <2>1 DEF TellLoops
  <2>3. syncs[a] = None /\ a \in live \ cleared
    BY <1>0, <2>1
  <2>4. Has(a) /\ ~Runs(a)
    BY <1>0, <2>1, <2>3 DEF Served, Runs
  <2>5. CASE \E c \in Change : Reconciles(c, a)
    BY <2>1, <2>5 DEF Has, Reconciles
  <2>6. CASE \E l \in abandoned : l[1] = a
    <3>1. PICK l \in abandoned : l[1] = a
      BY <2>6
    <3>2. CASE l \notin gone
      BY <2>1, <3>1, <3>2 DEF Has
    <3>3. CASE l \in gone
      <4>1. PICK served, syncs1, abandoned1, state1 :
               /\ served = {m[1] : m \in freed} /\ syncs1 = none
               /\ abandoned1 = abandoned' /\ state1 = TellToStop(told)
               /\ EnsureSync(served, syncs1, abandoned1, state1)
        BY <2>2
      <4>2. told \in SUBSET Loop
        BY DEF Values, Loops, Rest, StopCall
      <4>3. /\ state1 \in [Loop -> LoopStates]
            /\ syncs1 \in [Account -> Loop \cup {None}]
            /\ \A b \in Account : syncs1[b] \in ({b} \X Slot) \cup {None}
        BY <4>1, <4>2, Told
      <4>4. served \in SUBSET Account /\ a \in served
        BY <1>0, <3>1, <3>3, <4>1 DEF Rest
      <4>5. \A d \in Account :
             /\ syncs1[d] # None =>
                   syncs'[d] = syncs1[d] /\ state'[syncs1[d]] = state1[syncs1[d]]
             /\ syncs1[d] = None => syncs'[d] = None \/ (Runs(d)' /\ d \in served)
             /\ d \in served => syncs'[d] # None \/ \E m \in abandoned1 : m[1] = d
        <5>1. EnsureSync(served, syncs1, abandoned1, state1)
          BY <4>1
        <5> HIDE DEF told, gone, freed, none
        <5>2. QED
          BY <4>3, <4>4, <5>1, Serves
      <4>6. syncs'[a] # None \/ \E m \in abandoned1 : m[1] = a
        BY <1>0, <4>4, <4>5
      <4>7. QED
        BY <1>a, <4>1, <4>6 DEF Has
    <3>4. QED
      BY <3>2, <3>3
  <2>7. QED
    BY <2>4, <2>5, <2>6 DEF Has
<1>10. ASSUME NEW s \in Stop, AnswerStopped(s) PROVE Has(a)'
    BY <1>0, <1>10, <1>b DEF AnswerStopped, Reconciles
<1>11. ASSUME NEW s \in Stop, TimeOut(s) PROVE Has(a)'
  <2>1. ~started
    BY <1>11, NoneIsNothing DEF TimeOut, Route
  <2>2. QED
    BY <1>11, <2>1 DEF TimeOut, BeginStart
<1>12. ASSUME Release PROVE Has(a)'
  <2>1. ~started
    BY <1>12 DEF Release, Route
  <2>2. QED
    BY <1>12, <2>1 DEF Release, BeginStart
<1>13. CASE UNCHANGED vars
    BY <1>0, <1>13, <1>b DEF vars, Reconciles
<1>14. QED
    BY <1>1, <1>2, <1>3, <1>4, <1>5, <1>6, <1>7, <1>8, <1>9, <1>10, <1>11, <1>12, <1>13
       DEF Next, Turn

\* Unless a SELECT of the manager fails, a live account has a loop, or a change or an
\* abandoned loop that will give it one, except where the continuation of a stop() took its
\* loop out of the map behind the start() that followed.
THEOREM Attended == Spec => []LiveAccountHasLoop
<1> DEFINE All == IInv /\ LiveInv
<1>1. Init => All
    BY InitIInv, InitLive
<1>2. All /\ [Next]_vars => All'
    BY StepIInv, StepOld, StepPaused, StepWinding, StepServed DEF IInv, LiveInv
<1>3. LiveInv => LiveAccountHasLoop
    BY DEF LiveInv, Served, Has, Runs, Reconciles, LiveAccountHasLoop
<1>4. QED
    BY <1>1, <1>2, <1>3, PTL DEF Spec
=============================================================================
