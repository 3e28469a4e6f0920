-------------------------- MODULE TaskScheduleProofs --------------------------
(***************************************************************************)
(* Theorems of module TaskSchedule, for any tasks, projects and calls.     *)
(*                                                                         *)
(* Three invariants, each resting on those before it.  IInv: a call        *)
(* between its lock and its end is the one holder of the lock of its       *)
(* group, and nothing leads out of what a walk has visited but through the *)
(* level it is about to read.  ViewInv: what a compaction has read under   *)
(* its lock is still so, and what it has settled follows from it.          *)
(* ShiftInv: what a cascade has moved is later than it was, no later than  *)
(* a moved predecessor makes it, and every edge it has looked at is        *)
(* satisfied.                                                              *)
(***************************************************************************)
EXTENDS TaskSchedule, WellFoundedInduction, FiniteSetTheorems, TLAPS

\* The rows and the calls, as far as a lock and a walk depend on them.
Rows ==
    /\ task = [t \in Task |-> task[t]]
    /\ \A t \in Task : "project" \in DOMAIN task[t] /\ task[t].project \in Group
Calls ==
    /\ call = [c \in Call |-> call[c]]
    /\ \A c \in Call : DOMAIN call[c] = DOMAIN NoCall /\ call[c].group \in Group
Shape == Rows /\ Calls /\ deps \subseteq Task \X Task /\ lock \in [Group -> Call \cup {Free}]

\* A call has its lock from the statement that waits for it to the end of its transaction.
Inside == {"cascade", "edges", "walk", "insert", "write"}
Holds(c) == call[c].pc \in Inside => lock[call[c].group] = c

\* An addDependency is of two tasks.
Pair(c) ==
    /\ call[c].op = "add" => call[c].at \in Task \X Task /\ call[c].at[1] # call[c].at[2]
    /\ call[c].pc \in {"walk", "insert"} => call[c].op = "add"

\* The walk: it has not met the predecessor, and an edge out of what it has visited leads
\* back into it or starts at the level that is not read yet.
Walked(c) ==
    call[c].pc \in {"walk", "insert"} =>
        /\ call[c].at[2] \in call[c].visited /\ call[c].at[1] \notin call[c].visited
        /\ call[c].pc = "insert" => call[c].frontier = {}
        /\ \A e \in deps : e[1] \in call[c].visited \ call[c].frontier => e[2] \in call[c].visited

\* While no task has changed its project there is one group, and one lock.
OneGroup ==
    \E g \in Group : /\ \A t \in Task : task[t].project = g
                     /\ \A c \in Call : call[c].op = "add" => call[c].group = g

IInv ==
    /\ Shape
    /\ \A c \in Call : Holds(c) /\ Pair(c)
    /\ ~strayed => OneGroup /\ Acyclic(deps) /\ \A c \in Call : Walked(c)
-----------------------------------------------------------------------------
\* An edge into a set that nothing leads out of, from a task outside it, closes no loop.
LEMMA ClosesNoLoop ==
    ASSUME NEW edges, Acyclic(edges), NEW V, NEW p, NEW s, p \notin V, s \in V,
           \A e \in edges : e[1] \in V => e[2] \in V
    PROVE  Acyclic(edges \cup {<<p, s>>})
<1> SUFFICES ASSUME NEW S \in SUBSET Task \ {{}}
             PROVE  \E t \in S : \A e \in edges \cup {<<p, s>>} : e[2] = t => e[1] \notin S
    BY DEF Acyclic
<1>1. CASE S \subseteq V
  <2>1. PICK t \in S : \A e \in edges : e[2] = t => e[1] \notin S
      BY DEF Acyclic
  <2>2. <<p, s>>[1] \notin S
      BY <1>1
  <2> QED
      BY <2>1, <2>2
<1>2. CASE ~(S \subseteq V)
  <2>1. S \ V \in SUBSET Task \ {{}}
      BY <1>2
  <2>2. PICK t \in S \ V : \A e \in edges : e[2] = t => e[1] \notin S \ V
      BY <2>1 DEF Acyclic
  <2>3. ASSUME NEW e \in edges, e[2] = t PROVE e[1] \notin S
      BY <2>2, <2>3
  <2>4. <<p, s>>[2] # t
      BY <2>2
  <2> QED
      BY <2>2, <2>3, <2>4
<1> QED
    BY <1>1, <1>2

LEMMA FewerEdges ==
    ASSUME NEW edges, Acyclic(edges), NEW fewer, fewer \subseteq edges
    PROVE  Acyclic(fewer)
<1> SUFFICES ASSUME NEW S \in SUBSET Task \ {{}}
             PROVE  \E t \in S : \A e \in fewer : e[2] = t => e[1] \notin S
    BY DEF Acyclic
<1>1. PICK t \in S : \A e \in edges : e[2] = t => e[1] \notin S
    BY DEF Acyclic
<1> QED
    BY <1>1

LEMMA InitIInv == Init => IInv
<1> SUFFICES ASSUME Init PROVE IInv
    OBVIOUS
<1>1. PICK p \in Project, rows \in InitRows :
        task = [t \in Task |-> [project |-> p, start |-> rows[t].start, due |-> rows[t].due,
                                status |-> rows[t].status, archived |-> FALSE]]
    BY DEF Init
<1>2. Rows
    BY <1>1 DEF Rows, Group
<1>3. Calls
    BY DEF Init, Calls, NoCall, Group
<1>4. deps \subseteq Task \X Task /\ Acyclic(deps)
    BY GraphsAssumption DEF Init
<1>5. lock \in [Group -> Call \cup {Free}]
    BY DEF Init
<1>6. \A c \in Call : Holds(c) /\ Pair(c) /\ Walked(c)
    BY DEF Init, NoCall, Holds, Inside, Pair, Walked
<1>7. OneGroup
    BY <1>1 DEF Init, NoCall, OneGroup, Group
<1> QED
    BY <1>2, <1>3, <1>4, <1>5, <1>6, <1>7 DEF IInv, Shape

-----------------------------------------------------------------------------
\* A step of one call keeps the invariant if it keeps it of that call: it takes no lock
\* from another, adds no dependency and moves no task.
LEMMA StepOfOne ==
    ASSUME IInv, NEW c \in Call,
           Rows', \A t \in Task : task'[t].project = task[t].project,
           Calls', \A d \in Call \ {c} : call'[d] = call[d],
           lock' \in [Group -> Call \cup {Free}],
           \A g \in Group : lock[g] \notin {c, Free} => lock'[g] = lock[g],
           deps' \subseteq deps, strayed' = strayed,
           Holds(c)', Pair(c)', ~strayed => Walked(c)',
           call'[c].op = "add" =>
             \/ call[c].op = "add" /\ call'[c].group = call[c].group
             \/ \E t \in Task : call'[c].group = task[t].project
    PROVE  IInv'
<1>1. Shape'
    BY DEF IInv, Shape
<1>2. ASSUME NEW d \in Call PROVE Holds(d)' /\ Pair(d)'
  <2>1. CASE d = c
      BY <2>1
  <2>2. CASE d # c
    <3>1. call'[d] = call[d] /\ Holds(d) /\ Pair(d) /\ call[d].group \in Group
        BY <2>2 DEF IInv, Shape, Calls
    <3>2. Pair(d)'
        BY <3>1 DEF Pair
    <3>3. Holds(d)'
        BY <3>1, <2>2, ScheduleAssumption DEF Holds
    <3> QED
        BY <3>2, <3>3
  <2> QED
      BY <2>1, <2>2
<1>3. ASSUME ~strayed PROVE OneGroup' /\ Acyclic(deps)' /\ \A d \in Call : Walked(d)'
  <2>1. OneGroup /\ Acyclic(deps) /\ \A d \in Call : Walked(d)
      BY <1>3 DEF IInv
  <2>2. Acyclic(deps')
      BY <2>1, FewerEdges
  <2>3. ASSUME NEW d \in Call PROVE Walked(d)'
    <3>1. CASE d = c
        BY <3>1, <1>3
    <3>2. CASE d # c
      <4>1. call'[d] = call[d] /\ Walked(d)
          BY <3>2, <2>1
      <4> QED
          BY <4>1 DEF Walked
    <3> QED
        BY <3>1, <3>2
  <2>4. OneGroup'
    <3>1. PICK g \in Group : /\ \A t \in Task : task[t].project = g
                             /\ \A d \in Call : call[d].op = "add" => call[d].group = g
        BY <2>1 DEF OneGroup
    <3>2. \A t \in Task : task'[t].project = g
        BY <3>1
    <3>3. ASSUME NEW d \in Call, call'[d].op = "add" PROVE call'[d].group = g
      <4>1. CASE d = c
          BY <4>1, <3>1, <3>3
      <4>2. CASE d # c
          BY <4>2, <3>1, <3>3
      <4> QED
          BY <4>1, <4>2
    <3> QED
        BY <3>2, <3>3 DEF OneGroup
  <2> QED
      BY <2>2, <2>3, <2>4 DEF Acyclic
<1> QED
    BY <1>1, <1>2, <1>3 DEF IInv

\* What a step does to the lock: it takes one that nobody holds, or gives back its own.
LEMMA Takes ==
    ASSUME IInv, NEW c \in Call, lock[call[c].group] = Free, Taken(c)
    PROVE  /\ lock' \in [Group -> Call \cup {Free}] /\ lock'[call[c].group] = c
           /\ \A g \in Group : lock[g] \notin {c, Free} => lock'[g] = lock[g]
    BY DEF IInv, Shape, Calls, Taken
LEMMA Gives ==
    ASSUME IInv, NEW c \in Call, Release(c)
    PROVE  /\ lock' \in [Group -> Call \cup {Free}]
           /\ \A g \in Group : lock[g] \notin {c, Free} => lock'[g] = lock[g]
    BY DEF IInv, Shape, Release

\* A step that changes the record of one call leaves the others as they were.
LEMMA OneCall ==
    ASSUME IInv, NEW c \in Call, NEW r, DOMAIN r = DOMAIN NoCall, r.group \in Group,
           call' = [call EXCEPT ![c] = r]
    PROVE  Calls' /\ call'[c] = r /\ \A d \in Call \ {c} : call'[d] = call[d]
<1>1. call = [d \in Call |-> call[d]]
    BY DEF IInv, Shape, Calls
<1>2. call' = [d \in Call |-> IF d = c THEN r ELSE call[d]]
    BY <1>1
<1>3. call'[c] = r /\ \A d \in Call \ {c} : call'[d] = call[d]
    BY <1>2
<1>4. \A d \in Call : DOMAIN call[d] = DOMAIN NoCall /\ call[d].group \in Group
    BY DEF IInv, Shape, Calls
<1>5. call' = [d \in Call |-> call'[d]]
    BY <1>2
<1>6. \A d \in Call : DOMAIN call'[d] = DOMAIN NoCall /\ call'[d].group \in Group
    BY <1>3, <1>4
<1> QED
    BY <1>3, <1>5, <1>6 DEF Calls

\* A call that starts has no lock yet; one that has ended or failed has none any more.
LEMMA Starts ==
    ASSUME IInv, NEW c \in Call, NEW op \in {"shift", "compact", "add"}, NEW g \in Group, NEW on, NEW at,
           Began(c, op, g, on, at), UNCHANGED <<task, deps, lock, strayed>>,
           op = "add" => /\ at \in Task \X Task /\ at[1] # at[2]
                         /\ \E t \in Task : g = task[t].project
    PROVE  IInv'
<1> DEFINE r == [NoCall EXCEPT !.op = op, !.pc = "lock", !.group = g, !.on = on, !.at = at]
<1>1. DOMAIN r = DOMAIN NoCall /\ r.group = g /\ r.op = op /\ r.pc = "lock" /\ r.at = at
    BY DEF NoCall
<1>2. call' = [call EXCEPT ![c] = r]
    BY DEF Began
<1> HIDE DEF r
<1>3. Calls' /\ call'[c] = r /\ \A d \in Call \ {c} : call'[d] = call[d]
    BY <1>1, <1>2, OneCall
<1>4. Rows' /\ lock' \in [Group -> Call \cup {Free}]
    BY DEF IInv, Shape, Rows
<1>5. Holds(c)' /\ Pair(c)' /\ Walked(c)'
    BY <1>1, <1>3 DEF Holds, Inside, Pair, Walked
<1> QED
    BY <1>1, <1>3, <1>4, <1>5, StepOfOne

LEMMA Ends ==
    ASSUME IInv, NEW c \in Call, Ended(c), Rows',
           \A t \in Task : task'[t].project = task[t].project,
           UNCHANGED <<deps, strayed>>
    PROVE  IInv'
<1>1. Calls' /\ call'[c] = NoCall /\ \A d \in Call \ {c} : call'[d] = call[d]
  <2>1. NoCall.group \in Group
      BY DEF NoCall, Group
  <2> QED
      BY <2>1, OneCall DEF Ended
<1>2. /\ lock' \in [Group -> Call \cup {Free}]
      /\ \A g \in Group : lock[g] \notin {c, Free} => lock'[g] = lock[g]
    BY Gives DEF Ended
<1>3. NoCall.pc = "idle" /\ NoCall.op = "none"
    BY DEF NoCall
<1>4. Holds(c)' /\ Pair(c)' /\ Walked(c)'
    BY <1>1, <1>3 DEF Holds, Inside, Pair, Walked
<1> QED
    BY <1>1, <1>2, <1>3, <1>4, StepOfOne

\* A call goes on: it keeps its lock, its kind and its pair.
LEMMA GoesOn ==
    ASSUME IInv, NEW c \in Call, NEW r, call' = [call EXCEPT ![c] = r],
           DOMAIN r = DOMAIN NoCall, r.group = call[c].group, r.op = call[c].op, r.at = call[c].at,
           r.pc \in {"cascade", "edges", "write"} \/ (r.op = "add" /\ r.pc \in {"walk", "insert"}),
           lock' \in [Group -> Call \cup {Free}], lock'[call[c].group] = c,
           \A g \in Group : lock[g] \notin {c, Free} => lock'[g] = lock[g],
           ~strayed => Walked(c)',
           UNCHANGED <<task, deps, strayed>>
    PROVE  IInv'
<1>1. call[c].group \in Group /\ Pair(c)
    BY DEF IInv, Shape, Calls
<1>2. Calls' /\ call'[c] = r /\ \A d \in Call \ {c} : call'[d] = call[d]
    BY <1>1, OneCall
<1>3. Rows'
    BY DEF IInv, Shape, Rows
<1>4. Holds(c)' /\ Pair(c)'
    BY <1>1, <1>2 DEF Holds, Pair
<1> QED
    BY <1>2, <1>3, <1>4, StepOfOne

\* A call that throws gives its lock back before it answers.
LEMMA Fails ==
    ASSUME IInv, NEW c \in Call, call' = [call EXCEPT ![c].pc = "failed"], Release(c),
           UNCHANGED <<task, deps, strayed>>
    PROVE  IInv'
<1> DEFINE r == [call[c] EXCEPT !.pc = "failed"]
<1>1. /\ call' = [call EXCEPT ![c] = r]
      /\ DOMAIN r = DOMAIN NoCall /\ r.group = call[c].group /\ r.op = call[c].op
      /\ r.at = call[c].at /\ r.pc = "failed"
  <2>1. DOMAIN call[c] = DOMAIN NoCall /\ call = [d \in Call |-> call[d]]
      BY DEF IInv, Shape, Calls
  <2> QED
      BY <2>1 DEF NoCall
<1> HIDE DEF r
<1>2. call[c].group \in Group /\ Pair(c) /\ Rows
    BY DEF IInv, Shape, Calls
<1>3. Calls' /\ call'[c] = r /\ \A d \in Call \ {c} : call'[d] = call[d]
    BY <1>1, <1>2, OneCall
<1>4. Holds(c)' /\ Pair(c)' /\ Walked(c)'
    BY <1>1, <1>2, <1>3 DEF Holds, Inside, Pair, Walked
<1>5. Rows' /\ \A t \in Task : task'[t].project = task[t].project
    BY <1>2 DEF Rows
<1> QED
    BY <1>1, <1>3, <1>4, <1>5, Gives, StepOfOne

-----------------------------------------------------------------------------
\* The call that holds a lock may go on without touching it.
LEMMA Keeps ==
    ASSUME IInv, NEW c \in Call, call[c].pc \in Inside, UNCHANGED lock
    PROVE  /\ lock' \in [Group -> Call \cup {Free}] /\ lock'[call[c].group] = c
           /\ \A g \in Group : lock[g] \notin {c, Free} => lock'[g] = lock[g]
    BY DEF IInv, Shape, Holds

\* The fields of the record of a call.
LEMMA Fields == DOMAIN NoCall = {"op", "pc", "group", "on", "at", "moved", "frontier", "pass",
                                 "visited", "seen", "clean"}
    BY DEF NoCall
LEMMA HasFields == ASSUME IInv, NEW c \in Call PROVE DOMAIN call[c] = DOMAIN NoCall
    BY DEF IInv, Shape, Calls
LEMMA IsCall == ASSUME IInv PROVE call = [c \in Call |-> call[c]]
    BY DEF IInv, Shape, Calls

LEMMA StepShift ==
    ASSUME IInv, NEW c \in Call, LockShift(c) \/ Pass(c)
    PROVE  IInv'
<1>0. DOMAIN call[c] = DOMAIN NoCall /\ call[c].op = "shift" /\ Rows
    BY HasFields DEF LockShift, Pass, IInv, Shape
<1>1. CASE LockShift(c)
  <2>1. PICK t \in call[c].on :
          IF task[t].archived THEN Ended(c)
          ELSE /\ Taken(c)
               /\ call' = [call EXCEPT ![c].pc = "cascade", ![c].clean = TRUE, ![c].frontier = {t},
                                       ![c].moved = [x \in {t} |-> call[c].at]]
      BY <1>1 DEF LockShift
  <2>2. UNCHANGED <<task, deps, strayed>>
      BY <1>1 DEF LockShift
  <2>3. CASE task[t].archived
      BY <2>1, <2>2, <2>3, <1>0, Ends DEF Rows
  <2>4. CASE ~task[t].archived
    <3> DEFINE r == [call[c] EXCEPT !.pc = "cascade", !.clean = TRUE, !.frontier = {t},
                                    !.moved = [x \in {t} |-> call[c].at]]
    <3>1. call' = [call EXCEPT ![c] = r]
        BY <2>1, <2>4, IsCall
    <3>2. /\ DOMAIN r = DOMAIN NoCall /\ r.group = call[c].group /\ r.op = call[c].op
          /\ r.at = call[c].at /\ r.pc = "cascade"
        BY <1>0, Fields
    <3> HIDE DEF r
    <3>3. lock[call[c].group] = Free /\ Taken(c)
        BY <1>1, <2>1, <2>4 DEF LockShift, Locked
    <3>4. call'[c].pc = "cascade"
        BY <3>1, <3>2, IsCall
    <3> QED
        BY <3>1, <3>2, <3>3, <3>4, <2>2, Takes, GoesOn DEF Walked
  <2> QED
      BY <2>3, <2>4
<1>2. CASE Pass(c)
  <2>1. UNCHANGED <<task, deps, strayed>> /\ call[c].pc = "cascade"
      BY <1>2 DEF Pass
  <2>2. CASE call[c].pass >= MaxPasses
    <3>1. call' = [call EXCEPT ![c].pc = "failed"] /\ Release(c)
        BY <1>2, <2>2 DEF Pass
    <3> QED
        BY <3>1, <2>1, <1>0, Fails
  <2>3. CASE ~(call[c].pass >= MaxPasses)
    <3>1. UNCHANGED lock
        BY <1>2, <2>3 DEF Pass
    <3>2. PICK order \in SetToSeqs({e \in deps : e[1] \in call[c].frontier}) :
            LET to == FoldLeft(Push, [moved |-> call[c].moved, next |-> {}], order)
            IN  call' = [call EXCEPT ![c].moved = to.moved, ![c].frontier = to.next,
                                     ![c].pass = @ + 1,
                                     ![c].pc = IF to.next = {} THEN "write" ELSE "cascade"]
        BY <1>2, <2>3 DEF Pass
    <3> DEFINE to == FoldLeft(Push, [moved |-> call[c].moved, next |-> {}], order)
               r == [call[c] EXCEPT !.moved = to.moved, !.frontier = to.next, !.pass = @ + 1,
                                    !.pc = IF to.next = {} THEN "write" ELSE "cascade"]
    <3> HIDE DEF to
    <3>3. call' = [call EXCEPT ![c] = r]
        BY <3>2, IsCall DEF to
    <3>4. /\ DOMAIN r = DOMAIN NoCall /\ r.group = call[c].group /\ r.op = call[c].op
          /\ r.at = call[c].at /\ r.pc \in {"cascade", "write"}
        BY <1>0, Fields
    <3> HIDE DEF r
    <3>5. call'[c].pc \in {"cascade", "write"}
        BY <3>3, <3>4, IsCall
    <3>6. /\ lock' \in [Group -> Call \cup {Free}] /\ lock'[call[c].group] = c
          /\ \A g \in Group : lock[g] \notin {c, Free} => lock'[g] = lock[g]
        BY <2>1, <3>1, Keeps DEF Inside
    <3>7. ~strayed => Walked(c)'
        BY <3>5 DEF Walked
    <3> QED
        BY <2>1, <3>3, <3>4, <3>6, <3>7, GoesOn
  <2> QED
      BY <2>2, <2>3
<1> QED
    BY <1>1, <1>2

LEMMA StepCompact ==
    ASSUME IInv, NEW c \in Call, LockCompact(c) \/ Sweep(c)
    PROVE  IInv'
<1>0. DOMAIN call[c] = DOMAIN NoCall
    BY HasFields
<1>1. CASE LockCompact(c)
  <2> DEFINE r == [call[c] EXCEPT !.pc = "edges", !.clean = TRUE,
                     !.seen = Restrict(task, {t \in Task : task[t].project = call[c].group})]
  <2>1. call' = [call EXCEPT ![c] = r] /\ UNCHANGED <<task, deps, strayed>>
      BY <1>1, IsCall DEF LockCompact
  <2>2. /\ DOMAIN r = DOMAIN NoCall /\ r.group = call[c].group /\ r.op = call[c].op
        /\ r.at = call[c].at /\ r.pc = "edges"
      BY <1>0, Fields
  <2> HIDE DEF r
  <2>3. lock[call[c].group] = Free /\ Taken(c)
      BY <1>1 DEF LockCompact, Locked
  <2>4. call'[c].pc = "edges"
      BY <2>1, <2>2, IsCall
  <2> QED
      BY <2>1, <2>2, <2>3, <2>4, Takes, GoesOn DEF Walked
<1>2. CASE Sweep(c)
  <2> DEFINE edges == {e \in deps : e[1] \in DOMAIN call[c].seen}
             refused == (\E e \in edges : e[2] \notin DOMAIN call[c].seen) \/ ~Acyclic(edges)
  <2>1. /\ IF refused THEN call' = [call EXCEPT ![c].pc = "failed"] /\ Release(c)
           ELSE /\ call' = [call EXCEPT ![c].pc = "write", ![c].moved = Compacted(call[c].seen, edges)]
                /\ UNCHANGED lock
        /\ UNCHANGED <<task, deps, strayed>> /\ call[c].pc = "edges"
      BY <1>2 DEF Sweep
  <2> HIDE DEF refused
  <2>2. CASE refused
      BY <2>1, <2>2, Fails
  <2>3. CASE ~refused
    <3> DEFINE r == [call[c] EXCEPT !.pc = "write", !.moved = Compacted(call[c].seen, edges)]
    <3>1. call' = [call EXCEPT ![c] = r] /\ UNCHANGED lock
        BY <2>1, <2>3, IsCall
    <3>2. /\ DOMAIN r = DOMAIN NoCall /\ r.group = call[c].group /\ r.op = call[c].op
          /\ r.at = call[c].at /\ r.pc = "write"
        BY <1>0, Fields
    <3> HIDE DEF r
    <3>3. call'[c].pc = "write"
        BY <3>1, <3>2, IsCall
    <3>4. /\ lock' \in [Group -> Call \cup {Free}] /\ lock'[call[c].group] = c
          /\ \A g \in Group : lock[g] \notin {c, Free} => lock'[g] = lock[g]
        BY <2>1, <3>1, Keeps DEF Inside
    <3>5. ~strayed => Walked(c)'
        BY <3>3 DEF Walked
    <3> QED
        BY <2>1, <3>1, <3>2, <3>4, <3>5, GoesOn
  <2> QED
      BY <2>2, <2>3
<1> QED
    BY <1>1, <1>2

\* The walk of one addDependency keeps what it has visited closed but for its next level.
LEMMA StepAdd ==
    ASSUME IInv, NEW c \in Call, LockAdd(c) \/ Walk(c)
    PROVE  IInv'
<1>0. DOMAIN call[c] = DOMAIN NoCall /\ Rows /\ Pair(c)
    BY HasFields DEF IInv, Shape
<1>1. CASE LockAdd(c)
  <2> DEFINE r == [call[c] EXCEPT !.pc = "walk", !.frontier = {call[c].at[2]},
                                  !.visited = {call[c].at[2]}]
  <2>1. call' = [call EXCEPT ![c] = r] /\ UNCHANGED <<task, deps, strayed>> /\ call[c].op = "add"
      BY <1>1, IsCall DEF LockAdd, Walks
  <2>2. /\ DOMAIN r = DOMAIN NoCall /\ r.group = call[c].group /\ r.op = call[c].op
        /\ r.at = call[c].at /\ r.pc = "walk" /\ r.frontier = {call[c].at[2]}
        /\ r.visited = {call[c].at[2]}
      BY <1>0, Fields
  <2> HIDE DEF r
  <2>3. lock[call[c].group] = Free /\ Taken(c)
      BY <1>1 DEF LockAdd, Locked
  <2>4. call'[c] = r
      BY <2>1, IsCall
  <2>5. call[c].at[1] # call[c].at[2]
      BY <1>0, <2>1 DEF Pair
  <2>6. Walked(c)'
      BY <2>2, <2>4, <2>5 DEF Walked
  <2> QED
      BY <2>1, <2>2, <2>3, <2>6, Takes, GoesOn
<1>2. CASE Walk(c)
  <2> DEFINE found == Successors(call[c].frontier, deps)
             visited == call[c].visited \cup found
             new == found \ call[c].visited
             refused == call[c].at[1] \in found \/ Cardinality(visited) > MaxVisited
  <2>1. /\ IF refused THEN Ended(c)
           ELSE /\ call' = [call EXCEPT ![c].frontier = new, ![c].visited = visited,
                                        ![c].pc = IF new = {} THEN "insert" ELSE "walk"]
                /\ UNCHANGED lock
        /\ UNCHANGED <<task, deps, strayed>> /\ call[c].pc = "walk"
      BY <1>2 DEF Walk
  <2>2. CASE refused
      BY <2>1, <2>2, <1>0, Ends DEF Rows
  <2>3. CASE ~refused
    <3> DEFINE r == [call[c] EXCEPT !.frontier = new, !.visited = visited,
                                    !.pc = IF new = {} THEN "insert" ELSE "walk"]
    <3>1. call' = [call EXCEPT ![c] = r] /\ UNCHANGED lock
        BY <2>1, <2>3, IsCall
    <3>2. /\ DOMAIN r = DOMAIN NoCall /\ r.group = call[c].group /\ r.op = call[c].op
          /\ r.at = call[c].at /\ r.pc = (IF new = {} THEN "insert" ELSE "walk")
          /\ r.frontier = new /\ r.visited = visited
        BY <1>0, Fields
    <3> HIDE DEF r
    <3>3. call'[c] = r
        BY <3>1, IsCall
    <3>4. /\ lock' \in [Group -> Call \cup {Free}] /\ lock'[call[c].group] = c
          /\ \A g \in Group : lock[g] \notin {c, Free} => lock'[g] = lock[g]
        BY <2>1, <3>1, Keeps DEF Inside
    <3>5. ASSUME ~strayed PROVE Walked(c)'
      <4>1. /\ call[c].at[2] \in call[c].visited /\ call[c].at[1] \notin call[c].visited
            /\ \A e \in deps : e[1] \in call[c].visited \ call[c].frontier => e[2] \in call[c].visited
          BY <3>5, <2>1 DEF IInv, Walked
      <4>2. r.at[2] \in r.visited /\ r.at[1] \notin r.visited
          BY <4>1, <3>2, <2>3
      <4>3. r.pc = "insert" => r.frontier = {}
          BY <3>2
      <4>4. ASSUME NEW e \in deps, e[1] \in r.visited \ r.frontier PROVE e[2] \in r.visited
        <5>1. e[1] \in call[c].visited
            BY <4>4, <3>2
        <5>2. CASE e[1] \in call[c].frontier
          <6>1. e[2] \in found
              BY <5>2 DEF Successors
          <6> QED
              BY <6>1, <3>2
        <5>3. CASE e[1] \notin call[c].frontier
            BY <5>1, <5>3, <4>1, <3>2
        <5> QED
            BY <5>2, <5>3
      <4> QED
          BY <4>2, <4>3, <4>4, <3>3, <2>1 DEF Walked
    <3>6. call[c].op = "add"
        BY <1>0, <2>1 DEF Pair
    <3> QED
        BY <2>1, <3>1, <3>2, <3>4, <3>5, <3>6, GoesOn
  <2> QED
      BY <2>2, <2>3
<1> QED
    BY <1>1, <1>2

\* The one step that adds a dependency.  Its call holds the one lock there is, so no other
\* call is between its lock and its own insert.
LEMMA StepInsert ==
    ASSUME IInv, NEW c \in Call, Insert(c)
    PROVE  IInv'
<1> DEFINE p == call[c].at[1]  s == call[c].at[2]
<1>1. /\ call[c].pc = "insert" /\ deps' = deps \cup {call[c].at} /\ Ended(c)
      /\ UNCHANGED <<task, strayed>>
    BY DEF Insert
<1>2. call[c].op = "add" /\ call[c].at = <<p, s>> /\ p \in Task /\ s \in Task /\ Shape
    BY <1>1 DEF IInv, Pair
<1>3. call[c].group \in Group /\ lock[call[c].group] = c
    BY <1>1 DEF IInv, Shape, Calls, Holds, Inside
<1>4. Calls' /\ call'[c] = NoCall /\ \A d \in Call \ {c} : call'[d] = call[d]
  <2>1. NoCall.group \in Group
      BY DEF NoCall, Group
  <2> QED
      BY <1>1, <2>1, OneCall DEF Ended
<1>5. /\ lock' \in [Group -> Call \cup {Free}]
      /\ \A g \in Group : lock[g] \notin {c, Free} => lock'[g] = lock[g]
    BY <1>1, Gives DEF Ended
<1>6. Shape'
  <2>1. Rows' /\ lock' \in [Group -> Call \cup {Free}]
      BY <1>1, <1>2, <1>5 DEF Shape, Rows
  <2>2. deps' \subseteq Task \X Task
    <3>1. call[c].at \in Task \X Task
        BY <1>1 DEF IInv, Pair
    <3> QED
        BY <3>1, <1>1, <1>2 DEF Shape
  <2> QED
      BY <2>1, <2>2, <1>4 DEF Shape
<1>7. NoCall.pc = "idle" /\ NoCall.op = "none"
    BY DEF NoCall
<1>8. ASSUME NEW d \in Call PROVE Holds(d)' /\ Pair(d)'
  <2>1. CASE d = c
      BY <2>1, <1>4, <1>7 DEF Holds, Inside, Pair
  <2>2. CASE d # c
    <3>1. call'[d] = call[d] /\ Holds(d) /\ Pair(d) /\ call[d].group \in Group
        BY <2>2, <1>4 DEF IInv, Shape, Calls
    <3>2. Pair(d)'
        BY <3>1 DEF Pair
    <3>3. Holds(d)'
        BY <3>1, <2>2, <1>5, ScheduleAssumption DEF Holds
    <3> QED
        BY <3>2, <3>3
  <2> QED
      BY <2>1, <2>2
<1>9. ASSUME ~strayed PROVE OneGroup' /\ Acyclic(deps)' /\ \A d \in Call : Walked(d)'
  <2>1. OneGroup /\ Acyclic(deps) /\ \A d \in Call : Walked(d)
      BY <1>9 DEF IInv
  <2>2. Acyclic(deps')
    <3>1. /\ s \in call[c].visited /\ p \notin call[c].visited
          /\ \A e \in deps : e[1] \in call[c].visited => e[2] \in call[c].visited
        BY <1>1, <2>1 DEF Walked
    <3>2. Acyclic(deps \cup {<<p, s>>})
        BY <2>1, <3>1, ClosesNoLoop
    <3> QED
        BY <3>2, <1>1, <1>2
  <2>3. PICK g \in Group : /\ \A t \in Task : task[t].project = g
                           /\ \A d \in Call : call[d].op = "add" => call[d].group = g
      BY <2>1 DEF OneGroup
  <2>4. OneGroup'
    <3>1. \A d \in Call : call'[d].op = "add" => call'[d].group = g
        BY <2>3, <1>4, <1>7
    <3> QED
        BY <3>1, <2>3, <1>1 DEF OneGroup
  <2>5. ASSUME NEW d \in Call PROVE Walked(d)'
    <3>1. CASE d = c
        BY <3>1, <1>4, <1>7 DEF Walked
    <3>2. CASE d # c
      <4>1. call'[d] = call[d] /\ Pair(d) /\ Holds(d)
          BY <3>2, <1>4 DEF IInv
      <4>2. call[d].pc \notin {"walk", "insert"}
          BY <4>1, <3>2, <2>3, <1>2, <1>3 DEF Pair, Holds, Inside
      <4> QED
          BY <4>1, <4>2 DEF Walked
    <3> QED
        BY <3>1, <3>2
  <2> QED
      BY <2>2, <2>4, <2>5 DEF Acyclic
<1>10. strayed' = strayed
    BY <1>1
<1> HIDE DEF p, s
<1> QED
    BY <1>6, <1>8, <1>9, <1>10 DEF IInv

LEMMA StepEnd ==
    ASSUME IInv, NEW c \in Call, WriteMoved(c) \/ Answer(c) \/ Crash(c)
    PROVE  IInv'
<1>0. Rows
    BY DEF IInv, Shape
<1>1. CASE WriteMoved(c)
  <2>1. Ended(c) /\ UNCHANGED <<deps, strayed>>
      BY <1>1 DEF WriteMoved
  <2>2. task' = [t \in Task |->
                   IF t \in DOMAIN call[c].moved
                   THEN [task[t] EXCEPT !.start = call[c].moved[t].start, !.due = call[c].moved[t].due]
                   ELSE task[t]]
      BY <1>1 DEF WriteMoved
  <2>3. ASSUME NEW t \in Task
        PROVE  "project" \in DOMAIN task'[t] /\ task'[t].project = task[t].project
    <3>1. "project" \in DOMAIN task[t]
        BY <1>0 DEF Rows
    <3>2. CASE t \in DOMAIN call[c].moved
      <4>1. task'[t] = [task[t] EXCEPT !.start = call[c].moved[t].start, !.due = call[c].moved[t].due]
          BY <2>2, <3>2
      <4> QED
          BY <4>1, <3>1
    <3>3. CASE t \notin DOMAIN call[c].moved
        BY <2>2, <3>1, <3>3
    <3> QED
        BY <3>2, <3>3
  <2>4. task' = [t \in Task |-> task'[t]]
      BY <2>2
  <2>5. Rows'
      BY <2>3, <2>4, <1>0 DEF Rows
  <2> QED
      BY <2>1, <2>3, <2>5, Ends
<1>2. CASE Answer(c)
  <2>1. call' = [call EXCEPT ![c] = NoCall] /\ UNCHANGED <<task, deps, lock, strayed>>
      BY <1>2 DEF Answer
  <2>2. NoCall.group \in Group /\ NoCall.pc = "idle" /\ NoCall.op = "none"
      BY DEF NoCall, Group
  <2>3. Calls' /\ call'[c] = NoCall /\ \A d \in Call \ {c} : call'[d] = call[d]
      BY <2>1, <2>2, OneCall
  <2>4. Holds(c)' /\ Pair(c)' /\ Walked(c)'
      BY <2>2, <2>3 DEF Holds, Inside, Pair, Walked
  <2>5. Rows' /\ lock' \in [Group -> Call \cup {Free}]
      BY <2>1 DEF IInv, Shape, Rows
  <2> QED
      BY <2>1, <2>2, <2>3, <2>4, <2>5, StepOfOne
<1>3. CASE Crash(c)
  <2>1. Ended(c) /\ UNCHANGED <<task, deps, strayed>>
      BY <1>3 DEF Crash
  <2> QED
      BY <2>1, <1>0, Ends DEF Rows
<1> QED
    BY <1>1, <1>2, <1>3

LEMMA StepBegin ==
    ASSUME IInv, NEW c \in Call,
           \/ \E t \in Task, s \in Spans : BeginShift(c, t, s)
           \/ \E g \in Project : BeginCompact(c, g)
           \/ \E p, s \in Task : BeginAdd(c, p, s)
    PROVE  IInv'
<1>0. \A t \in Task : task[t].project \in Group
    BY DEF IInv, Shape, Rows
<1>1. ASSUME NEW t \in Task, NEW s \in Spans, BeginShift(c, t, s) PROVE IInv'
  <2>1. Began(c, "shift", task[t].project, {t}, Span(s[1], s[2])) /\ UNCHANGED <<task, deps, lock, strayed>>
      BY <1>1 DEF BeginShift
  <2> QED
      BY <2>1, <1>0, Starts
<1>2. ASSUME NEW g \in Project, BeginCompact(c, g) PROVE IInv'
  <2>1. Began(c, "compact", g, {}, <<>>) /\ UNCHANGED <<task, deps, lock, strayed>> /\ g \in Group
      BY <1>2 DEF BeginCompact, Group
  <2> QED
      BY <2>1, Starts
<1>3. ASSUME NEW p \in Task, NEW s \in Task, BeginAdd(c, p, s) PROVE IInv'
  <2>1. /\ Began(c, "add", task[p].project, {p, s}, <<p, s>>)
        /\ UNCHANGED <<task, deps, lock, strayed>> /\ p # s
      BY <1>3 DEF BeginAdd
  <2>2. <<p, s>> \in Task \X Task /\ <<p, s>>[1] # <<p, s>>[2]
      BY <2>1
  <2> QED
      BY <2>1, <2>2, <1>0, Starts
<1> QED
    BY <1>1, <1>2, <1>3

\* What takes no lock: it removes dependencies and edits rows, and of the calls in flight it
\* changes only what is noted of their views.
LEMMA StepUnlocked ==
    ASSUME IInv, Unlocked, deps' \subseteq deps, Rows',
           strayed' \/ (strayed' = strayed /\ \A t \in Task : task'[t].project = task[t].project)
    PROVE  IInv'
<1>1. UNCHANGED lock /\ call' = [c \in Call |-> [call[c] EXCEPT !.clean = call[c].op = "none"]]
    BY DEF Unlocked, Disturbed
<1>2. ASSUME NEW c \in Call
      PROVE  /\ DOMAIN call'[c] = DOMAIN call[c] /\ call'[c].op = call[c].op
             /\ call'[c].pc = call[c].pc /\ call'[c].group = call[c].group
             /\ call'[c].at = call[c].at /\ call'[c].frontier = call[c].frontier
             /\ call'[c].visited = call[c].visited
  <2>1. DOMAIN call[c] = DOMAIN NoCall
      BY HasFields
  <2>2. call'[c] = [call[c] EXCEPT !.clean = call[c].op = "none"]
      BY <1>1
  <2> QED
      BY <2>1, <2>2, Fields
<1>3. Calls'
  <2>1. call' = [c \in Call |-> call'[c]]
      BY <1>1
  <2> QED
      BY <2>1, <1>2 DEF IInv, Shape, Calls
<1>4. Shape'
    BY <1>1, <1>3 DEF IInv, Shape
<1>5. \A c \in Call : Holds(c)' /\ Pair(c)'
    BY <1>1, <1>2 DEF IInv, Holds, Pair
<1>6. ASSUME ~strayed' PROVE OneGroup' /\ Acyclic(deps)' /\ \A c \in Call : Walked(c)'
  <2>1. OneGroup /\ Acyclic(deps) /\ \A c \in Call : Walked(c)
      BY <1>6 DEF IInv
  <2>2. Acyclic(deps')
      BY <2>1, FewerEdges
  <2>3. ASSUME NEW c \in Call PROVE Walked(c)'
      BY <2>1, <1>2 DEF Walked
  <2>4. OneGroup'
      BY <2>1, <1>2, <1>6 DEF OneGroup
  <2> QED
      BY <2>2, <2>3, <2>4 DEF Acyclic
<1> QED
    BY <1>4, <1>5, <1>6 DEF IInv

LEMMA StepEdit ==
    ASSUME IInv,
           \/ \E e \in deps : RemoveDependency(e)
           \/ \E t \in Task :
                \/ \E s \in Spans \cup {<<NoDate, NoDate>>} : SetDates(t, s)
                \/ \E g \in Group : SetProject(t, g)
                \/ \E st \in Statuses : SetStatus(t, st)
                \/ SetArchived(t)
    PROVE  IInv'
<1>0. Rows /\ task = [x \in Task |-> task[x]]
    BY DEF IInv, Shape, Rows
<1>1. ASSUME NEW e \in deps, RemoveDependency(e) PROVE IInv'
    BY <1>0, <1>1, StepUnlocked DEF RemoveDependency, Rows
<1>2. ASSUME NEW t \in Task, NEW s, SetDates(t, s) PROVE IInv'
  <2>1. task' = [x \in Task |-> IF x = t THEN [task[t] EXCEPT !.start = s[1], !.due = s[2]] ELSE task[x]]
      BY <1>0, <1>2 DEF SetDates
  <2>2. "project" \in DOMAIN task'[t] /\ task'[t].project = task[t].project
      BY <2>1, <1>0 DEF Rows
  <2>3. Rows' /\ \A x \in Task : task'[x].project = task[x].project
      BY <2>1, <2>2, <1>0 DEF Rows
  <2> QED
      BY <1>2, <2>3, StepUnlocked DEF SetDates
<1>3. ASSUME NEW t \in Task, NEW g \in Group, SetProject(t, g) PROVE IInv'
  <2>1. task' = [x \in Task |-> IF x = t THEN [task[t] EXCEPT !.project = g] ELSE task[x]]
      BY <1>0, <1>3 DEF SetProject
  <2>2. "project" \in DOMAIN task'[t] /\ task'[t].project = g
      BY <2>1, <1>0 DEF Rows
  <2>3. Rows'
      BY <2>1, <2>2, <1>0 DEF Rows
  <2> QED
      BY <1>3, <2>3, StepUnlocked DEF SetProject
<1>4. ASSUME NEW t \in Task, NEW st, SetStatus(t, st) PROVE IInv'
  <2>1. task' = [x \in Task |-> IF x = t THEN [task[t] EXCEPT !.status = st] ELSE task[x]]
      BY <1>0, <1>4 DEF SetStatus
  <2>2. "project" \in DOMAIN task'[t] /\ task'[t].project = task[t].project
      BY <2>1, <1>0 DEF Rows
  <2>3. Rows' /\ \A x \in Task : task'[x].project = task[x].project
      BY <2>1, <2>2, <1>0 DEF Rows
  <2> QED
      BY <1>4, <2>3, StepUnlocked DEF SetStatus
<1>5. ASSUME NEW t \in Task, SetArchived(t) PROVE IInv'
  <2>1. task' = [x \in Task |-> IF x = t THEN [task[t] EXCEPT !.archived = ~@] ELSE task[x]]
      BY <1>0, <1>5 DEF SetArchived
  <2>2. "project" \in DOMAIN task'[t] /\ task'[t].project = task[t].project
      BY <2>1, <1>0 DEF Rows
  <2>3. Rows' /\ \A x \in Task : task'[x].project = task[x].project
      BY <2>1, <2>2, <1>0 DEF Rows
  <2> QED
      BY <1>5, <2>3, StepUnlocked DEF SetArchived
<1> QED
    BY <1>1, <1>2, <1>3, <1>4, <1>5

LEMMA StepIInv == IInv /\ [Next]_vars => IInv'
<1> SUFFICES ASSUME IInv, [Next]_vars PROVE IInv'
    OBVIOUS
<1>1. ASSUME NEW c \in Call, Step(c) PROVE IInv'
    BY <1>1, StepShift, StepCompact, StepAdd, StepInsert, StepEnd DEF Step
<1>2. CASE UNCHANGED vars
    BY <1>2 DEF vars, IInv, Shape, Rows, Calls, Holds, Pair, OneGroup, Acyclic, Walked
<1> QED
    BY <1>1, <1>2, StepBegin, StepEnd, StepEdit DEF Next

LEMMA Invariant == Spec => []IInv
<1>1. Init => IInv
    BY InitIInv
<1>2. IInv /\ [Next]_vars => IInv'
    BY StepIInv
<1> QED
    BY <1>1, <1>2, PTL DEF Spec
-----------------------------------------------------------------------------
\* The advisory lock does what it is for: of the calls on one project that are between
\* pg_advisory_xact_lock and the end of their transaction there is at most one
\* (pipelines.ts 80-99), whichever tasks have changed their project meanwhile.
OneInside ==
    \A c, d \in Call : call[c].pc \in Inside /\ call[d].pc \in Inside /\ c # d =>
        call[c].group # call[d].group
THEOREM LockExcludes == Spec => []OneInside
<1>1. IInv => OneInside
    BY DEF IInv, Holds, OneInside
<1> QED
    BY <1>1, Invariant, PTL

\* The dependencies have no cycle as long as no task has changed its project (tasks.ts
\* 622-704): for any tasks and any number of calls, edits and removals between the levels.
THEOREM NoCycles == Spec => []CyclesNeedAMove
<1>1. IInv => CyclesNeedAMove
    BY DEF IInv, CyclesNeedAMove
<1> QED
    BY <1>1, Invariant, PTL
-----------------------------------------------------------------------------
(* What the operators of the model return. *)

\* The first of some numbers.
LEMMA First ==
    ASSUME NEW us, us \subseteq Nat, us # {}
    PROVE  \E u \in us : \A v \in us : u <= v
<1> DEFINE less == OpToRel(<, Nat)
<1>1. IsWellFoundedOn(less, Nat)
    BY NatLessThanWellFounded
<1>2. \A u, v \in Nat : v < u => <<v, u>> \in less
    BY DEF OpToRel
<1> HIDE DEF less
<1>3. PICK u \in us : \A v \in us : <<v, u>> \notin less
    BY <1>1, WFMin
<1>4. ASSUME NEW v \in us PROVE u <= v
    <2>1. u \in Nat /\ v \in Nat /\ ~(v < u)
        BY <1>2, <1>3
    <2> QED
        BY <2>1
<1> QED
    BY <1>4

\* Whatever holds of 0, and of each number after one it holds of, holds of all.
LEMMA UpTo ==
    ASSUME NEW n \in Nat, NEW good, 0 \in good, \A k \in 0..(n - 1) : k \in good => k + 1 \in good
    PROVE  \A k \in 0..n : k \in good
<1> DEFINE bad == {k \in 0..n : k \notin good}
<1> SUFFICES bad = {}
    OBVIOUS
<1> SUFFICES ASSUME bad # {} PROVE FALSE
    OBVIOUS
<1>0. bad \subseteq Nat
    OBVIOUS
<1> HIDE DEF bad
<1>1. PICK u \in bad : \A v \in bad : u <= v
    BY <1>0, First
<1> USE DEF bad
<1>2. u # 0 /\ u \in 0..n
    BY <1>1
<1>3. u - 1 \in 0..(n - 1) /\ (u - 1) + 1 = u /\ u - 1 \notin bad
    BY <1>1, <1>2
<1> QED
    BY <1>1, <1>2, <1>3

LEMMA LastOf ==
    ASSUME NEW m \in Nat
    PROVE  /\ \A s \in SUBSET (1..(m + 1)) : m + 1 \in s => Max(s) = m + 1 /\ s \ {m + 1} \in SUBSET (1..m)
           /\ \A s \in SUBSET (1..(m + 1)) : m + 1 \notin s => s \in SUBSET (1..m)
<1>1. ASSUME NEW s \in SUBSET (1..(m + 1)), m + 1 \in s PROVE Max(s) = m + 1
  <2> DEFINE x == Max(s)
  <2>1. \A y \in s : m + 1 >= y
      OBVIOUS
  <2>2. \E z \in s : \A y \in s : z >= y
      BY <1>1, <2>1
  <2>3. x \in s /\ \A y \in s : x >= y
      BY <2>2 DEF Max
  <2> HIDE DEF x
  <2>4. x \in 1..(m + 1) /\ x >= m + 1
      BY <1>1, <2>3
  <2> QED
      BY <2>4 DEF x
<1>2. ASSUME NEW s \in SUBSET (1..(m + 1)) PROVE s \ {m + 1} \in SUBSET (1..m)
    OBVIOUS
<1> QED
    BY <1>1, <1>2

\* The fold over the edges of a pass, from the first to the last: what holds of what it
\* starts from and is kept by each edge in its turn holds of what it ends with.
LEMMA FoldKeeps ==
    ASSUME NEW n \in Nat, NEW order, DOMAIN order = 1..n, NEW base, NEW Q, base \in Q[0],
           \A k \in 0..(n - 1) : \A acc \in Q[k] : Push(acc, order[k + 1]) \in Q[k + 1]
    PROVE  FoldLeft(Push, base, order) \in Q[n]
<1> DEFINE Body(g, s) == IF s = {} THEN base ELSE Push(g[s \ {Max(s)}], order[Max(s)])
           Folds(g, m) == g = [s \in SUBSET (1..m) |-> Body(g, s)]
           good == {m \in 0..n : \E g : Folds(g, m)}
<1> HIDE DEF good
<1>1. 0 \in good
  <2>1. Folds([s \in SUBSET (1..0) |-> base], 0)
      BY SMT
  <2> QED
      BY <2>1 DEF good
<1>2. ASSUME NEW m \in 0..(n - 1), m \in good PROVE m + 1 \in good
  <2>1. PICK g : Folds(g, m)
      BY <1>2 DEF good
  <2> DEFINE h == [s \in SUBSET (1..(m + 1)) |-> IF m + 1 \in s THEN Push(g[s \ {m + 1}], order[m + 1]) ELSE g[s]]
  <2>2. m \in Nat
      OBVIOUS
  <2>3. ASSUME NEW s \in SUBSET (1..m) PROVE h[s] = g[s]
    <3>1. s \in SUBSET (1..(m + 1)) /\ m + 1 \notin s
        BY <2>2
    <3> QED
        BY <3>1
  <2>4. ASSUME NEW s \in SUBSET (1..(m + 1)) PROVE h[s] = Body(h, s)
    <3>1. CASE m + 1 \in s
      <4>1. Max(s) = m + 1 /\ s \ {m + 1} \in SUBSET (1..m)
          BY <3>1, <2>2, LastOf
      <4>2. h[s] = Push(g[s \ {m + 1}], order[m + 1])
          BY <3>1
      <4>3. h[s \ {m + 1}] = g[s \ {m + 1}]
          BY <4>1, <2>3
      <4> HIDE DEF h
      <4> QED
          BY <3>1, <4>1, <4>2, <4>3
    <3>2. CASE m + 1 \notin s
      <4>1. s \in SUBSET (1..m)
          BY <3>2, <2>2, LastOf
      <4>2. h[s] = g[s] /\ g[s] = Body(g, s)
          BY <2>1, <2>3, <4>1
      <4>3. s \ {Max(s)} \in SUBSET (1..m)
          BY <4>1
      <4>4. h[s \ {Max(s)}] = g[s \ {Max(s)}]
          BY <4>3, <2>3
      <4> HIDE DEF h
      <4> QED
          BY <4>2, <4>4
    <3> QED
        BY <3>1, <3>2
  <2>5. Folds(h, m + 1)
      BY <2>4
  <2>6. m + 1 \in 0..n
      OBVIOUS
  <2> QED
      BY <2>5, <2>6 DEF good
<1>3. \E g : Folds(g, n)
  <2>1. \A m \in 0..n : m \in good
      BY <1>1, <1>2, UpTo
  <2>2. n \in good
      BY <2>1
  <2> QED
      BY <2>2 DEF good
<1> DEFINE iter == CHOOSE g : Folds(g, n)
<1>4. Folds(iter, n)
    BY <1>3
<1>5. FoldLeft(Push, base, order) = iter[1..n]
    BY DEF FoldLeft, MapThenFoldSet
<1> HIDE DEF iter
<1> DEFINE kept == {k \in 0..n : iter[1..k] \in Q[k]}
<1>6. 0 \in kept
  <2>1. 1..0 = {} /\ {} \in SUBSET (1..n)
      OBVIOUS
  <2> QED
      BY <1>4, <2>1
<1>7. ASSUME NEW k \in 0..(n - 1), k \in kept PROVE k + 1 \in kept
  <2>1. /\ 1..(k + 1) \in SUBSET (1..(k + 1)) /\ k + 1 \in 1..(k + 1) /\ k \in Nat
        /\ (1..(k + 1)) \ {k + 1} = 1..k /\ 1..(k + 1) \in SUBSET (1..n)
      OBVIOUS
  <2>2. Max(1..(k + 1)) = k + 1
      BY <2>1, LastOf
  <2>3. iter[1..(k + 1)] = Push(iter[1..k], order[k + 1])
    <3>1. iter[1..(k + 1)] = Body(iter, 1..(k + 1))
        BY <1>4, <2>1
    <3>2. 1..(k + 1) # {}
        BY <2>1
    <3> QED
        BY <3>1, <3>2, <2>1, <2>2
  <2> QED
      BY <2>3, <1>7
<1> HIDE DEF kept
<1>8. n \in kept
    BY <1>6, <1>7, UpTo
<1> USE DEF kept
<1> QED
    BY <1>5, <1>8

LEMMA NotBelow == \A k \in Nat : ~(k <= k - 1)
    OBVIOUS

\* A step that looks at what the predecessors of a task have been given, and no further.
LooksBack(step, D, V, edges) ==
    /\ D \in SUBSET Task /\ V # {} /\ step \in [D -> [[D -> V] -> V]]
    /\ \A t \in D, g, h \in [D -> V] :
         (\A e \in edges : e[2] = t /\ e[1] \in D => g[e[1]] = h[e[1]]) => step[t][g] = step[t][h]
Solved(step, D, V) == \E f \in [D -> V] : \A t \in D : f[t] = step[t][f]

\* On a graph without cycles such a step defines a function.
LEMMA Recursion ==
    ASSUME NEW D, NEW V, NEW step, NEW edges, Acyclic(edges), LooksBack(step, D, V, edges)
    PROVE  Solved(step, D, V)
<1>0. D \in SUBSET Task /\ V # {} /\ step \in [D -> [[D -> V] -> V]]
    BY DEF LooksBack
<1> SUFFICES \E f \in [D -> V] : \A t \in D : f[t] = step[t][f]
    BY DEF Solved
<1> USE <1>0
<1> DEFINE Solves(f, G) ==
             /\ \A t \in G : f[t] = step[t][f]
             /\ \A e \in edges : e[2] \in G /\ e[1] \in D => e[1] \in G
           Solvable(G) == \E f \in [D -> V] : Solves(f, G)
           sizes == {Cardinality(D \ G) : G \in {X \in SUBSET D : Solvable(X)}}
<1>1. IsFiniteSet(D) /\ \A G \in SUBSET D : IsFiniteSet(D \ G)
    BY ScheduleAssumption, FS_Subset
<1>2. sizes \subseteq Nat /\ sizes # {}
  <2>1. \A G \in SUBSET D : Cardinality(D \ G) \in Nat
      BY <1>1, FS_CardinalityType
  <2>2. PICK v \in V : TRUE
      OBVIOUS
  <2>3. [t \in D |-> v] \in [D -> V] /\ Solves([t \in D |-> v], {})
      OBVIOUS
  <2>4. Solvable({})
      BY <2>3
  <2> HIDE DEF Solvable
  <2>5. Cardinality(D \ {}) \in sizes
      BY <2>4
  <2>6. ASSUME NEW n \in sizes PROVE n \in Nat
    <3>1. PICK G \in SUBSET D : n = Cardinality(D \ G)
        OBVIOUS
    <3> QED
        BY <2>1, <3>1
  <2> QED
      BY <2>5, <2>6
<1> HIDE DEF sizes
<1>3. PICK n \in sizes : \A m \in sizes : n <= m
    BY <1>2, First
<1>4. PICK G \in SUBSET D : Solvable(G) /\ n = Cardinality(D \ G)
    BY DEF sizes
<1>5. PICK f \in [D -> V] : Solves(f, G)
    BY <1>4
<1>6. SUFFICES ASSUME D \ G # {} PROVE FALSE
    BY <1>5
<1>7. PICK t \in D \ G : \A e \in edges : e[2] = t => e[1] \notin D \ G
    BY <1>6 DEF Acyclic
<1> DEFINE h == [f EXCEPT ![t] = step[t][f]]
           H == G \cup {t}
<1>8. h \in [D -> V] /\ h[t] = step[t][f] /\ \A u \in D \ {t} : h[u] = f[u]
    OBVIOUS
<1> HIDE DEF h
<1>9. Solves(h, H)
  <2>1. ASSUME NEW e \in edges, e[2] \in H, e[1] \in D PROVE e[1] \in G
      BY <1>5, <1>7, <2>1
  <2>2. ASSUME NEW u \in H PROVE step[u][h] = step[u][f]
    <3>1. \A e \in edges : e[2] = u /\ e[1] \in D => h[e[1]] = f[e[1]]
        BY <1>7, <1>8, <2>1
    <3> QED
        BY <3>1, <1>8 DEF LooksBack
  <2>3. ASSUME NEW u \in H PROVE h[u] = step[u][h]
      BY <2>2, <1>5, <1>8
  <2> QED
      BY <2>1, <2>3
<1>10. Cardinality(D \ H) \in sizes
    BY <1>8, <1>9 DEF sizes
<1>11. Cardinality(D \ H) = n - 1
  <2> DEFINE X == D \ G
  <2>1. D \ H = X \ {t} /\ t \in X /\ IsFiniteSet(X) /\ n = Cardinality(X)
      BY <1>1, <1>4
  <2> HIDE DEF X
  <2>2. Cardinality(X \ {t}) = Cardinality(X) - 1
      BY <2>1, FS_RemoveElement
  <2> QED
      BY <2>1, <2>2
<1>12. n \in Nat /\ n <= n - 1
    BY <1>2, <1>3, <1>10, <1>11
<1> QED
    BY <1>12, NotBelow
-----------------------------------------------------------------------------
(* Types *)

PcType(r) ==
    /\ r.pc = "cascade" => r.op = "shift" /\ r.frontier \subseteq DOMAIN r.moved
    /\ r.pc \in {"walk", "insert"} => r.op = "add"
    /\ r.pc = "write" => r.op \in {"shift", "compact"}
Cascading(c) == PcType(call[c])
TypeInv == TypeOK /\ \A c \in Call : Cascading(c)


\* Schedules.
LEMMA NoneOf == ASSUME NEW S PROVE OfSome(<<>>, S)
<1>1. DOMAIN <<>> = {}
    OBVIOUS
<1>2. <<>> \in [{} -> S]
    OBVIOUS
<1> QED
    BY <1>1, <1>2 DEF OfSome

LEMMA NoCallType == CallType(NoCall)
<1>1. OfSome(<<>>, Dates) /\ OfSome(<<>>, TaskRow)
    BY NoneOf
<1> QED
    BY <1>1, ScheduleAssumption DEF CallType, NoCall, Group

\* A step that changes the record of one call.
LEMMA OnlyCall ==
    ASSUME TypeInv, NEW c \in Call, NEW r, call' = [call EXCEPT ![c] = r]
    PROVE  call'[c] = r /\ \A d \in Call \ {c} : call'[d] = call[d]
    BY DEF TypeInv, TypeOK
LEMMA OneCallType ==
    ASSUME TypeInv, NEW c \in Call, NEW r, call' = [call EXCEPT ![c] = r], CallType(r),
           PcType(r)
    PROVE  call' = [d \in Call |-> call'[d]] /\ \A d \in Call : CallType(call'[d]) /\ Cascading(d)'
<1>1. call = [d \in Call |-> call[d]]
    BY DEF TypeInv, TypeOK
<1>2. call' = [d \in Call |-> IF d = c THEN r ELSE call[d]]
    BY <1>1
<1>3. ASSUME NEW d \in Call PROVE CallType(call'[d]) /\ Cascading(d)'
  <2>1. CASE d = c
      BY <2>1, <1>2 DEF Cascading
  <2>2. CASE d # c
    <3>1. call'[d] = call[d] /\ CallType(call[d]) /\ Cascading(d)
        BY <2>2, <1>2 DEF TypeInv, TypeOK
    <3> QED
        BY <3>1 DEF Cascading
  <2> QED
      BY <2>1, <2>2
<1> QED
    BY <1>2, <1>3
LEMMA TakenType ==
    ASSUME TypeInv, NEW c \in Call, Taken(c) \/ Release(c) \/ UNCHANGED lock
    PROVE  lock' \in [Group -> Call \cup {Free}]
    BY DEF TypeInv, TypeOK, Taken, Release

\* A push makes dates of dates.
LEMMA PushType ==
    ASSUME TypeInv, NEW acc, OfSome(acc.moved, Dates), acc.next \subseteq DOMAIN acc.moved,
           NEW e \in deps, e[1] \in DOMAIN acc.moved
    PROVE  LET to == Push(acc, e)
           IN  /\ OfSome(to.moved, Dates) /\ to.next \subseteq DOMAIN to.moved
               /\ DOMAIN acc.moved \subseteq DOMAIN to.moved
<1> DEFINE row == task[e[2]]
           now == IF e[2] \in DOMAIN acc.moved THEN acc.moved[e[2]] ELSE SpanOf(row)
           due == acc.moved[e[1]].due
           to == [moved |-> [x \in DOMAIN acc.moved \cup {e[2]} |->
                               IF x = e[2] THEN Span(due, due + Length(now)) ELSE acc.moved[x]],
                  next  |-> acc.next \cup {e[2]}]
<1>1. e[2] \in Task /\ row \in TaskRow
    BY DEF TypeInv, TypeOK
<1>2. CASE Dated(row)
  <2>1. now \in Dates
    <3>1. CASE e[2] \in DOMAIN acc.moved
        BY <3>1 DEF OfSome
    <3>2. CASE e[2] \notin DOMAIN acc.moved
        BY <1>1, <1>2, <3>2 DEF Dated, TaskRow, Day, SpanOf, Span, Dates
    <3> QED
        BY <3>1, <3>2
  <2>2. due \in Int
      BY DEF OfSome, Dates
  <2> HIDE DEF now, due
  <2>3. Span(due, due + Length(now)) \in Dates
      BY <2>1, <2>2 DEF Span, Length, Dates
  <2>4. OfSome(to.moved, Dates)
      BY <2>3, <1>1 DEF OfSome
  <2>5. to.next \subseteq DOMAIN to.moved /\ DOMAIN acc.moved \subseteq DOMAIN to.moved
      OBVIOUS
  <2>6. Push(acc, e) \in {acc, to}
      BY DEF Push, now, due
  <2> HIDE DEF to
  <2> QED
      BY <2>4, <2>5, <2>6
<1>3. CASE ~Dated(row)
    BY <1>3 DEF Push
<1> QED
    BY <1>2, <1>3

\* A finite set has an element that none of it comes before.
LEMMA Extreme ==
    ASSUME NEW T, IsFiniteSet(T), T # {}, NEW before,
           \A x \in T : <<x, x>> \notin before,
           \A x, y, z \in T : <<x, y>> \in before /\ <<y, z>> \in before => <<x, z>> \in before
    PROVE  \E x \in T : \A y \in T : <<y, x>> \notin before
<1> DEFINE less(x) == {y \in T : <<y, x>> \in before}
           sizes == {Cardinality(less(x)) : x \in T}
<1>1. \A x \in T : IsFiniteSet(less(x)) /\ Cardinality(less(x)) \in Nat
    BY FS_Subset, FS_CardinalityType
<1>2. sizes \subseteq Nat /\ sizes # {}
  <2> HIDE DEF less
  <2> QED
      BY <1>1
<1> HIDE DEF sizes
<1>3. PICK n \in sizes : \A m \in sizes : n <= m
    BY <1>2, First
<1>4. PICK x \in T : n = Cardinality(less(x))
    BY DEF sizes
<1>5. ASSUME NEW y \in T, <<y, x>> \in before PROVE FALSE
  <2>1. less(y) \in SUBSET less(x) /\ y \in less(x) /\ y \notin less(y)
      BY <1>5
  <2>2. /\ IsFiniteSet(less(x)) /\ Cardinality(less(y)) <= Cardinality(less(x))
        /\ Cardinality(less(y)) # Cardinality(less(x))
    <3> DEFINE X == less(x)  Y == less(y)
    <3>1. IsFiniteSet(X) /\ Y \in SUBSET X /\ X # Y
        BY <1>1, <2>1
    <3> HIDE DEF X, Y
    <3>2. Cardinality(Y) <= Cardinality(X) /\ Cardinality(X) # Cardinality(Y)
        BY <3>1, FS_Subset
    <3> QED
        BY <3>1, <3>2 DEF X, Y
  <2> DEFINE m == Cardinality(less(y))
  <2>3. m \in sizes
      BY DEF sizes
  <2>4. m \in Nat /\ n \in Nat /\ m <= n /\ m # n
      BY <1>1, <1>4, <2>2
  <2> HIDE DEF m
  <2>5. n <= m
      BY <1>3, <2>3
  <2> QED
      BY <2>4, <2>5
<1> QED
    BY <1>5

LEMMA MaxOf ==
    ASSUME NEW T, T \subseteq Int, T # {}, IsFiniteSet(T)
    PROVE  Max(T) \in T /\ \A y \in T : y <= Max(T)
<1> DEFINE above == {p \in Int \X Int : p[1] > p[2]}
<1>1. \A x, y \in Int : <<x, y>> \in above <=> x > y
    OBVIOUS
<1> HIDE DEF above
<1>2. \A x \in T : <<x, x>> \notin above
    BY <1>1
<1>3. \A x, y, z \in T : <<x, y>> \in above /\ <<y, z>> \in above => <<x, z>> \in above
    BY <1>1
<1>4. PICK x \in T : \A y \in T : <<y, x>> \notin above
    BY <1>2, <1>3, Extreme
<1>5. ASSUME NEW y \in T PROVE x >= y
  <2>1. ~(y > x) /\ x \in Int /\ y \in Int
      BY <1>1, <1>4
  <2> QED
      BY <2>1
<1>6. Max(T) \in T /\ \A y \in T : Max(T) >= y
    BY <1>5 DEF Max
<1> QED
    BY <1>6
LEMMA MinOf ==
    ASSUME NEW T, T \subseteq Int, T # {}, IsFiniteSet(T)
    PROVE  Min(T) \in T
<1> DEFINE below == {p \in Int \X Int : p[1] < p[2]}
<1>1. \A x, y \in Int : <<x, y>> \in below <=> x < y
    OBVIOUS
<1> HIDE DEF below
<1>2. \A x \in T : <<x, x>> \notin below
    BY <1>1
<1>3. \A x, y, z \in T : <<x, y>> \in below /\ <<y, z>> \in below => <<x, z>> \in below
    BY <1>1
<1>4. PICK x \in T : \A y \in T : <<y, x>> \notin below
    BY <1>2, <1>3, Extreme
<1>5. ASSUME NEW y \in T PROVE x <= y
  <2>1. ~(y < x) /\ x \in Int /\ y \in Int
      BY <1>1, <1>4
  <2> QED
      BY <2>1
<1> QED
    BY <1>5 DEF Min

\* The values a function has on finitely many arguments are finitely many.
LEMMA Images ==
    ASSUME NEW S, IsFiniteSet(S), NEW f
    PROVE  IsFiniteSet({f[x] : x \in S})
<1> DEFINE T == {f[x] : x \in S}
           g == [x \in S |-> f[x]]
<1>1. g \in Surjection(S, T)
    BY DEF Surjection
<1> HIDE DEF g, T
<1>2. IsFiniteSet(T)
    BY <1>1, FS_Surjection
<1> QED
    BY <1>2 DEF T

\* Where a row goes.
Spot == [start : Day, due : Day]
LEMMA SettlesType ==
    ASSUME NEW row \in TaskRow, NEW dues, dues \subseteq Int, IsFiniteSet(dues), NEW floor,
           Dated(row) => floor \in Int
    PROVE  /\ Settles(row, dues, floor) \in Spot
           /\ Movable(row) => Settles(row, dues, floor) \in Dates
<1>1. CASE ~Movable(row)
    BY <1>1 DEF Settles, SpanOf, Span, Spot, TaskRow
<1>2. CASE Movable(row)
  <2>1. row.start \in Int /\ row.due \in Int /\ floor \in Int /\ Dated(row)
      BY <1>2 DEF Movable, Dated, TaskRow, Day
  <2>2. dues # {} => Later(Max(dues), Today) \in Int
      BY MaxOf, ScheduleAssumption DEF Later
  <2>3. \A day \in Int : Span(day, day + Length(row)) \in Dates
      BY <2>1 DEF Span, Length, Dates
  <2>4. SpanOf(row) \in Dates
      BY <2>1 DEF SpanOf, Span, Dates
  <2>5. Settles(row, dues, floor) \in Dates
      BY <1>2, <2>1, <2>2, <2>3, <2>4 DEF Settles
  <2>6. Dates \subseteq Spot
      BY DEF Dates, Spot, Day
  <2> QED
      BY <2>5, <2>6
<1> QED
    BY <1>1, <1>2

\* The days that the predecessors of a task end on.
Dues(f, t, edges) == {f[p].due : p \in Preds(t, edges)} \ {NoDate}
LEMMA DuesType ==
    ASSUME NEW edges, edges \subseteq Task \X Task, NEW t, NEW f
    PROVE  /\ Preds(t, edges) \subseteq Task /\ IsFiniteSet(Preds(t, edges))
           /\ IsFiniteSet(Dues(f, t, edges))
<1>1. Preds(t, edges) \subseteq Task
    BY DEF Preds
<1>2. IsFiniteSet(Preds(t, edges))
    BY <1>1, ScheduleAssumption, FS_Subset
<1> DEFINE g == [p \in Preds(t, edges) |-> f[p].due]
           T == {f[p].due : p \in Preds(t, edges)}
<1>3. T = {g[p] : p \in Preds(t, edges)}
    OBVIOUS
<1> HIDE DEF g
<1>4. IsFiniteSet(T)
  <2>1. IsFiniteSet({g[p] : p \in Preds(t, edges)})
      BY <1>2, Images
  <2> QED
      BY <2>1, <1>3
<1> HIDE DEF T
<1>5. IsFiniteSet(T \ {NoDate})
    BY <1>4, FS_Subset
<1> QED
    BY <1>1, <1>2, <1>5 DEF T, Dues

IsSettled(f, seen, edges, floor) ==
    f = [t \in DOMAIN seen |-> Settles(seen[t], Dues(f, t, edges), floor)]

\* What a sweep may begin with, and a day for what has no predecessor with dates.
Sweepable(D, seen, edges) ==
    /\ D \in SUBSET Task /\ seen \in [D -> TaskRow]
    /\ edges \subseteq D \X D /\ Acyclic(edges)
IsFloor(floor, D, seen) == \A t \in D : Dated(seen[t]) => floor \in Int

LEMMA SettledExists ==
    ASSUME NEW D, NEW seen, NEW edges, Sweepable(D, seen, edges), NEW floor, IsFloor(floor, D, seen)
    PROVE  \E f : IsSettled(f, seen, edges, floor)
<1> USE DEF Sweepable, IsFloor
<1> DEFINE to(f, t) == Settles(seen[t], Dues(f, t, edges), floor)
           step == [t \in D |-> [f \in [D -> Spot] |-> to(f, t)]]
<1>1. ASSUME NEW t \in D PROVE Preds(t, edges) \subseteq D /\ seen[t] \in TaskRow
    BY DEF Preds
<1>2. ASSUME NEW t \in D, NEW f \in [D -> Spot] PROVE to(f, t) \in Spot
  <2> DEFINE dues == Dues(f, t, edges)
  <2>1. \A p \in Preds(t, edges) : f[p].due \in Day
      BY <1>1 DEF Spot
  <2>2. dues \subseteq Int
      BY <2>1 DEF Day, Dues
  <2>3. IsFiniteSet(dues)
    <3>1. edges \subseteq Task \X Task
        OBVIOUS
    <3> QED
        BY <3>1, DuesType
  <2> HIDE DEF dues
  <2>4. Settles(seen[t], dues, floor) \in Spot
      BY <1>1, <2>2, <2>3, SettlesType
  <2> QED
      BY <2>4 DEF dues
<1>3. ASSUME NEW t \in D, NEW g \in [D -> Spot], NEW h \in [D -> Spot],
             \A e \in edges : e[2] = t /\ e[1] \in D => g[e[1]] = h[e[1]]
      PROVE  to(g, t) = to(h, t)
  <2>1. \A p \in Preds(t, edges) : g[p] = h[p]
      BY <1>1, <1>3 DEF Preds
  <2>2. {g[p].due : p \in Preds(t, edges)} = {h[p].due : p \in Preds(t, edges)}
      BY <2>1
  <2>3. Dues(g, t, edges) = Dues(h, t, edges)
      BY <2>2 DEF Dues
  <2> QED
      BY <2>3
<1> HIDE DEF to
<1>4. /\ step \in [D -> [[D -> Spot] -> Spot]]
      /\ \A t \in D, f \in [D -> Spot] : step[t][f] = to(f, t)
    BY <1>2
<1>5. Spot # {}
  <2>1. [start |-> NoDate, due |-> NoDate] \in Spot
      BY DEF Spot, Day
  <2> QED
      BY <2>1
<1>6. LooksBack(step, D, Spot, edges)
    BY <1>3, <1>4, <1>5 DEF LooksBack
<1> HIDE DEF step
<1>7. PICK f \in [D -> Spot] : \A t \in D : f[t] = step[t][f]
    BY <1>6, Recursion DEF Solved
<1>8. f = [t \in D |-> to(f, t)]
    BY <1>4, <1>7
<1> QED
    BY <1>8 DEF to, IsSettled

\* What is settled is made of days, and of dates where the task is movable.
LEMMA SettledType ==
    ASSUME NEW D, NEW seen, NEW edges, Sweepable(D, seen, edges), NEW floor, IsFloor(floor, D, seen),
           NEW f, IsSettled(f, seen, edges, floor), NEW u \in D
    PROVE  /\ f[u] \in Spot /\ (Movable(seen[u]) => f[u] \in Dates)
           /\ f[u] = Settles(seen[u], Dues(f, u, edges), floor)
           /\ Dues(f, u, edges) \subseteq Int /\ IsFiniteSet(Dues(f, u, edges))
<1> USE DEF Sweepable, IsFloor
<1>1. \A t \in D : f[t] = Settles(seen[t], Dues(f, t, edges), floor)
    BY DEF IsSettled, Dues
<1>2. edges \subseteq Task \X Task
    OBVIOUS
<1>3. \A t \in D : IsFiniteSet(Dues(f, t, edges))
    BY <1>2, DuesType
<1>4. ASSUME NEW t \in D, \A p \in Preds(t, edges) : f[p] \in Spot
      PROVE  Dues(f, t, edges) \subseteq Int /\ f[t] \in Spot /\ (Movable(seen[t]) => f[t] \in Dates)
  <2>1. Dues(f, t, edges) \subseteq Int
      BY <1>4 DEF Dues, Spot, Day
  <2>2. seen[t] \in TaskRow
      OBVIOUS
  <2> QED
      BY <1>1, <1>3, <2>1, <2>2, SettlesType
<1>5. \A t \in D : f[t] \in Spot
  <2> DEFINE bad == {t \in D : f[t] \notin Spot}
  <2> SUFFICES ASSUME bad # {} PROVE FALSE
      OBVIOUS
  <2>1. PICK t \in bad : \A e \in edges : e[2] = t => e[1] \notin bad
      BY DEF Acyclic
  <2>2. \A p \in Preds(t, edges) : f[p] \in Spot
      BY <2>1 DEF Preds
  <2> QED
      BY <1>4, <2>1, <2>2
<1>6. ASSUME NEW t \in D PROVE \A p \in Preds(t, edges) : f[p] \in Spot
    BY <1>5 DEF Preds
<1> QED
    BY <1>1, <1>3, <1>4, <1>5, <1>6

\* The floor is a date as soon as there is a task with dates.
LEMMA FloorIsDay ==
    ASSUME NEW D \in SUBSET Task, NEW seen \in [D -> TaskRow], NEW t \in D, Dated(seen[t])
    PROVE  Floor(seen) \in Int
<1> DEFINE frozen == {seen[x].start : x \in {y \in DOMAIN seen : Dated(seen[y]) /\ Frozen(seen[y])}}
           all == {seen[x].start : x \in {y \in DOMAIN seen : Dated(seen[y]) /\ TRUE}}
<1>1. Floor(seen) = IF ProjectStart # NoDate THEN ProjectStart
                    ELSE IF frozen # {} THEN Min(frozen)
                    ELSE IF all # {} THEN Min(all) ELSE NoDate
    BY DEF Floor
<1>2. \A x \in D : Dated(seen[x]) => seen[x].start \in Int
    BY DEF Dated, TaskRow, Day
<1>3. frozen \subseteq all /\ all \subseteq Int /\ all # {}
    BY <1>2
<1>4. IsFiniteSet(all)
  <2> DEFINE g == [x \in D |-> seen[x].start]
             S == {y \in D : Dated(seen[y])}
  <2>1. IsFiniteSet(S)
      BY ScheduleAssumption, FS_Subset
  <2>2. all = {g[x] : x \in S}
      OBVIOUS
  <2> HIDE DEF g, S
  <2>3. IsFiniteSet({g[x] : x \in S})
      BY <2>1, Images
  <2> QED
      BY <2>2, <2>3
<1> HIDE DEF all, frozen
<1>5. IsFiniteSet(frozen) /\ frozen \subseteq Int
    BY <1>3, <1>4, FS_Subset
<1>6. Floor(seen) \in Int
    BY <1>1, <1>3, <1>4, <1>5, MinOf, ScheduleAssumption
<1> QED
    BY <1>6

\* A task is settled on the floor or on today, whichever is later.
LEMMA FloorType ==
    ASSUME NEW D \in SUBSET Task, NEW seen \in [D -> TaskRow], NEW t \in D, Dated(seen[t])
    PROVE  LET floor == Later(Floor(seen), Today)
           IN  floor \in Int /\ floor >= Today /\ floor \in {Today, Floor(seen)}
    BY FloorIsDay, ScheduleAssumption DEF Later

\* What a compaction moves is what does not settle where it was.
LEMMA CompactedIs ==
    ASSUME NEW D, NEW seen, NEW edges, Sweepable(D, seen, edges)
    PROVE  \E f : /\ IsSettled(f, seen, edges, Later(Floor(seen), Today))
                  /\ Compacted(seen, edges) = [t \in {x \in D : f[x] # SpanOf(seen[x])} |-> f[t]]
<1> DEFINE floor == Later(Floor(seen), Today)
           f == CHOOSE g : IsSettled(g, seen, edges, floor)
<1>1. IsFloor(floor, D, seen)
    BY FloorType DEF Sweepable, IsFloor
<1> HIDE DEF floor
<1>2. \E g : IsSettled(g, seen, edges, floor)
    BY <1>1, SettledExists
<1>3. IsSettled(f, seen, edges, floor)
    BY <1>2
<1>4. DOMAIN f = D
    BY <1>3 DEF IsSettled, Sweepable
<1>5. Compacted(seen, edges) = [t \in {x \in DOMAIN f : f[x] # SpanOf(seen[x])} |-> f[t]]
    BY DEF Compacted, RestrictDomain, Restrict, IsSettled, Dues, floor
<1> HIDE DEF f
<1> QED
    BY <1>3, <1>4, <1>5 DEF floor

LEMMA CompactedType ==
    ASSUME NEW D, NEW seen, NEW edges, Sweepable(D, seen, edges)
    PROVE  OfSome(Compacted(seen, edges), Dates) /\ DOMAIN Compacted(seen, edges) \subseteq D
<1> DEFINE floor == Later(Floor(seen), Today)
<1>1. IsFloor(floor, D, seen)
    BY FloorType DEF Sweepable, IsFloor
<1> HIDE DEF floor
<1>2. PICK f : /\ IsSettled(f, seen, edges, floor)
               /\ Compacted(seen, edges) = [t \in {x \in D : f[x] # SpanOf(seen[x])} |-> f[t]]
    BY CompactedIs DEF floor
<1>3. \A t \in D : /\ (Movable(seen[t]) => f[t] \in Dates)
                   /\ f[t] = Settles(seen[t], Dues(f, t, edges), floor)
    BY <1>1, <1>2, SettledType
<1>4. \A t \in D : f[t] # SpanOf(seen[t]) => f[t] \in Dates
    BY <1>3 DEF Settles
<1> QED
    BY <1>2, <1>4 DEF OfSome, Sweepable

LEMMA Bounds == MaxPasses \in Nat /\ MaxVisited \in Nat /\ MaxOps \in Nat
    BY ScheduleAssumption

\* The fields of a record stay where an EXCEPT names others.
LEMMA CallOf ==
    ASSUME TypeInv, NEW c \in Call
    PROVE  /\ CallType(call[c]) /\ Cascading(c) /\ PcType(call[c]) /\ DOMAIN call[c] = DOMAIN NoCall
           /\ call = [d \in Call |-> call[d]]
    BY DEF TypeInv, TypeOK, CallType, Cascading

LEMMA TypesInit == Init => TypeInv
<1> SUFFICES ASSUME Init PROVE TypeInv
    OBVIOUS
<1>1. PICK p \in Project, rows \in InitRows :
        task = [t \in Task |-> [project |-> p, start |-> rows[t].start, due |-> rows[t].due,
                                status |-> rows[t].status, archived |-> FALSE]]
    BY DEF Init
<1>2. task \in [Task -> TaskRow]
  <2>1. \A t \in Task : rows[t] \in [start : Day, due : Day, status : Statuses]
      BY ScheduleAssumption DEF Day
  <2> QED
      BY <1>1, <2>1 DEF TaskRow, Group
<1>3. deps \subseteq Task \X Task
    BY GraphsAssumption DEF Init
<1>4. lock \in [Group -> Call \cup {Free}]
    BY DEF Init
<1>5. call = [c \in Call |-> call[c]] /\ \A c \in Call : CallType(call[c])
    BY NoCallType DEF Init
<1>6. \A c \in Call : Cascading(c)
    BY DEF Init, NoCall, Cascading, PcType
<1>7. strayed \in BOOLEAN /\ ops \in 0..MaxOps
  <2>1. strayed \in BOOLEAN
      BY DEF Init
  <2>2. 0 \in 0..MaxOps
      BY Bounds
  <2> QED
      BY <2>1, <2>2 DEF Init
<1> QED
    BY <1>2, <1>3, <1>4, <1>5, <1>6, <1>7 DEF TypeInv, TypeOK

\* A step that leaves the rows and the dependencies alone.
LEMMA TypesOfCall ==
    ASSUME TypeInv, NEW c \in Call, NEW r, call' = [call EXCEPT ![c] = r], CallType(r),
           PcType(r),
           task' \in [Task -> TaskRow], deps' \subseteq Task \X Task,
           Taken(c) \/ Release(c) \/ UNCHANGED lock,
           strayed' = strayed, ops' \in 0..MaxOps
    PROVE  TypeInv'
<1>1. call' = [d \in Call |-> call'[d]] /\ \A d \in Call : CallType(call'[d]) /\ Cascading(d)'
    BY OneCallType
<1>2. lock' \in [Group -> Call \cup {Free}]
    BY TakenType
<1> QED
    BY <1>1, <1>2 DEF TypeInv, TypeOK

LEMMA TypesBegin ==
    ASSUME TypeInv, NEW c \in Call, NEW op \in {"shift", "compact", "add"}, NEW g \in Group,
           NEW on \in SUBSET Task, NEW at, Began(c, op, g, on, at), Idle(c),
           UNCHANGED <<task, deps, lock, strayed>>,
           op = "shift" => at \in Dates, op = "add" => at \in Task \X Task
    PROVE  TypeInv'
<1> DEFINE r == [NoCall EXCEPT !.op = op, !.pc = "lock", !.group = g, !.on = on, !.at = at]
<1>1. call' = [call EXCEPT ![c] = r]
    BY DEF Began
<1>2. CallType(r) /\ PcType(r)
  <2>1. /\ DOMAIN r = DOMAIN NoCall /\ r.op = op /\ r.pc = "lock" /\ r.group = g /\ r.on = on
        /\ r.at = at /\ r.moved = <<>> /\ r.seen = <<>> /\ r.frontier = {} /\ r.visited = {}
        /\ r.pass = 0 /\ r.clean = TRUE
      BY DEF NoCall
  <2> HIDE DEF r
  <2>2. OfSome(<<>>, Dates) /\ OfSome(<<>>, TaskRow)
      BY NoneOf
  <2>3. r.pass \in 0..MaxPasses /\ r.clean \in BOOLEAN
    <3>1. 0 \in 0..MaxPasses
        BY Bounds
    <3> QED
        BY <2>1, <3>1
  <2>4. OfSome(r.moved, Dates) /\ OfSome(r.seen, TaskRow)
      BY <2>1, <2>2
  <2>5. /\ r.op \in {"none", "shift", "compact", "add"} /\ r.group \in Group /\ r.on \subseteq Task
        /\ r.frontier \subseteq Task /\ r.visited \subseteq Task
        /\ r.op = "shift" => r.at \in Dates
        /\ r.op = "add" => r.at \in Task \X Task
      BY <2>1
  <2> QED
      BY <2>1, <2>3, <2>4, <2>5 DEF CallType, PcType
<1> HIDE DEF r
<1>3. ops' \in 0..MaxOps
    BY ScheduleAssumption DEF Idle, TypeInv, TypeOK
<1> QED
    BY <1>1, <1>2, <1>3, TypesOfCall DEF TypeInv, TypeOK

LEMMA TypesEnd ==
    ASSUME TypeInv, NEW c \in Call, Ended(c), task' \in [Task -> TaskRow],
           deps' \subseteq Task \X Task, UNCHANGED <<strayed, ops>>
    PROVE  TypeInv'
<1>1. PcType(NoCall)
    BY DEF NoCall, PcType
<1>2. ops' \in 0..MaxOps
    BY DEF TypeInv, TypeOK
<1> QED
    BY <1>1, <1>2, NoCallType, TypesOfCall DEF Ended

LEMMA TypesFail ==
    ASSUME TypeInv, NEW c \in Call, call' = [call EXCEPT ![c].pc = "failed"], Release(c),
           UNCHANGED <<task, deps, strayed, ops>>
    PROVE  TypeInv'
<1> DEFINE r == [call[c] EXCEPT !.pc = "failed"]
<1>1. CallType(call[c]) /\ DOMAIN call[c] = DOMAIN NoCall /\ call = [d \in Call |-> call[d]]
    BY CallOf
<1>2. call' = [call EXCEPT ![c] = r]
    BY <1>1
<1>3. CallType(r) /\ PcType(r)
    BY <1>1, Fields DEF CallType, PcType
<1> HIDE DEF r
<1> QED
    BY <1>2, <1>3, TypesOfCall DEF TypeInv, TypeOK

\* The pass as a fold over sets of accumulators.
Accs == [moved : UNION {[S -> Dates] : S \in SUBSET Task}, next : SUBSET Task]
LEMMA IsAcc ==
    ASSUME NEW acc, acc = [moved |-> acc.moved, next |-> acc.next]
    PROVE  acc \in Accs <=> OfSome(acc.moved, Dates) /\ acc.next \subseteq Task
<1>1. ASSUME OfSome(acc.moved, Dates) PROVE acc.moved \in UNION {[S -> Dates] : S \in SUBSET Task}
    BY <1>1 DEF OfSome
<1>2. ASSUME acc.moved \in UNION {[S -> Dates] : S \in SUBSET Task} PROVE OfSome(acc.moved, Dates)
  <2>1. PICK S \in SUBSET Task : acc.moved \in [S -> Dates]
      BY <1>2
  <2> QED
      BY <2>1 DEF OfSome
<1> QED
    BY <1>1, <1>2 DEF Accs
LEMMA OrderOf ==
    ASSUME TypeInv, NEW from \in SUBSET deps, NEW order \in SetToSeqs(from)
    PROVE  LET n == Cardinality(from)
           IN  /\ n \in Nat /\ DOMAIN order = 1..n
               /\ \A k \in 1..n : order[k] \in from
               /\ \A e \in from : \E k \in 1..n : order[k] = e
<1> DEFINE n == Cardinality(from)
<1>1. IsFiniteSet(Task \X Task) /\ deps \subseteq Task \X Task
    BY ScheduleAssumption, FS_Product DEF TypeInv, TypeOK
<1>2. IsFiniteSet(from)
    BY <1>1, FS_Subset
<1>3. n \in Nat
    BY <1>2, FS_CardinalityType
<1>4. order \in [1..n -> from] /\ \A i, j \in 1..n : i # j => order[i] # order[j]
    BY DEF SetToSeqs
<1>5. \A e \in from : \E k \in 1..n : order[k] = e
  <2> DEFINE I == 1..n
  <2>1. IsFiniteSet(I) /\ Cardinality(I) = n
      BY <1>3, FS_Interval
  <2>2. order \in Injection(I, from)
      BY <1>4 DEF Injection, IsInjective
  <2> HIDE DEF I
  <2>3. order \in Surjection(I, from)
      BY <1>2, <2>1, <2>2, FS_Injection
  <2> QED
      BY <2>3 DEF Surjection, I
<1> QED
    BY <1>3, <1>4, <1>5

\* The record of a pass.
LEMMA TypesPass ==
    ASSUME TypeInv, NEW c \in Call, Pass(c)
    PROVE  TypeInv'
<1>1. CallType(call[c]) /\ Cascading(c) /\ DOMAIN call[c] = DOMAIN NoCall /\ call = [d \in Call |-> call[d]]
    BY CallOf
<1>2. CASE call[c].pass >= MaxPasses
    BY <1>2, TypesFail DEF Pass
<1>3. CASE ~(call[c].pass >= MaxPasses)
  <2> DEFINE from == {e \in deps : e[1] \in call[c].frontier}
             base == [moved |-> call[c].moved, next |-> {}]
  <2>1. /\ call[c].pc = "cascade" /\ call[c].op = "shift"
        /\ call[c].frontier \subseteq DOMAIN call[c].moved /\ OfSome(call[c].moved, Dates)
      BY <1>1 DEF Pass, Cascading, PcType, CallType
  <2>2. PICK order \in SetToSeqs(from) :
          LET to == FoldLeft(Push, base, order)
          IN  call' = [call EXCEPT ![c].moved = to.moved, ![c].frontier = to.next,
                                   ![c].pass = @ + 1,
                                   ![c].pc = IF to.next = {} THEN "write" ELSE "cascade"]
      BY <1>3 DEF Pass
  <2> DEFINE to == FoldLeft(Push, base, order)
             n == Cardinality(from)
             ok == {acc \in Accs : /\ call[c].frontier \subseteq DOMAIN acc.moved
                                   /\ acc.next \subseteq DOMAIN acc.moved}
             Q == [k \in 0..n |-> ok]
  <2>3. n \in Nat /\ DOMAIN order = 1..n /\ \A k \in 1..n : order[k] \in from
      BY OrderOf
  <2>4. base \in ok
      BY <2>1, IsAcc
  <2>5. ASSUME NEW acc \in ok, NEW e \in from PROVE Push(acc, e) \in ok
    <3>1. acc = [moved |-> acc.moved, next |-> acc.next]
        BY DEF Accs
    <3>2. OfSome(acc.moved, Dates)
        BY <3>1, IsAcc
    <3> DEFINE p == Push(acc, e)
    <3>3. OfSome(p.moved, Dates) /\ p.next \subseteq DOMAIN p.moved /\ DOMAIN acc.moved \subseteq DOMAIN p.moved
        BY <3>2, PushType
    <3>4. p = [moved |-> p.moved, next |-> p.next]
        BY <3>1 DEF Push
    <3> HIDE DEF p
    <3>5. p.next \subseteq Task
        BY <3>3 DEF OfSome
    <3>6. p \in Accs
        BY <3>3, <3>4, <3>5, IsAcc
    <3> QED
        BY <3>3, <3>6 DEF p
  <2> HIDE DEF ok, base, from
  <2>6. to \in ok
    <3>1. base \in Q[0] /\ \A k \in 0..(n - 1) : \A acc \in Q[k] : Push(acc, order[k + 1]) \in Q[k + 1]
        BY <2>3, <2>4, <2>5
    <3>2. to \in Q[n]
        BY <2>3, <3>1, FoldKeeps
    <3> QED
        BY <2>3, <3>2
  <2> HIDE DEF to
  <2>7. OfSome(to.moved, Dates) /\ to.next \subseteq DOMAIN to.moved /\ to.next \subseteq Task
    <3>1. to = [moved |-> to.moved, next |-> to.next] /\ to \in Accs
        BY <2>6 DEF ok, Accs
    <3> QED
        BY <3>1, <2>6, IsAcc DEF ok
  <2> DEFINE r == [call[c] EXCEPT !.moved = to.moved, !.frontier = to.next, !.pass = @ + 1,
                                  !.pc = IF to.next = {} THEN "write" ELSE "cascade"]
  <2>8. call' = [call EXCEPT ![c] = r]
      BY <2>2, <1>1 DEF to
  <2>9. CallType(r) /\ PcType(r)
    <3>1. /\ DOMAIN r = DOMAIN NoCall /\ r.op = "shift" /\ r.group = call[c].group /\ r.on = call[c].on
          /\ r.at = call[c].at /\ r.moved = to.moved /\ r.frontier = to.next
          /\ r.seen = call[c].seen /\ r.visited = call[c].visited /\ r.clean = call[c].clean
          /\ r.pass = call[c].pass + 1 /\ r.pc \in {"write", "cascade"}
        BY <1>1, <2>1, Fields
    <3>2. call[c].pass + 1 \in 0..MaxPasses
        BY <1>1, <1>3, ScheduleAssumption DEF CallType
    <3> HIDE DEF r
    <3> QED
        BY <1>1, <2>1, <2>7, <3>1, <3>2 DEF CallType, PcType
  <2> HIDE DEF r
  <2>10. UNCHANGED <<task, deps, strayed, ops, lock>>
      BY <1>3 DEF Pass
  <2> QED
      BY <2>8, <2>9, <2>10, TypesOfCall DEF TypeInv, TypeOK
<1> QED
    BY <1>2, <1>3

\* A step that changes fields of one call's record, and the rows, the dependencies and the
\* lock as it may.
LEMMA TypesLockShift ==
    ASSUME TypeInv, NEW c \in Call, LockShift(c)
    PROVE  TypeInv'
<1>1. CallType(call[c]) /\ DOMAIN call[c] = DOMAIN NoCall /\ call = [d \in Call |-> call[d]]
    BY CallOf
<1>2. PICK t \in call[c].on :
        IF task[t].archived
        THEN Ended(c)
        ELSE /\ Taken(c)
             /\ call' = [call EXCEPT ![c].pc = "cascade", ![c].clean = TRUE, ![c].frontier = {t},
                                     ![c].moved = [x \in {t} |-> call[c].at]]
    BY DEF LockShift
<1>3. CASE task[t].archived
    BY <1>2, <1>3, TypesEnd DEF LockShift, TypeInv, TypeOK
<1>4. CASE ~task[t].archived
  <2> DEFINE one == [x \in {t} |-> call[c].at]
             r == [call[c] EXCEPT !.pc = "cascade", !.clean = TRUE, !.frontier = {t}, !.moved = one]
  <2>1. call' = [call EXCEPT ![c] = r]
      BY <1>1, <1>2, <1>4
  <2>2. t \in Task /\ call[c].op = "shift" /\ call[c].at \in Dates
      BY <1>1 DEF LockShift, CallType
  <2>3. OfSome(one, Dates) /\ DOMAIN one = {t}
      BY <2>2 DEF OfSome
  <2> HIDE DEF one
  <2>4. CallType(r) /\ PcType(r)
      BY <1>1, <2>2, <2>3, Fields DEF CallType, PcType
  <2> HIDE DEF r
  <2> QED
      BY <1>2, <1>4, <2>1, <2>4, TypesOfCall DEF LockShift, TypeInv, TypeOK
<1> QED
    BY <1>3, <1>4

LEMMA TypesLockCompact ==
    ASSUME TypeInv, NEW c \in Call, LockCompact(c)
    PROVE  TypeInv'
<1> DEFINE own == {t \in Task : task[t].project = call[c].group}
           rows == Restrict(task, own)
           r == [call[c] EXCEPT !.pc = "edges", !.clean = TRUE, !.seen = rows]
<1>1. CallType(call[c]) /\ DOMAIN call[c] = DOMAIN NoCall /\ call = [d \in Call |-> call[d]]
    BY CallOf
<1>2. call' = [call EXCEPT ![c] = r]
    BY <1>1 DEF LockCompact
<1>3. OfSome(rows, TaskRow)
  <2>1. own \subseteq Task
      OBVIOUS
  <2> HIDE DEF own
  <2> QED
      BY <2>1 DEF OfSome, Restrict, TypeInv, TypeOK
<1> HIDE DEF rows
<1>4. CallType(r) /\ PcType(r)
    BY <1>1, <1>3, Fields DEF CallType, PcType
<1> HIDE DEF r
<1> QED
    BY <1>2, <1>4, TypesOfCall DEF LockCompact, TypeInv, TypeOK

LEMMA TypesSweep ==
    ASSUME TypeInv, NEW c \in Call, Sweep(c)
    PROVE  TypeInv'
<1> DEFINE seen == call[c].seen
           edges == {e \in deps : e[1] \in DOMAIN seen}
           bad == (\E e \in edges : e[2] \notin DOMAIN seen) \/ ~Acyclic(edges)
           r == [call[c] EXCEPT !.pc = "write", !.moved = Compacted(seen, edges)]
<1>1. CallType(call[c]) /\ DOMAIN call[c] = DOMAIN NoCall /\ call = [d \in Call |-> call[d]]
    BY CallOf
<1>0. call[c].op = "compact"
    BY DEF Sweep
<1>2. CASE bad
    BY <1>2, TypesFail DEF Sweep
<1>3. CASE ~bad
  <2>1. call' = [call EXCEPT ![c] = r] /\ UNCHANGED <<task, deps, lock, strayed, ops>>
      BY <1>1, <1>3 DEF Sweep
  <2>2. Sweepable(DOMAIN seen, seen, edges)
      BY <1>1, <1>3 DEF Sweepable, CallType, OfSome, TypeInv, TypeOK
  <2> HIDE DEF edges, seen
  <2>3. OfSome(Compacted(seen, edges), Dates)
      BY <2>2, CompactedType
  <2>4. CallType(r) /\ PcType(r)
      BY <1>0, <1>1, <2>3, Fields DEF CallType, PcType
  <2> HIDE DEF r
  <2> QED
      BY <2>1, <2>4, TypesOfCall DEF TypeInv, TypeOK
<1> QED
    BY <1>2, <1>3

LEMMA TypesWrite ==
    ASSUME TypeInv, NEW c \in Call, WriteMoved(c)
    PROVE  TypeInv'
<1>1. CallType(call[c])
    BY CallOf
<1>2. task' \in [Task -> TaskRow]
  <2> DEFINE row(t) == IF t \in DOMAIN call[c].moved
                       THEN [task[t] EXCEPT !.start = call[c].moved[t].start, !.due = call[c].moved[t].due]
                       ELSE task[t]
  <2>1. ASSUME NEW t \in Task PROVE row(t) \in TaskRow
    <3>1. task[t] \in TaskRow
        BY DEF TypeInv, TypeOK
    <3>2. t \in DOMAIN call[c].moved => call[c].moved[t].start \in Day /\ call[c].moved[t].due \in Day
        BY <1>1 DEF CallType, OfSome, Dates, Day
    <3> QED
        BY <3>1, <3>2 DEF TaskRow
  <2>2. task' = [t \in Task |-> row(t)]
      BY DEF WriteMoved
  <2> HIDE DEF row
  <2> QED
      BY <2>1, <2>2
<1> QED
    BY <1>2, TypesEnd DEF WriteMoved, TypeInv, TypeOK

LEMMA TypesLockAdd ==
    ASSUME TypeInv, NEW c \in Call, LockAdd(c)
    PROVE  TypeInv'
<1> DEFINE s == {call[c].at[2]}
           r == [call[c] EXCEPT !.pc = "walk", !.frontier = s, !.visited = s]
<1>1. CallType(call[c]) /\ DOMAIN call[c] = DOMAIN NoCall /\ call = [d \in Call |-> call[d]]
    BY CallOf
<1>2. call' = [call EXCEPT ![c] = r]
    BY <1>1 DEF LockAdd, Walks
<1>3. s \subseteq Task /\ call[c].op = "add"
    BY <1>1 DEF LockAdd, CallType
<1> HIDE DEF s
<1>4. CallType(r) /\ PcType(r)
    BY <1>1, <1>3, Fields DEF CallType, PcType
<1> HIDE DEF r
<1> QED
    BY <1>2, <1>4, TypesOfCall DEF LockAdd, TypeInv, TypeOK

LEMMA TypesWalk ==
    ASSUME TypeInv, NEW c \in Call, Walk(c)
    PROVE  TypeInv'
<1> DEFINE found == Successors(call[c].frontier, deps)
           visited == call[c].visited \cup found
           new == found \ call[c].visited
           r == [call[c] EXCEPT !.frontier = new, !.visited = visited,
                                !.pc = IF new = {} THEN "insert" ELSE "walk"]
<1>1. CallType(call[c]) /\ DOMAIN call[c] = DOMAIN NoCall /\ call = [d \in Call |-> call[d]]
    BY CallOf
<1>2. \/ Ended(c)
      \/ call' = [call EXCEPT ![c] = r] /\ UNCHANGED lock
    BY <1>1 DEF Walk
<1>3. UNCHANGED <<task, deps, strayed, ops>>
    BY DEF Walk
<1>4. visited \subseteq Task /\ new \subseteq Task
    BY <1>1 DEF CallType, Successors, TypeInv, TypeOK
<1>0. call[c].op = "add"
    BY CallOf DEF Walk, PcType
<1> HIDE DEF new, visited
<1>5. CallType(r) /\ PcType(r)
    BY <1>0, <1>1, <1>4, Fields DEF CallType, PcType
<1> HIDE DEF r
<1>6. CASE Ended(c)
    BY <1>3, <1>6, TypesEnd DEF TypeInv, TypeOK
<1>7. CASE call' = [call EXCEPT ![c] = r] /\ UNCHANGED lock
    BY <1>3, <1>5, <1>7, TypesOfCall DEF TypeInv, TypeOK
<1> QED
    BY <1>2, <1>6, <1>7

\* An edit without the lock.
LEMMA TypesEdit ==
    ASSUME TypeInv, Unlocked, task' \in [Task -> TaskRow], deps' \subseteq Task \X Task,
           strayed' \in BOOLEAN
    PROVE  TypeInv'
<1>1. /\ call' = [c \in Call |-> [call[c] EXCEPT !.clean = call[c].op = "none"]]
      /\ lock' = lock /\ ops' = ops + 1 /\ ops < MaxOps
    BY DEF Unlocked, Disturbed
<1>2. ops' \in 0..MaxOps
    BY <1>1, Bounds DEF TypeInv, TypeOK
<1>3. ASSUME NEW c \in Call PROVE CallType(call'[c]) /\ Cascading(c)'
  <2> DEFINE was == call[c]
             r == [was EXCEPT !.clean = was.op = "none"]
  <2>1. call'[c] = r
      BY <1>1
  <2>2. CallType(was) /\ Cascading(c) /\ DOMAIN was = DOMAIN NoCall
      BY CallOf
  <2>3. CallType(r)
      BY <2>2, Fields DEF CallType, PcType
  <2>4. r.pc = was.pc /\ r.op = was.op /\ r.frontier = was.frontier /\ r.moved = was.moved
      BY <2>2, Fields
  <2> QED
      BY <2>1, <2>2, <2>3, <2>4 DEF Cascading, PcType
<1>4. call' = [c \in Call |-> call'[c]]
    BY <1>1
<1> QED
    BY <1>1, <1>2, <1>3, <1>4 DEF TypeInv, TypeOK
LEMMA TypesEdits ==
    ASSUME TypeInv, NEW t \in Task,
           \/ \E s \in Spans \cup {<<NoDate, NoDate>>} : SetDates(t, s)
           \/ \E g \in Group : SetProject(t, g)
           \/ \E st \in Statuses : SetStatus(t, st)
           \/ SetArchived(t)
    PROVE  TypeInv'
<1>1. task \in [Task -> TaskRow] /\ task[t] \in TaskRow /\ deps \subseteq Task \X Task /\ strayed \in BOOLEAN
    BY DEF TypeInv, TypeOK
<1>2. ASSUME NEW s \in Spans \cup {<<NoDate, NoDate>>}, SetDates(t, s) PROVE TypeInv'
  <2>1. s[1] \in Day /\ s[2] \in Day
      BY ScheduleAssumption DEF Day
  <2>2. task' \in [Task -> TaskRow]
      BY <1>1, <1>2, <2>1 DEF SetDates, TaskRow
  <2> QED
      BY <1>1, <1>2, <2>2, TypesEdit DEF SetDates
<1>3. ASSUME NEW g \in Group, SetProject(t, g) PROVE TypeInv'
  <2>1. task' \in [Task -> TaskRow]
      BY <1>1, <1>3 DEF SetProject, TaskRow
  <2> QED
      BY <1>1, <1>3, <2>1, TypesEdit DEF SetProject
<1>4. ASSUME NEW st \in Statuses, SetStatus(t, st) PROVE TypeInv'
  <2>1. task' \in [Task -> TaskRow]
      BY <1>1, <1>4 DEF SetStatus, TaskRow
  <2> QED
      BY <1>1, <1>4, <2>1, TypesEdit DEF SetStatus
<1>5. ASSUME SetArchived(t) PROVE TypeInv'
  <2>1. task' \in [Task -> TaskRow]
      BY <1>1, <1>5 DEF SetArchived, TaskRow
  <2> QED
      BY <1>1, <1>5, <2>1, TypesEdit DEF SetArchived
<1> QED
    BY <1>2, <1>3, <1>4, <1>5

LEMMA TypesStep == TypeInv /\ [Next]_vars => TypeInv'
<1> SUFFICES ASSUME TypeInv, [Next]_vars PROVE TypeInv'
    OBVIOUS
<1>0. task \in [Task -> TaskRow] /\ deps \subseteq Task \X Task
    BY DEF TypeInv, TypeOK
<1>1. ASSUME NEW c \in Call, NEW t \in Task, NEW s \in Spans, BeginShift(c, t, s) PROVE TypeInv'
  <2>1. Span(s[1], s[2]) \in Dates
      BY ScheduleAssumption DEF Span, Dates
  <2>2. task[t].project \in Group
      BY <1>0 DEF TaskRow
  <2> QED
      BY <1>1, <2>1, <2>2, TypesBegin DEF BeginShift
<1>2. ASSUME NEW c \in Call, NEW g \in Project, BeginCompact(c, g) PROVE TypeInv'
    BY <1>2, TypesBegin DEF BeginCompact, Group
<1>3. ASSUME NEW c \in Call, NEW p \in Task, NEW s \in Task, BeginAdd(c, p, s) PROVE TypeInv'
  <2>1. task[p].project \in Group
      BY <1>0 DEF TaskRow
  <2>2. {p, s} \in SUBSET Task /\ <<p, s>> \in Task \X Task
      OBVIOUS
  <2> QED
      BY <1>3, <2>1, <2>2, TypesBegin DEF BeginAdd
<1>4. ASSUME NEW c \in Call, Answer(c) PROVE TypeInv'
  <2>1. PcType(NoCall)
      BY DEF NoCall, PcType
  <2> QED
      BY <1>4, <2>1, NoCallType, TypesOfCall DEF Answer, TypeInv, TypeOK
<1>5. ASSUME NEW c \in Call, Insert(c) PROVE TypeInv'
  <2>1. call[c].at \in Task \X Task
      BY <1>5, CallOf DEF Insert, PcType, CallType
  <2> QED
      BY <1>0, <1>5, <2>1, TypesEnd DEF Insert
<1>6. ASSUME NEW c \in Call, Crash(c) PROVE TypeInv'
    BY <1>0, <1>6, TypesEnd DEF Crash
<1>7. ASSUME NEW e \in deps, RemoveDependency(e) PROVE TypeInv'
  <2>1. strayed \in BOOLEAN
      BY DEF TypeInv, TypeOK
  <2> QED
      BY <1>0, <1>7, <2>1, TypesEdit DEF RemoveDependency
<1>8. CASE UNCHANGED vars
    BY <1>8 DEF vars, TypeInv, TypeOK, Cascading
<1> QED
    BY <1>1, <1>2, <1>3, <1>4, <1>5, <1>6, <1>7, <1>8, TypesLockShift, TypesPass, TypesLockCompact,
       TypesSweep, TypesWrite, TypesLockAdd, TypesWalk, TypesEdits DEF Next, Step

-----------------------------------------------------------------------------
(* Compactions *)

\* The tasks of a group and the edges out of them, which are all a compaction reads.
Own(g) == {t \in Task : task[t].project = g}
OwnRows(g) == Restrict(task, Own(g))
OwnEdges(g) == {e \in deps : e[1] \in Own(g)}

\* While no task has changed its project they are all in one group, of which the shifts and
\* the additions are too.
Home ==
    \E g \in Group : /\ \A t \in Task : task[t].project = g
                     /\ \A c \in Call : call[c].op \in {"shift", "add"} => call[c].group = g

\* A compaction reads and moves tasks of its own group.
Within(c) ==
    call[c].op = "compact" =>
        /\ call[c].pc = "edges" => DOMAIN call[c].seen \subseteq Own(call[c].group)
        /\ call[c].pc = "write" => DOMAIN call[c].moved \subseteq Own(call[c].group)

\* What a compaction has read is still so, and what it has settled follows from it.
Reads(c) ==
    call[c].op = "compact" /\ call[c].clean =>
        /\ call[c].pc # "failed"
        /\ call[c].pc = "edges" => call[c].seen = OwnRows(call[c].group)
        /\ call[c].pc = "write" =>
             call[c].moved = Compacted(OwnRows(call[c].group), OwnEdges(call[c].group))

ViewInv == ~strayed => Home /\ \A c \in Call : Within(c) /\ Reads(c)
AllInv == IInv /\ TypeInv /\ ViewInv

\* What a step of one call has to keep.
LEMMA ViewOfOne ==
    ASSUME AllInv, NEW c \in Call, strayed' = strayed, ~strayed,
           \A d \in Call \ {c} : call'[d] = call[d],
           \A t \in Task : task'[t].project = task[t].project,
           \A d \in Call \ {c} : call[d].pc \in {"edges", "write"} =>
             /\ OwnRows(call[d].group)' = OwnRows(call[d].group)
             /\ OwnEdges(call[d].group)' = OwnEdges(call[d].group),
           call'[c].op \in {"shift", "add"} =>
             \/ call[c].op = call'[c].op /\ call'[c].group = call[c].group
             \/ \E t \in Task : call'[c].group = task[t].project,
           Within(c)', Reads(c)'
    PROVE  ViewInv'
<1>1. Home /\ \A d \in Call : Within(d) /\ Reads(d)
    BY DEF AllInv, ViewInv
<1>2. Home'
    BY <1>1 DEF Home
<1>3. \A g : Own(g)' = Own(g)
    BY DEF Own
<1>4. ASSUME NEW d \in Call PROVE Within(d)' /\ Reads(d)'
  <2>1. CASE d = c
      BY <2>1
  <2>2. CASE d # c
    <3>1. call'[d] = call[d] /\ Within(d) /\ Reads(d)
        BY <2>2, <1>1
    <3>2. Within(d)'
        BY <3>1, <1>3 DEF Within
    <3>3. call[d].pc \in {"edges", "write"} =>
            /\ OwnRows(call[d].group)' = OwnRows(call[d].group)
            /\ OwnEdges(call[d].group)' = OwnEdges(call[d].group)
        BY <2>2
    <3>4. Reads(d)'
        BY <3>1, <3>3 DEF Reads
    <3> QED
        BY <3>2, <3>4
  <2> QED
      BY <2>1, <2>2
<1> QED
    BY <1>2, <1>4 DEF ViewInv

\* A step of a call that writes nothing, and ends it, fails a shift, or takes it on.
LEMMA ViewOfQuiet ==
    ASSUME AllInv, NEW c \in Call, UNCHANGED <<task, deps, strayed>>, NEW r,
           call' = [call EXCEPT ![c] = r],
           r.op \in {"shift", "add"} =>
             \/ call[c].op = r.op /\ r.group = call[c].group
             \/ \E t \in Task : r.group = task[t].project,
           ~strayed /\ r.op = "compact" => Within(c)' /\ Reads(c)'
    PROVE  ViewInv'
<1> SUFFICES ASSUME ~strayed PROVE ViewInv'
    BY DEF ViewInv
<1>1. call'[c] = r /\ \A d \in Call \ {c} : call'[d] = call[d]
    BY OnlyCall DEF AllInv
<1>2. r.op # "compact" => Within(c)' /\ Reads(c)'
    BY <1>1 DEF Within, Reads
<1>3. \A g : OwnRows(g)' = OwnRows(g) /\ OwnEdges(g)' = OwnEdges(g)
    BY DEF OwnRows, OwnEdges, Own
<1> QED
    BY <1>1, <1>2, <1>3, ViewOfOne

LEMMA ViewOfEnd ==
    ASSUME AllInv, NEW c \in Call, call' = [call EXCEPT ![c] = NoCall], UNCHANGED <<task, deps, strayed>>
    PROVE  ViewInv'
<1>1. NoCall.op = "none"
    BY DEF NoCall
<1> QED
    BY <1>1, ViewOfQuiet

LEMMA ViewBegin ==
    ASSUME AllInv, NEW c \in Call,
           \/ \E t \in Task, s \in Spans : BeginShift(c, t, s)
           \/ \E g \in Project : BeginCompact(c, g)
           \/ \E p, s \in Task : BeginAdd(c, p, s)
    PROVE  ViewInv'
<1>1. ASSUME NEW op \in {"shift", "compact", "add"}, NEW g, NEW on, NEW at, Began(c, op, g, on, at),
             op = "compact" \/ \E t \in Task : g = task[t].project, UNCHANGED <<task, deps, strayed>>
      PROVE  ViewInv'
  <2> DEFINE r == [NoCall EXCEPT !.op = op, !.pc = "lock", !.group = g, !.on = on, !.at = at]
  <2>1. call' = [call EXCEPT ![c] = r]
      BY <1>1 DEF Began
  <2>2. r.op = op /\ r.group = g /\ r.pc = "lock"
      BY DEF NoCall
  <2> HIDE DEF r
  <2>3. call'[c] = r
      BY <2>1, OnlyCall DEF AllInv
  <2>4. Within(c)' /\ Reads(c)'
      BY <2>2, <2>3 DEF Within, Reads
  <2> QED
      BY <1>1, <2>1, <2>2, <2>4, ViewOfQuiet
<1>2. ASSUME NEW t \in Task, NEW s \in Spans, BeginShift(c, t, s) PROVE ViewInv'
    BY <1>1, <1>2 DEF BeginShift
<1>3. ASSUME NEW g \in Project, BeginCompact(c, g) PROVE ViewInv'
    BY <1>1, <1>3 DEF BeginCompact
<1>4. ASSUME NEW p \in Task, NEW s \in Task, BeginAdd(c, p, s) PROVE ViewInv'
    BY <1>1, <1>4 DEF BeginAdd
<1> QED
    BY <1>2, <1>3, <1>4

\* The steps of a shift and of an addition that write nothing.
LEMMA ViewOthers ==
    ASSUME AllInv, NEW c \in Call, LockShift(c) \/ Pass(c) \/ LockAdd(c) \/ Walk(c)
    PROVE  ViewInv'
<1>0. call = [d \in Call |-> call[d]] /\ DOMAIN call[c] = DOMAIN NoCall /\ PcType(call[c])
    BY CallOf DEF AllInv
<1>1. call[c].op \in {"shift", "add"} /\ UNCHANGED <<task, deps, strayed>>
    BY <1>0 DEF LockShift, Pass, LockAdd, Walk, PcType
<1>2. ASSUME NEW r, call' = [call EXCEPT ![c] = r], r.op = call[c].op, r.group = call[c].group
      PROVE  ViewInv'
    BY <1>1, <1>2, ViewOfQuiet
<1>3. CASE Ended(c)
    BY <1>1, <1>3, ViewOfEnd DEF Ended
<1>4. CASE LockShift(c)
  <2>1. PICK t \in call[c].on :
          IF task[t].archived
          THEN Ended(c)
          ELSE /\ Taken(c)
               /\ call' = [call EXCEPT ![c].pc = "cascade", ![c].clean = TRUE, ![c].frontier = {t},
                                       ![c].moved = [x \in {t} |-> call[c].at]]
      BY <1>4 DEF LockShift
  <2> DEFINE one == [x \in {t} |-> call[c].at]
             r == [call[c] EXCEPT !.pc = "cascade", !.clean = TRUE, !.frontier = {t}, !.moved = one]
  <2>2. Ended(c) \/ call' = [call EXCEPT ![c] = r]
      BY <2>1, <1>0
  <2>3. r.op = call[c].op /\ r.group = call[c].group
      BY <1>0, Fields
  <2> HIDE DEF r
  <2> QED
      BY <2>2, <2>3, <1>2, <1>3
<1>5. CASE Pass(c)
  <2>1. CASE call[c].pass >= MaxPasses
    <3> DEFINE r == [call[c] EXCEPT !.pc = "failed"]
    <3>1. call' = [call EXCEPT ![c] = r]
        BY <1>0, <1>5, <2>1 DEF Pass
    <3>2. r.op = call[c].op /\ r.group = call[c].group
        BY <1>0, Fields
    <3> HIDE DEF r
    <3> QED
        BY <1>2, <3>1, <3>2
  <2>2. CASE ~(call[c].pass >= MaxPasses)
    <3>1. PICK order \in SetToSeqs({e \in deps : e[1] \in call[c].frontier}) :
            LET to == FoldLeft(Push, [moved |-> call[c].moved, next |-> {}], order)
            IN  call' = [call EXCEPT ![c].moved = to.moved, ![c].frontier = to.next,
                                     ![c].pass = @ + 1,
                                     ![c].pc = IF to.next = {} THEN "write" ELSE "cascade"]
        BY <1>5, <2>2 DEF Pass
    <3> DEFINE to == FoldLeft(Push, [moved |-> call[c].moved, next |-> {}], order)
    <3> HIDE DEF to
    <3> DEFINE r == [call[c] EXCEPT !.moved = to.moved, !.frontier = to.next, !.pass = @ + 1,
                                    !.pc = IF to.next = {} THEN "write" ELSE "cascade"]
    <3>2. call' = [call EXCEPT ![c] = r]
        BY <1>0, <3>1 DEF to
    <3>3. r.op = call[c].op /\ r.group = call[c].group
        BY <1>0, Fields
    <3> HIDE DEF r
    <3> QED
        BY <1>2, <3>2, <3>3
  <2> QED
      BY <2>1, <2>2
<1>6. CASE LockAdd(c)
  <2> DEFINE s == {call[c].at[2]}
             r == [call[c] EXCEPT !.pc = "walk", !.frontier = s, !.visited = s]
  <2>1. call' = [call EXCEPT ![c] = r]
      BY <1>0, <1>6 DEF LockAdd, Walks
  <2>2. r.op = call[c].op /\ r.group = call[c].group
      BY <1>0, Fields
  <2> HIDE DEF r
  <2> QED
      BY <1>2, <2>1, <2>2
<1>7. CASE Walk(c)
  <2> DEFINE found == Successors(call[c].frontier, deps)
             visited == call[c].visited \cup found
             new == found \ call[c].visited
             r == [call[c] EXCEPT !.frontier = new, !.visited = visited,
                                  !.pc = IF new = {} THEN "insert" ELSE "walk"]
  <2>1. Ended(c) \/ call' = [call EXCEPT ![c] = r]
      BY <1>0, <1>7 DEF Walk
  <2>2. r.op = call[c].op /\ r.group = call[c].group
      BY <1>0, Fields
  <2> HIDE DEF r
  <2> QED
      BY <1>2, <1>3, <2>1, <2>2
<1> QED
    BY <1>4, <1>5, <1>6, <1>7

LEMMA ViewLockCompact ==
    ASSUME AllInv, NEW c \in Call, LockCompact(c)
    PROVE  ViewInv'
<1> DEFINE own == {t \in Task : task[t].project = call[c].group}
           rows == Restrict(task, own)
           r == [call[c] EXCEPT !.pc = "edges", !.clean = TRUE, !.seen = rows]
<1>0. call = [d \in Call |-> call[d]] /\ DOMAIN call[c] = DOMAIN NoCall
    BY CallOf DEF AllInv
<1>1. call' = [call EXCEPT ![c] = r] /\ UNCHANGED <<task, deps, strayed>> /\ call[c].op = "compact"
    BY <1>0 DEF LockCompact
<1>2. rows = OwnRows(call[c].group) /\ DOMAIN rows = Own(call[c].group)
  <2>1. own = Own(call[c].group)
      BY DEF Own
  <2> HIDE DEF own
  <2>2. own \subseteq DOMAIN task
      BY <2>1 DEF Own, AllInv, TypeInv, TypeOK
  <2> QED
      BY <2>1, <2>2 DEF OwnRows, Restrict
<1> HIDE DEF rows
<1>3. r.op = "compact" /\ r.group = call[c].group /\ r.pc = "edges" /\ r.seen = rows
    BY <1>0, <1>1, Fields
<1> HIDE DEF r
<1>4. call'[c] = r
    BY <1>1, OnlyCall DEF AllInv
<1>5. \A g : Own(g)' = Own(g) /\ OwnRows(g)' = OwnRows(g)
    BY <1>1 DEF Own, OwnRows
<1>6. Within(c)' /\ Reads(c)'
    BY <1>2, <1>3, <1>4, <1>5 DEF Within, Reads
<1> QED
    BY <1>1, <1>3, <1>6, ViewOfQuiet

LEMMA ViewSweep ==
    ASSUME AllInv, NEW c \in Call, Sweep(c)
    PROVE  ViewInv'
<1> DEFINE seen == call[c].seen
           edges == {e \in deps : e[1] \in DOMAIN seen}
           bad == (\E e \in edges : e[2] \notin DOMAIN seen) \/ ~Acyclic(edges)
           r == [call[c] EXCEPT !.pc = "write", !.moved = Compacted(seen, edges)]
           failed == [call[c] EXCEPT !.pc = "failed"]
<1>0. /\ call = [d \in Call |-> call[d]] /\ DOMAIN call[c] = DOMAIN NoCall /\ CallType(call[c])
      /\ call[c].op = "compact" /\ call[c].pc = "edges" /\ UNCHANGED <<task, deps, strayed>>
    BY CallOf DEF AllInv, Sweep
<1>1. failed.op = "compact" /\ failed.group = call[c].group /\ failed.pc = "failed" /\ failed.clean = call[c].clean
    BY <1>0, Fields
<1>2. CASE bad
  <2>1. call' = [call EXCEPT ![c] = failed]
      BY <1>0, <1>2 DEF Sweep
  <2> HIDE DEF failed
  <2>2. call'[c] = failed
      BY <2>1, OnlyCall DEF AllInv
  <2>3. Within(c)'
      BY <1>1, <2>2 DEF Within
  <2>4. ASSUME ~strayed, call[c].clean PROVE FALSE
    <3>1. /\ Home /\ Reads(c) /\ Acyclic(deps) /\ deps \subseteq Task \X Task
        BY <2>4 DEF AllInv, ViewInv, IInv, TypeInv, TypeOK
    <3>2. PICK g \in Group : \A t \in Task : task[t].project = g
        BY <3>1 DEF Home
    <3>3. seen = OwnRows(call[c].group)
        BY <1>0, <2>4, <3>1 DEF Reads
    <3>4. DOMAIN seen = Own(call[c].group)
        BY <3>3 DEF OwnRows, Restrict, Own, AllInv, TypeInv, TypeOK
    <3>5. Own(call[c].group) \in {{}, Task}
        BY <3>2 DEF Own
    <3>6. edges \subseteq deps
        OBVIOUS
    <3>7. Acyclic(edges)
        BY <3>1, <3>6, FewerEdges
    <3>8. \A e \in edges : e[2] \in DOMAIN seen
        BY <3>1, <3>4, <3>5
    <3> QED
        BY <1>2, <3>7, <3>8
  <2>5. ~strayed => Reads(c)'
      BY <1>1, <2>2, <2>4 DEF Reads
  <2> QED
      BY <1>0, <1>1, <2>1, <2>3, <2>5, ViewOfQuiet
<1>3. CASE ~bad
  <2>1. call' = [call EXCEPT ![c] = r]
      BY <1>0, <1>3 DEF Sweep
  <2>2. Sweepable(DOMAIN seen, seen, edges)
      BY <1>0, <1>3 DEF Sweepable, CallType, OfSome, AllInv, TypeInv, TypeOK
  <2>3. DOMAIN Compacted(seen, edges) \subseteq DOMAIN seen
    <3> HIDE DEF seen, edges
    <3> QED
        BY <2>2, CompactedType
  <2>4. /\ r.op = "compact" /\ r.group = call[c].group /\ r.pc = "write" /\ r.clean = call[c].clean
        /\ r.moved = Compacted(seen, edges)
      BY <1>0, Fields
  <2> HIDE DEF r
  <2>5. call'[c] = r
      BY <2>1, OnlyCall DEF AllInv
  <2>6. \A g : Own(g)' = Own(g) /\ OwnRows(g)' = OwnRows(g) /\ OwnEdges(g)' = OwnEdges(g)
      BY <1>0 DEF Own, OwnRows, OwnEdges
  <2>7. ASSUME ~strayed PROVE Within(c)' /\ Reads(c)'
    <3>1. Within(c) /\ Reads(c)
        BY <2>7 DEF AllInv, ViewInv
    <3>2. Within(c)'
        BY <1>0, <2>3, <2>4, <2>5, <2>6, <3>1 DEF Within
    <3>3. ASSUME call[c].clean PROVE Compacted(seen, edges) = Compacted(OwnRows(call[c].group), OwnEdges(call[c].group))
      <4>1. seen = OwnRows(call[c].group)
          BY <1>0, <3>1, <3>3 DEF Reads
      <4>2. DOMAIN seen = Own(call[c].group)
          BY <4>1 DEF OwnRows, Restrict, Own, AllInv, TypeInv, TypeOK
      <4>3. edges = OwnEdges(call[c].group)
          BY <4>2 DEF OwnEdges
      <4> HIDE DEF seen, edges
      <4> QED
          BY <4>1, <4>3
    <3>4. Reads(c)'
        BY <2>4, <2>5, <2>6, <3>3 DEF Reads
    <3> QED
        BY <3>2, <3>4
  <2> QED
      BY <1>0, <2>1, <2>4, <2>7, ViewOfQuiet
<1> QED
    BY <1>2, <1>3

\* A writer holds the lock of the tasks it writes: what another compaction has read under
\* its own is not touched.
LEMMA ViewWrites ==
    ASSUME AllInv, NEW c \in Call, WriteMoved(c) \/ Insert(c)
    PROVE  ViewInv'
<1>9. strayed' = strayed
    BY DEF WriteMoved, Insert
<1> SUFFICES ASSUME ~strayed PROVE ViewInv'
    BY <1>9 DEF ViewInv
<1>0. /\ Ended(c) /\ strayed' = strayed /\ PcType(call[c]) /\ Home /\ CallType(call[c])
      /\ \A d \in Call : Holds(d) /\ Within(d) /\ call[d].group \in Group
    BY CallOf DEF WriteMoved, Insert, AllInv, IInv, ViewInv, TypeInv, TypeOK, CallType
<1>1. call'[c] = NoCall /\ \A d \in Call \ {c} : call'[d] = call[d]
    BY <1>0, OnlyCall DEF Ended, AllInv
<1>2. NoCall.op = "none"
    BY DEF NoCall
<1>3. Within(c)' /\ Reads(c)'
    BY <1>1, <1>2 DEF Within, Reads
<1>4. /\ task \in [Task -> TaskRow] /\ deps \subseteq Task \X Task
    BY DEF AllInv, TypeInv, TypeOK
<1>5. ASSUME NEW d \in Call \ {c}, call[d].pc \in {"edges", "write"}
      PROVE  call[d].group # call[c].group
    BY <1>0, <1>5 DEF Holds, Inside, WriteMoved, Insert
<1>6. PICK g \in Group : /\ \A t \in Task : task[t].project = g
                         /\ \A d \in Call : call[d].op \in {"shift", "add"} => call[d].group = g
    BY <1>0 DEF Home
<1>7. CASE WriteMoved(c)
  <2>1. deps' = deps /\ call[c].pc = "write"
        /\ task' = [t \in Task |->
                   IF t \in DOMAIN call[c].moved
                   THEN [task[t] EXCEPT !.start = call[c].moved[t].start, !.due = call[c].moved[t].due]
                   ELSE task[t]]
      BY <1>7 DEF WriteMoved
  <2>2. \A t \in Task : task'[t].project = task[t].project
      BY <1>4, <2>1 DEF TaskRow
  <2>3. \A h : Own(h)' = Own(h) /\ OwnEdges(h)' = OwnEdges(h)
      BY <2>1, <2>2 DEF Own, OwnEdges
  <2>4. DOMAIN call[c].moved \subseteq Own(call[c].group)
    <3>1. CASE call[c].op = "compact"
        BY <1>0, <2>1, <3>1 DEF Within
    <3>2. CASE call[c].op = "shift"
        BY <1>0, <1>6, <3>2 DEF Own, CallType, OfSome
    <3>3. CASE call[c].op \in {"none", "add"}
        BY <3>3, <2>1, <1>0 DEF PcType
    <3> QED
        BY <1>0, <3>1, <3>2, <3>3 DEF CallType
  <2>5. ASSUME NEW d \in Call \ {c}, call[d].pc \in {"edges", "write"}
        PROVE  OwnRows(call[d].group)' = OwnRows(call[d].group)
    <3>1. \A t \in Own(call[d].group) : t \notin DOMAIN call[c].moved
        BY <1>5, <2>4, <2>5 DEF Own
    <3>2. \A t \in Own(call[d].group) : task'[t] = task[t]
        BY <2>1, <3>1 DEF Own
    <3>3. call'[d].group = call[d].group
        BY <1>1
    <3>4. \A h : (\A t \in Own(h) : task'[t] = task[t]) => OwnRows(h)' = OwnRows(h)
      <4>1. DOMAIN task' = Task /\ DOMAIN task = Task
          BY <1>4, <2>1
      <4> QED
          BY <2>3, <4>1 DEF OwnRows, Restrict
    <3> QED
        BY <3>2, <3>3, <3>4
  <2> QED
      BY <1>0, <1>1, <1>2, <1>3, <2>2, <2>3, <2>5, ViewOfOne
<1>8. CASE Insert(c)
  <2>1. task' = task /\ deps' = deps \cup {call[c].at} /\ call[c].pc = "insert"
      BY <1>8 DEF Insert
  <2>2. call[c].op = "add" /\ call[c].at \in Task \X Task
      BY <1>0, <2>1 DEF PcType, CallType
  <2>3. \A h : Own(h)' = Own(h) /\ OwnRows(h)' = OwnRows(h)
      BY <2>1 DEF Own, OwnRows
  <2>4. ASSUME NEW d \in Call \ {c}, call[d].pc \in {"edges", "write"}
        PROVE  OwnEdges(call[d].group)' = OwnEdges(call[d].group)
    <3>1. call[c].at[1] \notin Own(call[d].group)
        BY <1>5, <1>6, <2>2, <2>4 DEF Own
    <3>2. call'[d] = call[d]
        BY <1>1
    <3> QED
        BY <2>1, <2>3, <3>1, <3>2 DEF OwnEdges
  <2>5. \A t \in Task : task'[t].project = task[t].project
      BY <2>1
  <2> QED
      BY <1>0, <1>1, <1>2, <1>3, <2>3, <2>4, <2>5, ViewOfOne
<1> QED
    BY <1>7, <1>8

\* What takes no lock is noted by every call in flight.
LEMMA ViewUnlocked ==
    ASSUME AllInv, Unlocked, strayed' \/ \A t \in Task : task'[t].project = task[t].project,
           strayed => strayed'
    PROVE  ViewInv'
<1> SUFFICES ASSUME ~strayed' PROVE Home' /\ \A c \in Call : Within(c)' /\ Reads(c)'
    BY DEF ViewInv
<1>1. call' = [c \in Call |-> [call[c] EXCEPT !.clean = call[c].op = "none"]]
    BY DEF Unlocked, Disturbed
<1>2. ASSUME NEW c \in Call
      PROVE  /\ call'[c].op = call[c].op /\ call'[c].pc = call[c].pc /\ call'[c].group = call[c].group
             /\ call'[c].seen = call[c].seen /\ call'[c].moved = call[c].moved
             /\ call'[c].clean = (call[c].op = "none")
  <2>1. DOMAIN call[c] = DOMAIN NoCall
      BY CallOf DEF AllInv
  <2>2. call'[c] = [call[c] EXCEPT !.clean = call[c].op = "none"]
      BY <1>1
  <2> QED
      BY <2>1, <2>2, Fields
<1>3. Home /\ \A c \in Call : Within(c)
    BY DEF AllInv, ViewInv
<1>4. Home'
    BY <1>2, <1>3 DEF Home
<1>5. \A g : Own(g)' = Own(g)
    BY DEF Own
<1>6. ASSUME NEW c \in Call PROVE Within(c)' /\ Reads(c)'
    BY <1>2, <1>3, <1>5 DEF Within, Reads
<1> QED
    BY <1>4, <1>6

LEMMA ViewEdits ==
    ASSUME AllInv,
           \/ \E e \in deps : RemoveDependency(e)
           \/ \E t \in Task :
                \/ \E s \in Spans \cup {<<NoDate, NoDate>>} : SetDates(t, s)
                \/ \E g \in Group : SetProject(t, g)
                \/ \E st \in Statuses : SetStatus(t, st)
                \/ SetArchived(t)
    PROVE  ViewInv'
<1>0. task \in [Task -> TaskRow]
    BY DEF AllInv, TypeInv, TypeOK
<1>1. ASSUME NEW e \in deps, RemoveDependency(e) PROVE ViewInv'
    BY <1>1, ViewUnlocked DEF RemoveDependency
<1>2. ASSUME NEW t \in Task, NEW s, SetDates(t, s) PROVE ViewInv'
  <2>1. \A x \in Task : task'[x].project = task[x].project
      BY <1>0, <1>2 DEF SetDates, TaskRow
  <2> QED
      BY <1>2, <2>1, ViewUnlocked DEF SetDates
<1>3. ASSUME NEW t \in Task, NEW g, SetProject(t, g) PROVE ViewInv'
    BY <1>3, ViewUnlocked DEF SetProject
<1>4. ASSUME NEW t \in Task, NEW st, SetStatus(t, st) PROVE ViewInv'
  <2>1. \A x \in Task : task'[x].project = task[x].project
      BY <1>0, <1>4 DEF SetStatus, TaskRow
  <2> QED
      BY <1>4, <2>1, ViewUnlocked DEF SetStatus
<1>5. ASSUME NEW t \in Task, SetArchived(t) PROVE ViewInv'
  <2>1. \A x \in Task : task'[x].project = task[x].project
      BY <1>0, <1>5 DEF SetArchived, TaskRow
  <2> QED
      BY <1>5, <2>1, ViewUnlocked DEF SetArchived
<1> QED
    BY <1>1, <1>2, <1>3, <1>4, <1>5

LEMMA ViewInit == Init => ViewInv
<1> SUFFICES ASSUME Init PROVE ViewInv
    OBVIOUS
<1>1. \A c \in Call : call[c].op = "none"
    BY DEF Init, NoCall
<1>2. PICK p \in Project, rows \in InitRows :
        task = [t \in Task |-> [project |-> p, start |-> rows[t].start, due |-> rows[t].due,
                                status |-> rows[t].status, archived |-> FALSE]]
    BY DEF Init
<1>3. Home
  <2>1. p \in Group /\ \A t \in Task : task[t].project = p
      BY <1>2 DEF Group
  <2> QED
      BY <1>1, <2>1 DEF Home
<1> QED
    BY <1>1, <1>3 DEF ViewInv, Within, Reads

LEMMA ViewStep == AllInv /\ [Next]_vars => ViewInv'
<1> SUFFICES ASSUME AllInv, [Next]_vars PROVE ViewInv'
    OBVIOUS
<1>1. ASSUME NEW c \in Call, Answer(c) \/ Crash(c) PROVE ViewInv'
    BY <1>1, ViewOfEnd DEF Answer, Crash, Ended
<1>2. ASSUME NEW c \in Call, Step(c) PROVE ViewInv'
    BY <1>1, <1>2, ViewOthers, ViewLockCompact, ViewSweep, ViewWrites DEF Step
<1>3. CASE UNCHANGED vars
    BY <1>3 DEF vars, AllInv, ViewInv, Home, Within, Reads, Own, OwnRows, OwnEdges
<1> QED
    BY <1>1, <1>2, <1>3, ViewBegin, ViewEdits DEF Next

LEMMA AllInvariant == Spec => []AllInv
<1>1. Init => AllInv
    BY InitIInv, TypesInit, ViewInit DEF AllInv
<1>2. AllInv /\ [Next]_vars => AllInv'
    BY StepIInv, TypesStep, ViewStep DEF AllInv
<1> QED
    BY <1>1, <1>2, PTL DEF Spec

\* Rows and schedules are what their columns allow, and a call in flight holds tasks.
THEOREM Types == Spec => []TypeOK
<1>1. AllInv => TypeOK
    BY DEF AllInv, TypeInv
<1> QED
    BY <1>1, AllInvariant, PTL

-----------------------------------------------------------------------------
\* The greatest of a finite set is the one that no other exceeds.
LEMMA MaxIs ==
    ASSUME NEW T, T \subseteq Int, IsFiniteSet(T), NEW m \in T, \A y \in T : y <= m
    PROVE  Max(T) = m
<1>1. Max(T) \in T /\ m <= Max(T)
    BY MaxOf
<1>2. Max(T) <= m /\ Max(T) \in Int /\ m \in Int
    BY <1>1
<1> QED
    BY <1>1, <1>2

\* The first day a task may start on, when its predecessors end on these days.
Earliest(dues, floor) == Max({Today} \cup (IF dues = {} THEN {floor} ELSE dues))

\* It is the later of today and the last of those days, or of today and the floor.
LEMMA EarliestIs ==
    ASSUME NEW dues, dues \subseteq Int, IsFiniteSet(dues), NEW floor
    PROVE  /\ dues # {} => Earliest(dues, floor) = Later(Max(dues), Today)
           /\ dues = {} /\ floor \in Int => Earliest(dues, floor) = Later(floor, Today)
<1>1. Today \in Int
    BY ScheduleAssumption
<1>2. ASSUME dues # {} PROVE Earliest(dues, floor) = Later(Max(dues), Today)
  <2> DEFINE m == Max(dues)
             T == {Today} \cup dues
  <2>1. m \in dues /\ \A d \in dues : d <= m
      BY <1>2, MaxOf
  <2>2. T \subseteq Int /\ IsFiniteSet(T)
      BY <1>1, FS_AddElement
  <2> HIDE DEF m
  <2>3. Later(m, Today) \in T /\ \A y \in T : y <= Later(m, Today)
      BY <1>1, <2>1 DEF Later
  <2> HIDE DEF T
  <2>4. Max(T) = Later(m, Today)
      BY <2>2, <2>3, MaxIs
  <2> QED
      BY <1>2, <2>4 DEF Earliest, T, m
<1>3. ASSUME dues = {}, floor \in Int PROVE Earliest(dues, floor) = Later(floor, Today)
  <2> DEFINE T == {Today} \cup {floor}
  <2>1. T \subseteq Int /\ IsFiniteSet(T)
      BY <1>1, <1>3, FS_AddElement, FS_Singleton
  <2>2. Later(floor, Today) \in T /\ \A y \in T : y <= Later(floor, Today)
      BY <1>1, <1>3 DEF Later
  <2> HIDE DEF T
  <2>3. Max(T) = Later(floor, Today)
      BY <2>1, <2>2, MaxIs
  <2> QED
      BY <1>3, <2>3 DEF Earliest, T
<1> QED
    BY <1>2, <1>3

\* What a sweep settles is tight, whether it moves the task or leaves it where it was.
LEMMA Tight ==
    ASSUME NEW D, NEW seen, NEW edges, Sweepable(D, seen, edges),
           NEW f, IsSettled(f, seen, edges, Later(Floor(seen), Today)), NEW t \in D, Movable(seen[t])
    PROVE  LET before == Dues(f, t, edges)
               earliest == Earliest(before, Floor(seen))
           IN  /\ f[t].start <= earliest
               /\ before # {} => f[t].start = earliest
               /\ f[t] # SpanOf(seen[t]) =>
                    /\ Length(f[t]) = Length(seen[t])
                    /\ before = {} => f[t].start = earliest /\ f[t].start < seen[t].start
<1> DEFINE floor == Later(Floor(seen), Today)
           before == Dues(f, t, edges)
           earliest == Earliest(before, Floor(seen))
           row == seen[t]
           to(day) == Span(day, day + Length(row))
<1>1. IsFloor(floor, D, seen)
    BY FloorType DEF Sweepable, IsFloor
<1>2. floor \in Int /\ Floor(seen) \in Int
    BY FloorType, FloorIsDay DEF Sweepable, Movable
<1>3. f[t] = Settles(row, before, floor) /\ before \subseteq Int /\ IsFiniteSet(before)
    BY <1>1, SettledType
<1>4. row.start \in Int /\ row.due \in Int /\ Today \in Int
    BY ScheduleAssumption DEF Sweepable, Movable, Dated, TaskRow, Day
<1>5. earliest = IF before = {} THEN floor ELSE Later(Max(before), Today)
    BY <1>2, <1>3, EarliestIs
<1> HIDE DEF floor, before, row, earliest
<1>6. ASSUME NEW day \in Int PROVE to(day).start = day /\ Length(to(day)) = Length(row)
    BY <1>4 DEF Span, Length
<1>7. CASE before # {}
  <2> DEFINE m == Max(before)
  <2>1. m \in Int
      BY <1>3, <1>7, MaxOf
  <2> HIDE DEF m
  <2>2. Later(m, Today) \in Int
      BY <1>4, <2>1 DEF Later
  <2>3. f[t] = to(Later(m, Today))
      BY <1>3, <1>7 DEF Settles, m, row
  <2>4. f[t].start = Later(m, Today) /\ Length(f[t]) = Length(row)
      BY <1>6, <2>2, <2>3
  <2>5. f[t].start = earliest /\ f[t].start <= earliest
      BY <1>5, <1>7, <2>2, <2>4 DEF m
  <2> QED
      BY <1>7, <2>4, <2>5 DEF before, row, earliest
<1>8. CASE before = {}
  <2>1. f[t] = IF floor < row.start THEN to(floor) ELSE SpanOf(row)
      BY <1>3, <1>8 DEF Settles, row
  <2>2. f[t] # SpanOf(row) => floor < row.start /\ f[t].start = floor /\ Length(f[t]) = Length(row)
      BY <1>2, <1>6, <2>1
  <2>3. SpanOf(row).start = row.start
      BY DEF SpanOf, Span
  <2>4. f[t].start <= floor
      BY <1>2, <1>4, <1>6, <2>1, <2>3
  <2> QED
      BY <1>5, <1>8, <2>2, <2>4 DEF before, row, earliest
<1> QED
    BY <1>7, <1>8

\* A compaction nobody writes under never fails, and settles on a tight schedule.
THEOREM Compactions == Spec => []CompactIsTight
<1>1. ASSUME AllInv, NEW c \in Call, call[c].op = "compact", Quiet(c)
      PROVE  call[c].pc # "failed" /\ (call[c].pc = "write" => NoSlack(c))
  <2> DEFINE moved == call[c].moved
             own == Own(call[c].group)
             seen == OwnRows(call[c].group)
             edges == OwnEdges(call[c].group)
             end(t) == IF t \in DOMAIN moved THEN moved[t] ELSE SpanOf(task[t])
             before(t) == {end(p).due : p \in {x \in own : <<x, t>> \in deps}} \ {NoDate}
  <2>1. Home /\ Reads(c) /\ Acyclic(deps) /\ deps \subseteq Task \X Task /\ task \in [Task -> TaskRow]
      BY <1>1 DEF AllInv, ViewInv, IInv, TypeInv, TypeOK, Quiet
  <2>2. call[c].pc # "failed" /\ (call[c].pc = "write" => moved = Compacted(seen, edges))
      BY <1>1, <2>1 DEF Reads, Quiet
  <2> SUFFICES ASSUME call[c].pc = "write"
               PROVE  /\ \A t \in own : Movable(task[t]) =>
                           /\ end(t).start <= Earliest(before(t), Floor(seen))
                           /\ before(t) # {} => end(t).start = Earliest(before(t), Floor(seen))
                      /\ \A t \in DOMAIN moved :
                           /\ t \in own /\ Movable(task[t]) /\ Length(moved[t]) = Length(task[t])
                           /\ before(t) = {} => /\ moved[t].start = Earliest(before(t), Floor(seen))
                                                /\ moved[t].start < task[t].start
      BY <2>2 DEF NoSlack, Own, OwnRows, Earliest
  <2>3. DOMAIN seen = own /\ \A t \in own : seen[t] = task[t]
      BY <2>1 DEF OwnRows, Restrict, Own
  <2>4. Sweepable(own, seen, edges)
    <3>1. PICK g \in Group : \A t \in Task : task[t].project = g
        BY <2>1 DEF Home
    <3>2. own \in {{}, Task}
        BY <3>1 DEF Own
    <3>3. edges \subseteq deps /\ edges \subseteq own \X own
        BY <2>1, <3>2 DEF OwnEdges
    <3>4. Acyclic(edges)
        BY <2>1, <3>3, FewerEdges
    <3>5. seen \in [own -> TaskRow]
        BY <2>1 DEF OwnRows, Restrict, Own
    <3> HIDE DEF own, seen, edges
    <3> QED
        BY <3>2, <3>3, <3>4, <3>5 DEF Sweepable
  <2>5. PICK f : /\ IsSettled(f, seen, edges, Later(Floor(seen), Today))
                 /\ moved = [t \in {x \in own : f[x] # SpanOf(seen[x])} |-> f[t]]
    <3>1. moved = Compacted(seen, edges)
        BY <2>2
    <3> HIDE DEF own, seen, edges, moved
    <3>2. PICK f : /\ IsSettled(f, seen, edges, Later(Floor(seen), Today))
                   /\ Compacted(seen, edges) = [t \in {x \in own : f[x] # SpanOf(seen[x])} |-> f[t]]
        BY <2>4, CompactedIs
    <3> QED
        BY <3>1, <3>2
  <2>6. \A t \in own : end(t) = f[t]
    <3> HIDE DEF own, seen, edges, moved
    <3> QED
        BY <2>3, <2>5
  <2>7. ASSUME NEW t \in own PROVE before(t) = Dues(f, t, edges)
    <3>1. Preds(t, edges) = {x \in own : <<x, t>> \in deps}
        BY <2>1 DEF Preds, OwnEdges
    <3> HIDE DEF own, edges, moved
    <3> QED
        BY <2>6, <3>1 DEF Dues
  <2> HIDE DEF own, seen, edges, moved, before, end
  <2>8. ASSUME NEW t \in DOMAIN moved PROVE t \in own /\ Movable(task[t]) /\ moved[t] = f[t] /\ f[t] # SpanOf(seen[t])
    <3>1. t \in own /\ moved[t] = f[t] /\ f[t] # SpanOf(seen[t])
        BY <2>5, <2>8
    <3>2. f[t] = Settles(seen[t], Dues(f, t, edges), Later(Floor(seen), Today))
        BY <2>3, <2>5, <3>1 DEF IsSettled
    <3>3. Movable(seen[t])
        BY <3>1, <3>2 DEF Settles
    <3> QED
        BY <2>3, <3>1, <3>3
  <2>9. ASSUME NEW t \in own, Movable(task[t])
        PROVE  /\ f[t].start <= Earliest(before(t), Floor(seen))
               /\ before(t) # {} => f[t].start = Earliest(before(t), Floor(seen))
               /\ f[t] # SpanOf(seen[t]) =>
                    /\ Length(f[t]) = Length(task[t])
                    /\ before(t) = {} => /\ f[t].start = Earliest(before(t), Floor(seen))
                                         /\ f[t].start < task[t].start
    <3>1. Movable(seen[t]) /\ seen[t] = task[t] /\ before(t) = Dues(f, t, edges)
        BY <2>3, <2>7, <2>9
    <3> QED
        BY <2>4, <2>5, <3>1, Tight
  <2> QED
      BY <2>6, <2>8, <2>9
<1>2. AllInv => CompactIsTight
    BY <1>1 DEF CompactIsTight
<1> QED
    BY <1>2, AllInvariant, PTL

-----------------------------------------------------------------------------
(* Shifts *)

\* Where a task is when some have been moved, and an edge it satisfies.
Cur(M, x) == IF x \in DOMAIN M THEN M[x] ELSE SpanOf(task[x])
After(M, e) == ~Dated(task[e[2]]) \/ Cur(M, e[2]).start >= M[e[1]].due

\* What a cascade from a task has moved: that task to where the user dropped it, and others
\* later than they were, at their old length, no later than a moved predecessor makes them.
Follows(M, x) ==
    /\ Dated(task[x]) /\ Length(M[x]) = Length(task[x]) /\ task[x].start < M[x].start
    /\ \E p \in DOMAIN M : <<p, x>> \in deps /\ M[x].start <= M[p].due
Pushes(M, from, at) ==
    /\ OfSome(M, Dates) /\ from \in DOMAIN M /\ M[from] = at
    /\ \A x \in DOMAIN M \ {from} : Follows(M, x)

\* Nothing that has moved leads back to the task the cascade started from, or to itself.
LEMMA NeverBack ==
    ASSUME Acyclic(deps), NEW M, NEW from, NEW at, Pushes(M, from, at),
           NEW e \in deps, e[1] \in DOMAIN M
    PROVE  e[2] # from /\ (e[2] \in Task => e[1] # e[2])
<1>1. DOMAIN M \in SUBSET Task /\ DOMAIN M # {}
    BY DEF Pushes, OfSome
<1>2. PICK t \in DOMAIN M : \A g \in deps : g[2] = t => g[1] \notin DOMAIN M
    BY <1>1 DEF Acyclic
<1>3. t = from
  <2>1. ASSUME t # from PROVE FALSE
    <3>1. PICK p \in DOMAIN M : <<p, t>> \in deps
        BY <2>1 DEF Pushes, Follows
    <3> QED
        BY <1>2, <3>1
  <2> QED
      BY <2>1
<1>4. ASSUME e[2] \in Task, e[1] = e[2] PROVE FALSE
  <2>1. {e[2]} \in SUBSET Task /\ {e[2]} # {}
      BY <1>4
  <2>2. PICK x \in {e[2]} : \A g \in deps : g[2] = x => g[1] \notin {e[2]}
      BY <2>1 DEF Acyclic
  <2> QED
      BY <1>4, <2>2
<1> QED
    BY <1>2, <1>3, <1>4

\* One edge keeps what has been moved following, satisfies itself and undoes no other.
LEMMA PushKeeps ==
    ASSUME TypeInv, Acyclic(deps), NEW acc, acc = [moved |-> acc.moved, next |-> acc.next],
           NEW from, NEW at, Pushes(acc.moved, from, at), NEW e \in deps, e[1] \in DOMAIN acc.moved
    PROVE  LET to == Push(acc, e)
           IN  /\ Pushes(to.moved, from, at) /\ DOMAIN acc.moved \subseteq DOMAIN to.moved
               /\ to.next \subseteq acc.next \cup {e[2]} /\ acc.next \subseteq to.next
               /\ to = [moved |-> to.moved, next |-> to.next]
               /\ After(to.moved, e)
               /\ \A g \in deps : g[1] \in DOMAIN to.moved \ to.next =>
                    g[1] \in DOMAIN acc.moved \ acc.next /\ (After(acc.moved, g) => After(to.moved, g))
<1> DEFINE M == acc.moved
           x == e[2]
           row == task[x]
           now == Cur(M, x)
           due == M[e[1]].due
           N == [y \in DOMAIN M \cup {x} |-> IF y = x THEN Span(due, due + Length(now)) ELSE M[y]]
           to == [moved |-> N, next |-> acc.next \cup {x}]
<1>1. x \in Task /\ row \in TaskRow /\ e = <<e[1], e[2]>>
    BY DEF TypeInv, TypeOK
<1>2. x # from /\ e[1] # x
    BY <1>1, NeverBack
<1>3. Push(acc, e) = IF ~Dated(row) \/ now.start >= due THEN acc ELSE to
    BY DEF Push, Cur
<1>4. due \in Int
    BY DEF Pushes, OfSome, Dates
<1>5. CASE ~Dated(row) \/ now.start >= due
  <2>1. Push(acc, e) = acc
      BY <1>3, <1>5
  <2>2. After(M, e)
      BY <1>5 DEF After
  <2> QED
      BY <2>1, <2>2
<1>6. CASE ~(~Dated(row) \/ now.start >= due)
  <2>1. now \in Dates /\ Length(now) = Length(row) /\ row.start <= now.start
    <3>1. row.start \in Int /\ row.due \in Int
        BY <1>1, <1>6 DEF Dated, TaskRow, Day
    <3>2. CASE x \in DOMAIN M
      <4>1. now = M[x] /\ M[x] \in Dates /\ Follows(M, x)
          BY <1>2, <3>2 DEF Cur, Pushes, OfSome
      <4> QED
          BY <3>1, <4>1 DEF Follows, Dates
    <3>3. CASE x \notin DOMAIN M
      <4>1. now = SpanOf(row)
          BY <3>3 DEF Cur
      <4> QED
          BY <3>1, <4>1 DEF SpanOf, Span, Dates, Length
    <3> QED
        BY <3>2, <3>3
  <2>2. now.start < due /\ now.start \in Int /\ now.due \in Int /\ Length(now) \in Int
      BY <1>4, <1>6, <2>1 DEF Dates, Length
  <2> DEFINE len == Length(now)
             new == Span(due, due + len)
  <2>3. new \in Dates /\ new.start = due /\ new.due = due + len /\ Length(new) = len /\ len \in Int
    <3> HIDE DEF len, due, now
    <3>1. len \in Int
        BY <2>2 DEF len
    <3> QED
        BY <1>4, <3>1 DEF Span, Dates, Length
  <2>4. new.start > now.start /\ new.due > now.due
    <3>1. now.due = now.start + len
        BY <2>2 DEF Length
    <3> HIDE DEF new, len, now, due
    <3> QED
        BY <1>4, <2>2, <2>3, <3>1
  <2>5. DOMAIN N = DOMAIN M \cup {x} /\ N[x] = new /\ \A y \in DOMAIN M \ {x} : N[y] = M[y]
      OBVIOUS
  <2> HIDE DEF N, new, len, now, due
  <2>6. OfSome(N, Dates)
    <3>1. N \in [DOMAIN M \cup {x} -> Dates]
      <4>1. \A y \in DOMAIN M \cup {x} : N[y] \in Dates
          BY <2>3, <2>5 DEF Pushes, OfSome
      <4> QED
          BY <4>1 DEF N
    <3> QED
        BY <3>1, <2>5, <1>1 DEF OfSome, Pushes
  <2>7. from \in DOMAIN N /\ N[from] = at
      BY <1>2, <2>5 DEF Pushes
  <2>8. Follows(N, x)
    <3>1. e[1] \in DOMAIN N /\ <<e[1], x>> \in deps /\ N[e[1]].due = due
        BY <1>1, <1>2, <2>5 DEF due
    <3>2. Dated(row) /\ Length(N[x]) = Length(row) /\ row.start < N[x].start /\ N[x].start <= due
        BY <1>1, <1>4, <1>6, <2>1, <2>2, <2>3, <2>4, <2>5 DEF len, Dated, TaskRow, Day
    <3> QED
        BY <3>1, <3>2 DEF Follows
  <2>9. ASSUME NEW y \in DOMAIN N \ {from}, y # x PROVE Follows(N, y)
    <3>1. Follows(M, y) /\ N[y] = M[y] /\ y \in DOMAIN M
        BY <2>5, <2>9 DEF Pushes
    <3>2. PICK p \in DOMAIN M : <<p, y>> \in deps /\ M[y].start <= M[p].due
        BY <3>1 DEF Follows
    <3>3. N[y].start <= N[p].due
      <4>1. CASE p = x
        <5>1. M[x] = now
            BY <4>1 DEF now, Cur
        <5>2. M[y].start \in Int
            BY <3>1 DEF Pushes, OfSome, Dates
        <5> QED
            BY <1>4, <2>2, <2>3, <2>4, <2>5, <3>1, <3>2, <4>1, <5>1, <5>2
      <4>2. CASE p # x
          BY <2>5, <3>1, <3>2, <4>2
      <4> QED
          BY <4>1, <4>2
    <3> QED
        BY <2>5, <3>1, <3>2, <3>3 DEF Follows
  <2>10. Pushes(N, from, at)
      BY <2>6, <2>7, <2>8, <2>9 DEF Pushes
  <2>11. After(N, e)
    <3>1. Cur(N, x).start = due /\ N[e[1]].due = due
        BY <1>2, <2>3, <2>5 DEF Cur, due
    <3> QED
        BY <1>4, <3>1 DEF After
  <2>12. ASSUME NEW g \in deps, g[1] \in DOMAIN N \ (acc.next \cup {x})
         PROVE  g[1] \in DOMAIN M \ acc.next /\ (After(M, g) => After(N, g))
    <3>1. g[1] \in DOMAIN M \ acc.next /\ N[g[1]] = M[g[1]] /\ M[g[1]].due \in Int
        BY <2>5, <2>12 DEF Pushes, OfSome, Dates
    <3>2. CASE g[2] = x
      <4>1. Cur(M, g[2]) = now /\ Cur(N, g[2]).start > now.start /\ Cur(N, g[2]).start \in Int
          BY <1>4, <2>3, <2>4, <2>5, <3>2 DEF Cur, now
      <4> QED
          BY <2>2, <3>1, <4>1 DEF After
    <3>3. CASE g[2] # x
      <4>1. Cur(N, g[2]) = Cur(M, g[2])
          BY <2>5, <3>3 DEF Cur
      <4> QED
          BY <3>1, <4>1 DEF After
    <3> QED
        BY <3>1, <3>2, <3>3
  <2>13. Push(acc, e) = to /\ to.moved = N /\ to.next = acc.next \cup {x}
      BY <1>3, <1>6
  <2> HIDE DEF to
  <2>14. Push(acc, e) = [moved |-> N, next |-> acc.next \cup {x}]
      BY <2>13 DEF to
  <2> QED
      BY <2>5, <2>10, <2>11, <2>12, <2>13, <2>14
<1> QED
    BY <1>5, <1>6

\* A pass leaves unsatisfied only edges out of what it has just pushed.
LEMMA PassKeeps ==
    ASSUME TypeInv, Acyclic(deps), NEW M, NEW from, NEW at, Pushes(M, from, at),
           NEW F, F \subseteq DOMAIN M, \A e \in deps : e[1] \in DOMAIN M \ F => After(M, e),
           NEW order \in SetToSeqs({e \in deps : e[1] \in F})
    PROVE  LET to == FoldLeft(Push, [moved |-> M, next |-> {}], order)
           IN  /\ Pushes(to.moved, from, at)
               /\ to.next \subseteq Successors(F, deps)
               /\ \A e \in deps : e[1] \in DOMAIN to.moved \ to.next => After(to.moved, e)
<1> DEFINE out == {e \in deps : e[1] \in F}
           n == Cardinality(out)
           done(k) == {order[j] : j \in 1..k}
           base == [moved |-> M, next |-> {}]
           Kept(acc, k) ==
             /\ Pushes(acc.moved, from, at) /\ F \subseteq DOMAIN acc.moved
             /\ acc.next \subseteq Successors(F, deps)
             /\ \A e \in deps : e[1] \in DOMAIN acc.moved \ acc.next =>
                  After(acc.moved, e) \/ (e[1] \in F /\ e \notin done(k))
           Q == [k \in 0..n |-> {acc \in Accs : Kept(acc, k)}]
           to == FoldLeft(Push, base, order)
<1>1. /\ n \in Nat /\ DOMAIN order = 1..n /\ \A k \in 1..n : order[k] \in out
      /\ \A e \in out : \E k \in 1..n : order[k] = e
  <2>1. out \in SUBSET deps /\ order \in SetToSeqs(out)
      OBVIOUS
  <2> HIDE DEF out
  <2> QED
      BY <2>1, OrderOf
<1>2. Successors(F, deps) \subseteq Task /\ \A e \in out : e[2] \in Successors(F, deps)
    BY DEF Successors, TypeInv, TypeOK
<1>3. base \in Accs /\ Kept(base, 0)
  <2>1. base.moved = M /\ base.next = {} /\ base = [moved |-> base.moved, next |-> base.next]
      OBVIOUS
  <2>2. done(0) = {}
      OBVIOUS
  <2> HIDE DEF base, done
  <2>3. base \in Accs
      BY <2>1, IsAcc DEF Pushes
  <2> QED
      BY <2>1, <2>2, <2>3
<1>4. ASSUME NEW k \in 0..(n - 1), NEW acc \in Accs, Kept(acc, k)
      PROVE  Push(acc, order[k + 1]) \in Accs /\ Kept(Push(acc, order[k + 1]), k + 1)
  <2> DEFINE g == order[k + 1]
             p == Push(acc, g)
  <2>1. k + 1 \in 1..n /\ g \in out
      BY <1>1
  <2>2. acc = [moved |-> acc.moved, next |-> acc.next]
      BY DEF Accs
  <2>3. done(k + 1) = done(k) \cup {g}
    <3>1. 1..(k + 1) = (1..k) \cup {k + 1}
        BY <1>1
    <3> QED
        BY <3>1
  <2>4. g \in deps /\ g[1] \in DOMAIN acc.moved
      BY <1>4, <2>1
  <2> HIDE DEF g, done, out
  <2>5. /\ Pushes(p.moved, from, at) /\ DOMAIN acc.moved \subseteq DOMAIN p.moved
        /\ p.next \subseteq acc.next \cup {g[2]} /\ acc.next \subseteq p.next
        /\ p = [moved |-> p.moved, next |-> p.next]
        /\ After(p.moved, g)
        /\ \A e \in deps : e[1] \in DOMAIN p.moved \ p.next =>
             e[1] \in DOMAIN acc.moved \ acc.next /\ (After(acc.moved, e) => After(p.moved, e))
      BY <1>4, <2>2, <2>4, PushKeeps
  <2> HIDE DEF p
  <2>6. p.next \subseteq Successors(F, deps)
      BY <1>2, <1>4, <2>1, <2>5
  <2>7. p \in Accs
      BY <1>2, <2>5, <2>6, IsAcc DEF Pushes
  <2>8. Kept(p, k + 1)
      BY <1>4, <2>3, <2>5, <2>6
  <2> QED
      BY <2>7, <2>8 DEF p, g
<1> HIDE DEF Kept, base, out
<1>5. base \in Q[0] /\ \A k \in 0..(n - 1) : \A acc \in Q[k] : Push(acc, order[k + 1]) \in Q[k + 1]
  <2>1. base \in Q[0]
      BY <1>1, <1>3
  <2>2. ASSUME NEW k \in 0..(n - 1), NEW acc \in Q[k] PROVE Push(acc, order[k + 1]) \in Q[k + 1]
    <3>1. k \in 0..n /\ k + 1 \in 0..n
        BY <1>1
    <3>2. acc \in Accs /\ Kept(acc, k)
        BY <3>1, <2>2
    <3> HIDE DEF n
    <3> QED
        BY <3>1, <3>2, <1>4
  <2> QED
      BY <2>1, <2>2
<1>6. to \in Q[n]
  <2> HIDE DEF Q, n
  <2> QED
      BY <1>1, <1>5, FoldKeeps
<1>7. to \in Accs /\ Kept(to, n)
    BY <1>1, <1>6
<1> HIDE DEF to
<1>8. \A e \in out : e \in done(n)
    BY <1>1
<1>9. \A e \in deps : e[1] \in F => e \in out
    BY DEF out
<1>10. /\ Pushes(to.moved, from, at)
       /\ to.next \subseteq Successors(F, deps)
       /\ \A e \in deps : e[1] \in DOMAIN to.moved \ to.next => After(to.moved, e)
    BY <1>7, <1>8, <1>9 DEF Kept
<1> QED
    BY <1>10 DEF to, base

\* How many passes are left: what a pass reaches lies in a set nothing leads out of, and what
\* the next one reaches in a smaller one.
Room(F, n) ==
    \E S \in SUBSET Task : /\ F \subseteq S /\ \A e \in deps : e[1] \in S => e[2] \in S
                           /\ Cardinality(S) + n <= Cardinality(Task)
LEMMA Narrower ==
    ASSUME Acyclic(deps), NEW F, NEW n \in Nat, Room(F, n), F # {},
           NEW G, G \subseteq Successors(F, deps)
    PROVE  n < Cardinality(Task) /\ Room(G, n + 1)
<1>1. PICK S \in SUBSET Task : /\ F \subseteq S /\ \A e \in deps : e[1] \in S => e[2] \in S
                               /\ Cardinality(S) + n <= Cardinality(Task)
    BY DEF Room
<1> DEFINE T == Successors(S, deps)
<1>2. T \subseteq S /\ G \subseteq T /\ \A e \in deps : e[1] \in T => e[2] \in T
    BY <1>1 DEF Successors
<1>3. S \in SUBSET Task /\ S # {}
    BY <1>1
<1>4. PICK t \in S : \A e \in deps : e[2] = t => e[1] \notin S
    BY <1>3 DEF Acyclic
<1>5. t \notin T
    BY <1>4 DEF Successors
<1> HIDE DEF T
<1>6. IsFiniteSet(Task) /\ IsFiniteSet(S) /\ IsFiniteSet(S \ {t})
    BY ScheduleAssumption, FS_Subset
<1>7. T \subseteq S \ {t}
    BY <1>2, <1>5
<1>8. IsFiniteSet(T) /\ Cardinality(T) <= Cardinality(S \ {t})
    BY <1>6, <1>7, FS_Subset
<1>9. Cardinality(S \ {t}) = Cardinality(S) - 1
    BY <1>6, FS_RemoveElement
<1>10. Cardinality(S) \in Nat /\ Cardinality(T) \in Nat /\ Cardinality(Task) \in Nat
    BY <1>6, <1>8, FS_CardinalityType
<1>11. Cardinality(T) + (n + 1) <= Cardinality(Task) /\ n < Cardinality(Task)
    BY <1>1, <1>8, <1>9, <1>10
<1> QED
    BY <1>1, <1>2, <1>11 DEF Room

\* Where the tasks end, as an equation of which there is one solution.
EndsAt(f, from, at) ==
    f = [t \in Task |->
           LET pushers == {p \in Preds(t, deps) : p = from \/ f[p] # SpanOf(task[p])}
           IN  IF t = from THEN at ELSE Pushed(t, {f[p].due : p \in pushers})]
LEMMA OneEnd ==
    ASSUME TypeInv, Acyclic(deps), NEW from, NEW at, NEW f, NEW g, EndsAt(f, from, at), EndsAt(g, from, at)
    PROVE  f = g
<1> DEFINE pushers(h, t) == {p \in Preds(t, deps) : p = from \/ h[p] # SpanOf(task[p])}
           bad == {t \in Task : f[t] # g[t]}
<1>1. \A t \in Task : /\ f[t] = IF t = from THEN at ELSE Pushed(t, {f[p].due : p \in pushers(f, t)})
                      /\ g[t] = IF t = from THEN at ELSE Pushed(t, {g[p].due : p \in pushers(g, t)})
    BY DEF EndsAt
<1>2. ASSUME bad # {} PROVE FALSE
  <2>1. bad \in SUBSET Task /\ bad # {}
      BY <1>2
  <2>2. PICK t \in bad : \A e \in deps : e[2] = t => e[1] \notin bad
      BY <2>1 DEF Acyclic
  <2>3. \A p \in Preds(t, deps) : p \notin bad /\ p \in Task
      BY <2>2 DEF Preds, TypeInv, TypeOK
  <2>4. ASSUME t # from PROVE FALSE
    <3>2. pushers(f, t) = pushers(g, t) /\ \A p \in pushers(f, t) : f[p] = g[p]
        BY <2>3
    <3>3. {f[p].due : p \in pushers(f, t)} = {g[p].due : p \in pushers(g, t)}
        BY <3>2
    <3> HIDE DEF pushers
    <3> QED
        BY <1>1, <2>2, <2>4, <3>3
  <2> QED
      BY <1>1, <2>2, <2>4
<1>3. f = [t \in Task |-> f[t]] /\ g = [t \in Task |-> g[t]]
    BY DEF EndsAt
<1>4. \A t \in Task : f[t] = g[t]
    BY <1>2
<1> QED
    BY <1>3, <1>4

\* When every edge out of what has moved is satisfied, it has moved to the least schedule.
LEMMA LeastIs ==
    ASSUME TypeInv, Acyclic(deps), NEW M, NEW from, NEW at, Pushes(M, from, at),
           \A e \in deps : e[1] \in DOMAIN M => After(M, e)
    PROVE  \A x \in Task : Least(from, at)[x] = Cur(M, x)
<1> DEFINE cur == [t \in Task |-> Cur(M, t)]
           pushers(t) == {p \in Preds(t, deps) : p = from \/ cur[p] # SpanOf(task[p])}
           dues(t) == {cur[p].due : p \in pushers(t)}
           moved(t) == {p \in DOMAIN M : <<p, t>> \in deps}
<1>0. deps \subseteq Task \X Task /\ \A t \in Task : task[t] \in TaskRow
    BY DEF TypeInv, TypeOK
<1>1. /\ DOMAIN M \subseteq Task /\ \A x \in DOMAIN M : M[x] \in Dates /\ cur[x] = M[x]
      /\ \A x \in Task \ DOMAIN M : cur[x] = SpanOf(task[x])
    BY DEF Pushes, OfSome, Cur
<1>9. /\ \A x \in DOMAIN M : M[x].start \in Int /\ M[x].due \in Int
      /\ \A x \in Task : Dated(task[x]) => task[x].start \in Int /\ task[x].due \in Int
  <2>1. \A x \in DOMAIN M : M[x].start \in Int /\ M[x].due \in Int
      BY <1>1 DEF Dates
  <2>2. \A x \in Task : Dated(task[x]) => task[x].start \in Int /\ task[x].due \in Int
      BY <1>0 DEF Dated, TaskRow, Day
  <2> QED
      BY <2>1, <2>2
<1>2. ASSUME NEW x \in DOMAIN M, x # from PROVE M[x] # SpanOf(task[x])
  <2>1. Follows(M, x)
      BY <1>2 DEF Pushes
  <2>2. x \in Task /\ Dated(task[x]) /\ task[x].start < M[x].start
      BY <1>1, <2>1 DEF Follows
  <2>3. task[x].start \in Int /\ M[x].start \in Int
      BY <1>9, <2>2
  <2> QED
      BY <2>2, <2>3 DEF SpanOf, Span
<1>3. from \in DOMAIN M /\ M[from] = at
    BY DEF Pushes
<1>4. ASSUME NEW t \in Task PROVE pushers(t) = moved(t)
  <2>1. \A p : p \in Preds(t, deps) <=> <<p, t>> \in deps
      BY <1>0 DEF Preds
  <2>2. \A p \in Preds(t, deps) : p \in Task
      BY <1>0 DEF Preds
  <2> HIDE DEF cur
  <2> QED
      BY <1>1, <1>2, <1>3, <2>1, <2>2
<1> HIDE DEF cur, pushers
<1>5. ASSUME NEW t \in Task, t # from PROVE cur[t] = Pushed(t, dues(t))
  <2> DEFINE T == dues(t)
             row == task[t]
  <2>1. \A d : d \in T <=> \E p \in moved(t) : d = M[p].due
      BY <1>1, <1>4
  <2>2. T \subseteq Int
      BY <1>9, <2>1
  <2>3. IsFiniteSet(T)
    <3> DEFINE g == [p \in pushers(t) |-> cur[p].due]
    <3>1. pushers(t) \subseteq Task
        BY <1>1, <1>4
    <3>2. IsFiniteSet(pushers(t))
        BY <3>1, ScheduleAssumption, FS_Subset
    <3>3. T = {g[p] : p \in pushers(t)}
        OBVIOUS
    <3> HIDE DEF g, T
    <3>4. IsFiniteSet({g[p] : p \in pushers(t)})
        BY <3>2, Images
    <3> QED
        BY <3>3, <3>4
  <2> HIDE DEF T
  <2>4. Dated(row) => \A d \in T : d <= cur[t].start
    <3>1. ASSUME Dated(row), NEW p \in moved(t) PROVE M[p].due <= cur[t].start
      <4>1. After(M, <<p, t>>) /\ Cur(M, t) = cur[t]
          BY <3>1 DEF cur
      <4>2. Cur(M, t).start >= M[p].due
          BY <4>1, <3>1 DEF After
      <4>3. cur[t].start \in Int /\ M[p].due \in Int
        <5>1. p \in DOMAIN M
            BY <3>1
        <5>2. (cur[t] = M[t] /\ t \in DOMAIN M) \/ cur[t] = SpanOf(task[t])
            BY <1>1
        <5>3. SpanOf(task[t]).start = task[t].start
            BY DEF SpanOf, Span
        <5> QED
            BY <1>9, <3>1, <5>1, <5>2, <5>3
      <4> QED
          BY <4>1, <4>2, <4>3
    <3> QED
        BY <2>1, <3>1
  <2>5. CASE t \in DOMAIN M
    <3>1. Follows(M, t) /\ cur[t] = M[t] /\ M[t] \in Dates
        BY <1>1, <1>5, <2>5 DEF Pushes
    <3>2. PICK p \in DOMAIN M : <<p, t>> \in deps /\ M[t].start <= M[p].due
        BY <3>1 DEF Follows
    <3>3. M[p].due \in T
        BY <2>1, <3>2
    <3> DEFINE m == Max(T)
    <3>4. m \in T /\ \A d \in T : d <= m
        BY <2>2, <2>3, <3>3, MaxOf
    <3> HIDE DEF m
    <3>5. m = M[t].start
      <4>1. M[t].start \in Int /\ m \in Int /\ M[p].due \in Int
          BY <2>2, <3>1, <3>3, <3>4 DEF Dates
      <4>2. m <= M[t].start
          BY <2>4, <3>1, <3>4 DEF Follows
      <4>3. M[p].due <= m
          BY <3>3, <3>4
      <4> QED
          BY <3>2, <4>1, <4>2, <4>3
    <3>6. row.start \in Int /\ row.due \in Int /\ Dated(row)
        BY <1>0, <3>1 DEF Follows, Dated, TaskRow, Day
    <3>7. ~(m <= row.start)
        BY <3>1, <3>5, <3>6 DEF Follows, Dates
    <3>8. M[t] = Span(m, m + Length(row))
      <4>1. M[t].due = M[t].start + Length(row)
          BY <3>1, <3>6 DEF Follows, Length, Dates
      <4>2. M[t] = [start |-> M[t].start, due |-> M[t].due]
          BY <3>1 DEF Dates
      <4> QED
          BY <3>5, <4>1, <4>2 DEF Span
    <3> QED
        BY <3>1, <3>3, <3>6, <3>7, <3>8 DEF Pushed, T, m
  <2>6. CASE t \notin DOMAIN M
    <3>1. cur[t] = SpanOf(row)
        BY <1>1, <2>6
    <3>2. CASE ~Dated(row) \/ T = {}
        BY <3>1, <3>2 DEF Pushed, T
    <3>3. CASE Dated(row) /\ T # {}
      <4>1. Max(T) \in T
          BY <2>2, <2>3, <3>3, MaxOf
      <4>2. Max(T) <= row.start
          BY <2>4, <3>1, <3>3, <4>1 DEF SpanOf, Span
      <4> QED
          BY <3>1, <4>2 DEF Pushed, T
    <3> QED
        BY <3>2, <3>3
  <2> QED
      BY <2>5, <2>6
<1>6. EndsAt(cur, from, at)
  <2>1. cur = [t \in Task |-> cur[t]]
      BY DEF cur
  <2>2. \A t \in Task : cur[t] = IF t = from THEN at ELSE Pushed(t, {cur[p].due : p \in pushers(t)})
      BY <1>1, <1>3, <1>5
  <2>3. cur = [t \in Task |-> IF t = from THEN at ELSE Pushed(t, {cur[p].due : p \in pushers(t)})]
      BY <2>1, <2>2
  <2> QED
      BY <2>3 DEF EndsAt, pushers
<1>7. EndsAt(Least(from, at), from, at)
  <2> DEFINE l == CHOOSE f : EndsAt(f, from, at)
  <2>1. EndsAt(l, from, at)
      BY <1>6
  <2>2. Least(from, at) = l
      BY DEF Least, EndsAt
  <2> QED
      BY <2>1, <2>2
<1>8. Least(from, at) = cur
    BY <1>6, <1>7, OneEnd
<1> QED
    BY <1>8 DEF cur

\* A shift, and one that nobody has written under: what it has moved follows, what it has
\* looked at is satisfied, and it has passes enough.
Cascade(r) ==
    /\ r.pc # "failed"
    /\ r.pc \in {"cascade", "write"} =>
         /\ \A t \in r.on : Pushes(r.moved, t, r.at)
         /\ \A e \in deps : e[1] \in DOMAIN r.moved \ r.frontier => After(r.moved, e)
         /\ r.frontier = {} <=> r.pc = "write"
         /\ Room(r.frontier, r.pass)
Shift(r) ==
    r.op = "shift" =>
        /\ \E t \in Task : r.on = {t}
        /\ r.pc \notin {"cascade", "write", "failed"} => r.pass = 0
        /\ r.clean => Cascade(r)
ShiftInv == ~strayed => \A c \in Call : Shift(call[c])

LEMMA ShiftOf ==
    ASSUME UNCHANGED <<task, deps>>, NEW r, Shift(r)
    PROVE  Shift(r)'
<1>1. \A M, from, at : Pushes(M, from, at) => Pushes(M, from, at)'
    BY DEF Pushes, Follows
<1>2. \A M, e : After(M, e) => After(M, e)'
    BY DEF After, Cur
<1>3. \A F, n : Room(F, n) => Room(F, n)'
    BY DEF Room
<1>4. Cascade(r) => Cascade(r)'
    BY <1>1, <1>2, <1>3 DEF Cascade
<1> QED
    BY <1>4 DEF Shift

LEMMA ShiftOfOne ==
    ASSUME AllInv, ShiftInv, NEW c \in Call, strayed' = strayed, NEW r,
           call' = [call EXCEPT ![c] = r],
           ~strayed => Shift(r), UNCHANGED <<task, deps>>
    PROVE  ShiftInv'
<1> SUFFICES ASSUME ~strayed PROVE \A d \in Call : Shift(call[d])'
    BY DEF ShiftInv
<1> SUFFICES ASSUME NEW d \in Call PROVE Shift(call[d])'
    OBVIOUS
<1>1. call'[c] = r /\ \A x \in Call \ {c} : call'[x] = call[x]
    BY OnlyCall DEF AllInv
<1> DEFINE s == IF d = c THEN r ELSE call[d]
<1>2. Shift(s) /\ call'[d] = s
    BY <1>1 DEF ShiftInv
<1> HIDE DEF s
<1>3. \A x : Shift(x) => Shift(x)'
    BY ShiftOf
<1> QED
    BY <1>2, <1>3

LEMMA ShiftEnds ==
    ASSUME AllInv, ShiftInv, NEW c \in Call, call' = [call EXCEPT ![c] = NoCall],
           UNCHANGED <<task, deps, strayed>>
    PROVE  ShiftInv'
<1>1. Shift(NoCall)
    BY DEF Shift, NoCall
<1> QED
    BY <1>1, ShiftOfOne

LEMMA ShiftBegins ==
    ASSUME AllInv, ShiftInv, NEW c \in Call,
           \/ \E t \in Task, s \in Spans : BeginShift(c, t, s)
           \/ \E g \in Project : BeginCompact(c, g)
           \/ \E p, s \in Task : BeginAdd(c, p, s)
    PROVE  ShiftInv'
<1>1. ASSUME NEW op, NEW g, NEW on, NEW at, Began(c, op, g, on, at),
             op = "shift" => \E t \in Task : on = {t}, UNCHANGED <<task, deps, strayed>>
      PROVE  ShiftInv'
  <2> DEFINE r == [NoCall EXCEPT !.op = op, !.pc = "lock", !.group = g, !.on = on, !.at = at]
  <2>1. call' = [call EXCEPT ![c] = r]
      BY <1>1 DEF Began
  <2>2. r.op = op /\ r.on = on /\ r.pc = "lock" /\ r.pass = 0
      BY DEF NoCall
  <2> HIDE DEF r
  <2>3. Shift(r)
      BY <1>1, <2>2 DEF Shift, Cascade
  <2> QED
      BY <1>1, <2>1, <2>3, ShiftOfOne
<1>2. ASSUME NEW t \in Task, NEW s \in Spans, BeginShift(c, t, s) PROVE ShiftInv'
    BY <1>1, <1>2 DEF BeginShift
<1>3. ASSUME NEW g \in Project, BeginCompact(c, g) PROVE ShiftInv'
    BY <1>1, <1>3 DEF BeginCompact
<1>4. ASSUME NEW p \in Task, NEW s \in Task, BeginAdd(c, p, s) PROVE ShiftInv'
    BY <1>1, <1>4 DEF BeginAdd
<1> QED
    BY <1>2, <1>3, <1>4

LEMMA ShiftLocks ==
    ASSUME AllInv, ShiftInv, NEW c \in Call, LockShift(c)
    PROVE  ShiftInv'
<1>0. /\ call = [d \in Call |-> call[d]] /\ DOMAIN call[c] = DOMAIN NoCall /\ CallType(call[c])
      /\ call[c].op = "shift" /\ call[c].pc = "lock" /\ UNCHANGED <<task, deps, strayed>>
    BY CallOf DEF AllInv, LockShift, Locked
<1>1. PICK t \in call[c].on :
        IF task[t].archived
        THEN Ended(c)
        ELSE /\ Taken(c)
             /\ call' = [call EXCEPT ![c].pc = "cascade", ![c].clean = TRUE, ![c].frontier = {t},
                                     ![c].moved = [x \in {t} |-> call[c].at]]
    BY DEF LockShift
<1>2. CASE task[t].archived
    BY <1>0, <1>1, <1>2, ShiftEnds DEF Ended
<1>3. CASE ~task[t].archived
  <2> DEFINE one == [x \in {t} |-> call[c].at]
             r == [call[c] EXCEPT !.pc = "cascade", !.clean = TRUE, !.frontier = {t}, !.moved = one]
  <2>1. call' = [call EXCEPT ![c] = r]
      BY <1>0, <1>1, <1>3
  <2>2. t \in Task /\ call[c].at \in Dates
      BY <1>0 DEF CallType
  <2>3. OfSome(one, Dates) /\ DOMAIN one = {t} /\ one[t] = call[c].at
      BY <2>2 DEF OfSome
  <2> HIDE DEF one
  <2>4. /\ r.op = "shift" /\ r.pc = "cascade" /\ r.frontier = {t} /\ r.moved = one
        /\ r.on = call[c].on /\ r.at = call[c].at /\ r.pass = call[c].pass
      BY <1>0, Fields
  <2> HIDE DEF r
  <2>5. ASSUME ~strayed PROVE Shift(r)
    <3>1. call[c].on = {t} /\ call[c].pass = 0
        BY <1>0, <1>1, <2>5 DEF ShiftInv, Shift
    <3>2. Pushes(one, t, call[c].at)
        BY <2>3 DEF Pushes
    <3>3. Room({t}, 0)
      <4>1. deps \subseteq Task \X Task /\ Cardinality(Task) \in Nat
          BY ScheduleAssumption, FS_CardinalityType DEF AllInv, TypeInv, TypeOK
      <4>2. Task \in SUBSET Task /\ {t} \subseteq Task /\ Cardinality(Task) + 0 <= Cardinality(Task)
            /\ \A e \in deps : e[2] \in Task
          BY <2>2, <4>1
      <4> QED
          BY <4>2 DEF Room
    <3>4. Cascade(r)
        BY <2>3, <2>4, <3>1, <3>2, <3>3 DEF Cascade
    <3> QED
        BY <2>2, <2>4, <3>1, <3>4 DEF Shift
  <2> QED
      BY <1>0, <2>1, <2>5, ShiftOfOne
<1> QED
    BY <1>2, <1>3

LEMMA ShiftPasses ==
    ASSUME Cardinality(Task) <= MaxPasses, AllInv, ShiftInv, NEW c \in Call, Pass(c)
    PROVE  ShiftInv'
<1>0. /\ call = [d \in Call |-> call[d]] /\ DOMAIN call[c] = DOMAIN NoCall /\ CallType(call[c])
      /\ PcType(call[c])
      /\ call[c].op = "shift" /\ call[c].pc = "cascade" /\ UNCHANGED <<task, deps, strayed>>
      /\ call[c].frontier \subseteq DOMAIN call[c].moved /\ call[c].pass \in Nat
  <2>1. /\ call = [d \in Call |-> call[d]] /\ DOMAIN call[c] = DOMAIN NoCall /\ CallType(call[c])
        /\ PcType(call[c])
      BY CallOf DEF AllInv
  <2>2. call[c].op = "shift" /\ call[c].pc = "cascade" /\ UNCHANGED <<task, deps, strayed>>
      BY DEF Pass
  <2>3. call[c].pass \in Nat
    <3>1. call[c].pass \in 0..MaxPasses
        BY <2>1 DEF CallType
    <3> QED
        BY <3>1, Bounds
  <2> QED
      BY <2>1, <2>2, <2>3 DEF PcType
<1>1. ASSUME ~strayed
      PROVE  /\ \E t \in Task : call[c].on = {t}
             /\ Acyclic(deps)
             /\ call[c].clean => Cascade(call[c])
    BY <1>0, <1>1 DEF ShiftInv, Shift, AllInv, IInv
<1>2. Cardinality(Task) \in Nat
    BY ScheduleAssumption, FS_CardinalityType
<1>3. CASE call[c].pass >= MaxPasses
  <2> DEFINE r == [call[c] EXCEPT !.pc = "failed"]
  <2>1. call' = [call EXCEPT ![c] = r]
      BY <1>0, <1>3 DEF Pass
  <2>2. r.op = "shift" /\ r.on = call[c].on /\ r.pc = "failed" /\ r.clean = call[c].clean
      BY <1>0, Fields
  <2> HIDE DEF r
  <2>3. ASSUME ~strayed, call[c].clean PROVE FALSE
    <3>1. Room(call[c].frontier, call[c].pass) /\ call[c].frontier # {} /\ Acyclic(deps)
        BY <1>0, <1>1, <2>3 DEF Cascade
    <3>2. call[c].pass < Cardinality(Task)
      <4>1. {} \subseteq Successors(call[c].frontier, deps)
          OBVIOUS
      <4> QED
          BY <1>0, <3>1, <4>1, Narrower
    <3> QED
        BY <1>0, <1>2, <1>3, <3>2, Bounds
  <2>4. ~strayed => Shift(r)
      BY <1>1, <2>2, <2>3 DEF Shift
  <2> QED
      BY <1>0, <2>1, <2>4, ShiftOfOne
<1>4. CASE ~(call[c].pass >= MaxPasses)
  <2> DEFINE base == [moved |-> call[c].moved, next |-> {}]
  <2>1. PICK order \in SetToSeqs({e \in deps : e[1] \in call[c].frontier}) :
          LET to == FoldLeft(Push, base, order)
          IN  call' = [call EXCEPT ![c].moved = to.moved, ![c].frontier = to.next,
                                   ![c].pass = @ + 1,
                                   ![c].pc = IF to.next = {} THEN "write" ELSE "cascade"]
      BY <1>0, <1>4 DEF Pass
  <2> DEFINE to == FoldLeft(Push, base, order)
  <2>2. ASSUME ~strayed, call[c].clean
        PROVE  /\ \A t \in call[c].on : Pushes(to.moved, t, call[c].at)
               /\ \A e \in deps : e[1] \in DOMAIN to.moved \ to.next => After(to.moved, e)
               /\ Room(to.next, call[c].pass + 1)
    <3>1. PICK t \in Task : call[c].on = {t}
        BY <1>1, <2>2
    <3>2. /\ Pushes(call[c].moved, t, call[c].at) /\ Acyclic(deps) /\ TypeInv
          /\ \A e \in deps : e[1] \in DOMAIN call[c].moved \ call[c].frontier => After(call[c].moved, e)
          /\ Room(call[c].frontier, call[c].pass) /\ call[c].frontier # {}
        BY <1>0, <1>1, <2>2, <3>1 DEF Cascade, AllInv
    <3>3. /\ Pushes(to.moved, t, call[c].at) /\ to.next \subseteq Successors(call[c].frontier, deps)
          /\ \A e \in deps : e[1] \in DOMAIN to.moved \ to.next => After(to.moved, e)
        BY <1>0, <3>2, PassKeeps
    <3> HIDE DEF to
    <3>4. Room(to.next, call[c].pass + 1)
        BY <1>0, <3>2, <3>3, Narrower
    <3> QED
        BY <3>1, <3>3, <3>4
  <2> HIDE DEF to
  <2> DEFINE r == [call[c] EXCEPT !.moved = to.moved, !.frontier = to.next, !.pass = @ + 1,
                                  !.pc = IF to.next = {} THEN "write" ELSE "cascade"]
  <2>3. call' = [call EXCEPT ![c] = r]
      BY <1>0, <2>1 DEF to
  <2>4. /\ r.op = "shift" /\ r.on = call[c].on /\ r.at = call[c].at /\ r.clean = call[c].clean
        /\ r.moved = to.moved /\ r.frontier = to.next /\ r.pass = call[c].pass + 1
        /\ r.pc = IF to.next = {} THEN "write" ELSE "cascade"
      BY <1>0, Fields
  <2> HIDE DEF r
  <2>5. ASSUME ~strayed PROVE Shift(r)
    <3>1. ASSUME r.clean PROVE Cascade(r)
        BY <2>2, <2>4, <2>5, <3>1 DEF Cascade
    <3> QED
        BY <1>1, <2>4, <2>5, <3>1 DEF Shift
  <2> QED
      BY <1>0, <2>3, <2>5, ShiftOfOne
<1> QED
    BY <1>3, <1>4

\* The other steps that leave the rows and the dependencies alone.
LEMMA ShiftOthers ==
    ASSUME AllInv, ShiftInv, NEW c \in Call, LockCompact(c) \/ Sweep(c) \/ LockAdd(c) \/ Walk(c)
    PROVE  ShiftInv'
<1>0. call = [d \in Call |-> call[d]] /\ DOMAIN call[c] = DOMAIN NoCall /\ PcType(call[c])
    BY CallOf DEF AllInv
<1>1. call[c].op \in {"compact", "add"} /\ UNCHANGED <<task, deps, strayed>>
    BY <1>0 DEF LockCompact, Sweep, LockAdd, Walk, PcType
<1>2. ASSUME NEW r, call' = [call EXCEPT ![c] = r], r.op = call[c].op PROVE ShiftInv'
  <2>1. Shift(r)
      BY <1>1, <1>2 DEF Shift
  <2> QED
      BY <1>1, <1>2, <2>1, ShiftOfOne
<1>3. CASE Ended(c)
    BY <1>1, <1>3, ShiftEnds DEF Ended
<1>4. CASE LockCompact(c)
  <2> DEFINE rows == Restrict(task, {t \in Task : task[t].project = call[c].group})
  <2> HIDE DEF rows
  <2> DEFINE r == [call[c] EXCEPT !.pc = "edges", !.clean = TRUE, !.seen = rows]
  <2>1. call' = [call EXCEPT ![c] = r]
      BY <1>0, <1>4 DEF LockCompact, rows
  <2>2. r.op = call[c].op
      BY <1>0, Fields
  <2> HIDE DEF r
  <2> QED
      BY <1>2, <2>1, <2>2
<1>5. CASE Sweep(c)
  <2> DEFINE seen == call[c].seen
             edges == {e \in deps : e[1] \in DOMAIN seen}
             to == Compacted(seen, edges)
             r == [call[c] EXCEPT !.pc = "write", !.moved = to]
             s == [call[c] EXCEPT !.pc = "failed"]
  <2>1. call' = [call EXCEPT ![c] = r] \/ call' = [call EXCEPT ![c] = s]
      BY <1>0, <1>5 DEF Sweep
  <2> HIDE DEF to
  <2>2. r.op = call[c].op /\ s.op = call[c].op
      BY <1>0, Fields
  <2> HIDE DEF r, s
  <2> QED
      BY <1>2, <2>1, <2>2
<1>6. CASE LockAdd(c)
  <2> DEFINE v == {call[c].at[2]}
             r == [call[c] EXCEPT !.pc = "walk", !.frontier = v, !.visited = v]
  <2>1. call' = [call EXCEPT ![c] = r]
      BY <1>0, <1>6 DEF LockAdd, Walks
  <2>2. r.op = call[c].op
      BY <1>0, Fields
  <2> HIDE DEF r
  <2> QED
      BY <1>2, <2>1, <2>2
<1>7. CASE Walk(c)
  <2> DEFINE found == Successors(call[c].frontier, deps)
             visited == call[c].visited \cup found
             new == found \ call[c].visited
             r == [call[c] EXCEPT !.frontier = new, !.visited = visited,
                                  !.pc = IF new = {} THEN "insert" ELSE "walk"]
  <2>1. Ended(c) \/ call' = [call EXCEPT ![c] = r]
      BY <1>0, <1>7 DEF Walk
  <2>2. r.op = call[c].op
      BY <1>0, Fields
  <2> HIDE DEF r
  <2> QED
      BY <1>2, <1>3, <2>1, <2>2
<1> QED
    BY <1>4, <1>5, <1>6, <1>7

\* While a shift is past its lock no other call writes: the shifts and the additions of the
\* group wait for the lock, and a compaction of another group has nothing to write.
LEMMA ShiftWrites ==
    ASSUME AllInv, ShiftInv, NEW c \in Call, WriteMoved(c) \/ Insert(c)
    PROVE  ShiftInv'
<1>9. strayed' = strayed
    BY DEF WriteMoved, Insert
<1> SUFFICES ASSUME ~strayed PROVE \A d \in Call : Shift(call[d])'
    BY <1>9 DEF ShiftInv
<1>0. /\ Ended(c) /\ PcType(call[c]) /\ CallType(call[c]) /\ Home /\ task \in [Task -> TaskRow]
      /\ \A d \in Call : Holds(d) /\ Within(d) /\ call[d].group \in Group /\ Shift(call[d])
    BY CallOf DEF WriteMoved, Insert, AllInv, IInv, ViewInv, TypeInv, TypeOK, CallType, ShiftInv
<1>1. call'[c] = NoCall /\ \A d \in Call \ {c} : call'[d] = call[d]
    BY <1>0, OnlyCall DEF Ended, AllInv
<1>2. \A d \in Call : Shift(NoCall)'
    BY DEF Shift, NoCall
<1>3. PICK g \in Group : /\ \A t \in Task : task[t].project = g
                         /\ \A d \in Call : call[d].op \in {"shift", "add"} => call[d].group = g
    BY <1>0 DEF Home
<1>4. ASSUME NEW d \in Call \ {c}, call[d].op = "shift", call[d].pc \in {"cascade", "write"}
      PROVE  UNCHANGED <<task, deps>>
  <2>1. call[d].group = g /\ lock[g] = d
      BY <1>0, <1>3, <1>4 DEF Holds, Inside
  <2>2. call[c].group # g
      BY <1>0, <1>4, <2>1 DEF Holds, Inside, WriteMoved, Insert
  <2>3. call[c].op \notin {"shift", "add"}
      BY <1>3, <2>2
  <2>4. WriteMoved(c) /\ call[c].pc = "write" /\ call[c].op = "compact"
      BY <1>0, <2>3 DEF PcType, WriteMoved, Insert
  <2>5. DOMAIN call[c].moved = {}
      BY <1>0, <1>3, <2>2, <2>4 DEF Within, Own
  <2>6. task' = [t \in Task |-> task[t]] /\ deps' = deps
      BY <2>4, <2>5 DEF WriteMoved
  <2> QED
      BY <1>0, <2>6
<1>5. ASSUME NEW d \in Call PROVE Shift(call[d])'
  <2>1. CASE d = c
      BY <1>1, <1>2, <2>1
  <2>2. CASE d # c
    <3>1. call'[d] = call[d] /\ Shift(call[d])
        BY <1>0, <1>1, <2>2
    <3>2. CASE call[d].op = "shift" /\ call[d].pc \in {"cascade", "write"}
      <4>1. UNCHANGED <<task, deps>>
          BY <1>4, <2>2, <3>2
      <4>2. \A r : Shift(r) => Shift(r)'
          BY <4>1, ShiftOf
      <4> QED
          BY <3>1, <4>2
    <3>3. CASE ~(call[d].op = "shift" /\ call[d].pc \in {"cascade", "write"})
        BY <3>1, <3>3 DEF Shift, Cascade
    <3> QED
        BY <3>2, <3>3
  <2> QED
      BY <2>1, <2>2
<1> QED
    BY <1>5

LEMMA ShiftUnlocked ==
    ASSUME AllInv, ShiftInv, Unlocked, strayed => strayed'
    PROVE  ShiftInv'
<1> SUFFICES ASSUME ~strayed' PROVE \A c \in Call : Shift(call[c])'
    BY DEF ShiftInv
<1> SUFFICES ASSUME NEW c \in Call PROVE Shift(call[c])'
    OBVIOUS
<1>1. call' = [d \in Call |-> [call[d] EXCEPT !.clean = call[d].op = "none"]]
    BY DEF Unlocked, Disturbed
<1>2. DOMAIN call[c] = DOMAIN NoCall
    BY CallOf DEF AllInv
<1>3. /\ call'[c].op = call[c].op /\ call'[c].pc = call[c].pc /\ call'[c].on = call[c].on
      /\ call'[c].pass = call[c].pass /\ call'[c].clean = (call[c].op = "none")
  <2>1. call'[c] = [call[c] EXCEPT !.clean = call[c].op = "none"]
      BY <1>1
  <2> QED
      BY <1>2, <2>1, Fields
<1>4. Shift(call[c])
    BY DEF ShiftInv
<1> QED
    BY <1>3, <1>4 DEF Shift

LEMMA ShiftStep ==
    ASSUME Cardinality(Task) <= MaxPasses, AllInv, ShiftInv, [Next]_vars
    PROVE  ShiftInv'
<1>1. ASSUME NEW c \in Call, Answer(c) \/ Crash(c) PROVE ShiftInv'
    BY <1>1, ShiftEnds DEF Answer, Crash, Ended
<1>2. ASSUME NEW c \in Call, Step(c) PROVE ShiftInv'
    BY <1>1, <1>2, ShiftLocks, ShiftPasses, ShiftOthers, ShiftWrites DEF Step
<1>3. ASSUME \/ \E e \in deps : RemoveDependency(e)
             \/ \E t \in Task :
                  \/ \E s \in Spans \cup {<<NoDate, NoDate>>} : SetDates(t, s)
                  \/ \E g \in Group : SetProject(t, g)
                  \/ \E st \in Statuses : SetStatus(t, st)
                  \/ SetArchived(t)
      PROVE  ShiftInv'
  <2>1. Unlocked /\ (strayed' = strayed \/ strayed')
      BY <1>3 DEF RemoveDependency, SetDates, SetProject, SetStatus, SetArchived
  <2> QED
      BY <2>1, ShiftUnlocked
<1>4. CASE UNCHANGED vars
  <2>1. call' = call /\ strayed' = strayed /\ UNCHANGED <<task, deps>>
      BY <1>4 DEF vars
  <2>2. \A r : Shift(r) => Shift(r)'
      BY <2>1, ShiftOf
  <2> QED
      BY <2>1, <2>2 DEF ShiftInv
<1> QED
    BY <1>1, <1>2, <1>3, <1>4, ShiftBegins DEF Next

\* A shift nobody writes under moves tasks to the least schedule, if the passes it may take
\* are as many as the tasks.
THEOREM Shifts ==
    ASSUME Cardinality(Task) <= MaxPasses
    PROVE  Spec => []ShiftIsLeast
<1>1. Init => AllInv /\ ShiftInv
  <2>1. ASSUME Init PROVE ShiftInv
    <3>1. \A c \in Call : call[c].op = "none"
        BY <2>1 DEF Init, NoCall
    <3> QED
        BY <3>1 DEF ShiftInv, Shift
  <2>2. Init => AllInv
      BY InitIInv, TypesInit, ViewInit DEF AllInv
  <2> QED
      BY <2>1, <2>2
<1>2. AllInv /\ ShiftInv /\ [Next]_vars => (AllInv /\ ShiftInv)'
  <2>1. AllInv /\ [Next]_vars => AllInv'
      BY StepIInv, TypesStep, ViewStep DEF AllInv
  <2> QED
      BY <2>1, ShiftStep
<1>3. AllInv /\ ShiftInv => ShiftIsLeast
  <2> SUFFICES ASSUME AllInv, ShiftInv, NEW c \in Call, call[c].op = "shift", Quiet(c)
               PROVE  /\ call[c].pass <= Cardinality(Task)
                      /\ call[c].pc # "failed"
                      /\ call[c].pc = "write" =>
                           \A t \in call[c].on, x \in Task :
                             Least(t, call[c].at)[x] =
                               IF x \in DOMAIN call[c].moved THEN call[c].moved[x] ELSE SpanOf(task[x])
      BY DEF ShiftIsLeast
  <2>1. Shift(call[c]) /\ Cascade(call[c]) /\ Acyclic(deps) /\ TypeInv
      BY DEF ShiftInv, Shift, Quiet, AllInv, IInv
  <2>2. call[c].pass \in Nat /\ Cardinality(Task) \in Nat
    <3>1. call[c].pass \in 0..MaxPasses
        BY <2>1, CallOf DEF CallType
    <3> QED
        BY <3>1, Bounds, ScheduleAssumption, FS_CardinalityType
  <2>3. call[c].pass <= Cardinality(Task)
    <3>1. CASE call[c].pc \in {"cascade", "write"}
      <4>1. PICK S \in SUBSET Task : Cardinality(S) + call[c].pass <= Cardinality(Task)
          BY <2>1, <3>1 DEF Cascade, Room
      <4>2. Cardinality(S) \in Nat
          BY ScheduleAssumption, FS_Subset, FS_CardinalityType
      <4> QED
          BY <2>2, <4>1, <4>2
    <3>2. CASE call[c].pc \notin {"cascade", "write"}
      <4>1. call[c].pass = 0
          BY <2>1, <3>2 DEF Shift, Cascade
      <4> QED
          BY <2>2, <4>1
    <3> QED
        BY <3>1, <3>2
  <2>4. ASSUME call[c].pc = "write", NEW t \in call[c].on, NEW x \in Task
        PROVE  Least(t, call[c].at)[x] =
                 IF x \in DOMAIN call[c].moved THEN call[c].moved[x] ELSE SpanOf(task[x])
    <3>1. /\ Pushes(call[c].moved, t, call[c].at)
          /\ \A e \in deps : e[1] \in DOMAIN call[c].moved => After(call[c].moved, e)
        BY <2>1, <2>4 DEF Cascade
    <3>2. Least(t, call[c].at)[x] = Cur(call[c].moved, x)
        BY <2>1, <3>1, LeastIs
    <3> QED
        BY <3>2 DEF Cur
  <2> QED
      BY <2>1, <2>3, <2>4 DEF Cascade
<1> QED
    BY <1>1, <1>2, <1>3, PTL DEF Spec

=============================================================================
