----------------------------- MODULE TaskSchedule -----------------------------
(***************************************************************************)
(* The Gantt's schedule: tasks with dates, the finish-to-start             *)
(* dependencies between them, and the calls that read both and rewrite     *)
(* them in a transaction (services/scheduling.ts, services/tasks.ts).      *)
(*                                                                         *)
(* shiftTask, compactSchedule and addDependency take the advisory lock     *)
(* deps:<project> and hold it to the commit; editing a task, its status or *)
(* its project, archiving it and removing a dependency do not.  Under READ *)
(* COMMITTED every statement of a call sees what has been committed when   *)
(* it runs.  The UPDATEs of a call and its COMMIT are one step here: none  *)
(* of them reads what another call may have written since.                 *)
(***************************************************************************)
EXTENDS Integers, FiniteSets, Sequences, FiniteSetsExt, SequencesExt, Functions

CONSTANTS
    Task,          \* the tasks
    Project,       \* the projects
    Standalone,    \* the project of a task that has none
    NoDate,        \* a date that is not set
    Free,          \* the holder of a lock nobody holds
    Call,          \* the requests that can be in flight at once
    Today,         \* todayDateOnly()
    ProjectStart,  \* the start date of every project, or NoDate
    InitRows,      \* the dates and status the tasks may start with
    InitDeps,      \* the dependency graphs to start with, without cycles
    Spans,         \* the dates a user may give a task: <<start, due>>
    MaxPasses,     \* the passes a cascade may take (500 in the code)
    MaxVisited,    \* the tasks a walk may visit (10 000 in the code)
    MaxOps         \* bound: calls made in a behaviour

VARIABLES
    task,      \* the rows of tasks
    deps,      \* the rows of task_dependencies: <<predecessor, successor>>
    lock,      \* the holder of the advisory lock deps:<group>
    call,      \* what each call in flight has read and settled
    strayed,   \* history: some task has changed its project
    ops        \* calls made so far

vars == <<task, deps, lock, call, strayed, ops>>

Group == Project \cup {Standalone}
Statuses == {"todo", "in_progress", "done"}

ASSUME ScheduleAssumption ==
    /\ Standalone \notin Project
    /\ Free \notin Call
    /\ IsFiniteSet(Task)
    /\ NoDate \notin Int /\ Today \in Int /\ ProjectStart \in Int \cup {NoDate}
    /\ Spans \subseteq Int \X Int
    /\ \A rows \in InitRows, t \in Task :
         rows[t] \in [start : Int \cup {NoDate}, due : Int \cup {NoDate}, status : Statuses]
    /\ MaxPasses \in Nat /\ MaxVisited \in Nat /\ MaxOps \in Nat

Dated(r) == r.start # NoDate /\ r.due # NoDate
Span(s, d) == [start |-> s, due |-> d]
SpanOf(r) == Span(r.start, r.due)
Length(r) == r.due - r.start

Successors(from, edges) == {e[2] : e \in {x \in edges : x[1] \in from}}

\* There is no way round: as there are finitely many tasks, every set of them has one that
\* has no predecessor in the set.
Acyclic(edges) ==
    \A S \in SUBSET Task \ {{}} : \E t \in S : \A e \in edges : e[2] = t => e[1] \notin S

ASSUME GraphsAssumption == \A edges \in InitDeps : edges \subseteq Task \X Task /\ Acyclic(edges)

NoCall ==
    [op |-> "none", pc |-> "idle", group |-> Standalone, on |-> {}, at |-> <<>>,
     moved |-> <<>>, frontier |-> {}, pass |-> 0, visited |-> {}, seen |-> <<>>,
     clean |-> TRUE]

\* A row has dates or not; a schedule has dates for some of the tasks.
Day == Int \cup {NoDate}
TaskRow == [project : Group, start : Day, due : Day, status : Statuses, archived : BOOLEAN]
Dates == [start : Int, due : Int]
OfSome(f, S) == DOMAIN f \subseteq Task /\ f \in [DOMAIN f -> S]

CallType(r) ==
    /\ DOMAIN r = DOMAIN NoCall
    /\ r.op \in {"none", "shift", "compact", "add"}
    /\ r.pc \in {"idle", "lock", "cascade", "edges", "walk", "insert", "write", "failed"}
    /\ r.group \in Group /\ r.on \subseteq Task /\ r.pass \in 0..MaxPasses /\ r.clean \in BOOLEAN
    /\ OfSome(r.moved, Dates) /\ OfSome(r.seen, TaskRow)
    /\ r.frontier \subseteq Task /\ r.visited \subseteq Task
    /\ r.op = "shift" => r.at \in Dates
    /\ r.op = "add" => r.at \in Task \X Task

TypeOK ==
    /\ task \in [Task -> TaskRow]
    /\ deps \subseteq Task \X Task
    /\ lock \in [Group -> Call \cup {Free}]
    /\ call = [c \in Call |-> call[c]] /\ \A c \in Call : CallType(call[c])
    /\ strayed \in BOOLEAN
    /\ ops \in 0..MaxOps

Init ==
    /\ \E p \in Project, rows \in InitRows :
         task = [t \in Task |-> [project |-> p, start |-> rows[t].start, due |-> rows[t].due,
                                 status |-> rows[t].status, archived |-> FALSE]]
    /\ deps \in InitDeps
    /\ lock = [g \in Group |-> Free]
    /\ call = [c \in Call |-> NoCall]
    /\ strayed = FALSE
    /\ ops = 0

-----------------------------------------------------------------------------
(* Starting and ending a call *)

Idle(c) == call[c].op = "none" /\ ops < MaxOps /\ ops' = ops + 1

Began(c, op, g, on, at) ==
    call' = [call EXCEPT ![c] = [NoCall EXCEPT !.op = op, !.pc = "lock", !.group = g,
                                               !.on = on, !.at = at]]

\* COMMIT or ROLLBACK: the advisory lock goes with the transaction.
Release(c) == lock' = [g \in Group |-> IF lock[g] = c THEN Free ELSE lock[g]]
Ended(c) == call' = [call EXCEPT ![c] = NoCall] /\ Release(c)

\* pg_advisory_xact_lock: waits for the holder's transaction to end.
Locked(c) == call[c].pc = "lock" /\ lock[call[c].group] = Free
Taken(c) == lock' = [lock EXCEPT ![call[c].group] = c]

\* A call that takes no lock of the graph has written under the others.
Disturbed == call' = [c \in Call |-> [call[c] EXCEPT !.clean = call[c].op = "none"]]

-----------------------------------------------------------------------------
(* shiftTask *)

\* The probe that names the lock.
BeginShift(c, t, s) ==
    /\ Idle(c)
    /\ Began(c, "shift", task[t].project, {t}, Span(s[1], s[2]))
    /\ UNCHANGED <<task, deps, lock, strayed>>

\* The row as it is under the lock; an archived task is refused.
LockShift(c) ==
    /\ call[c].op = "shift" /\ Locked(c)
    /\ \E t \in call[c].on :
         IF task[t].archived
         THEN Ended(c)
         ELSE /\ Taken(c)
              /\ call' = [call EXCEPT ![c].pc = "cascade", ![c].clean = TRUE, ![c].frontier = {t},
                                      ![c].moved = [x \in {t} |-> call[c].at]]
    /\ UNCHANGED <<task, deps, strayed, ops>>

\* Mutant of Push: the row as it was read, whatever an earlier edge has settled.
PushFromRow(acc, e) ==
    LET row == task[e[2]]
        due == acc.moved[e[1]].due
    IN  IF ~Dated(row) \/ row.start >= due THEN acc
        ELSE [moved |-> [x \in DOMAIN acc.moved \cup {e[2]} |->
                           IF x = e[2] THEN Span(due, due + Length(row)) ELSE acc.moved[x]],
              next  |-> acc.next \cup {e[2]}]

\* One edge of a pass: push the successor just far enough, keeping its length.
Push(acc, e) ==
    LET row == task[e[2]]
        now == IF e[2] \in DOMAIN acc.moved THEN acc.moved[e[2]] ELSE SpanOf(row)
        due == acc.moved[e[1]].due
    IN  IF ~Dated(row) \/ now.start >= due THEN acc
        ELSE [moved |-> [x \in DOMAIN acc.moved \cup {e[2]} |->
                           IF x = e[2] THEN Span(due, due + Length(now)) ELSE acc.moved[x]],
              next  |-> acc.next \cup {e[2]}]

\* One pass: the edges out of the frontier, in whatever order the query gave them, and then the
\* rows of their successors.  The two reads are one step: a row written between them is
\* written under this call, which is no longer clean, and nothing is said of such a call.
Pass(c) ==
    /\ call[c].op = "shift" /\ call[c].pc = "cascade"
    /\ IF call[c].pass >= MaxPasses
       THEN /\ call' = [call EXCEPT ![c].pc = "failed"]
            /\ Release(c)
       ELSE /\ \E order \in SetToSeqs({e \in deps : e[1] \in call[c].frontier}) :
                 LET to == FoldLeft(Push, [moved |-> call[c].moved, next |-> {}], order)
                 IN  call' = [call EXCEPT ![c].moved = to.moved, ![c].frontier = to.next,
                                          ![c].pass = @ + 1,
                                          ![c].pc = IF to.next = {} THEN "write" ELSE "cascade"]
            /\ UNCHANGED lock
    /\ UNCHANGED <<task, deps, strayed, ops>>

\* The UPDATEs and the COMMIT of a shift or a compaction.
WriteMoved(c) ==
    /\ call[c].pc = "write"
    /\ task' = [t \in Task |->
                  IF t \in DOMAIN call[c].moved
                  THEN [task[t] EXCEPT !.start = call[c].moved[t].start, !.due = call[c].moved[t].due]
                  ELSE task[t]]
    /\ Ended(c)
    /\ UNCHANGED <<deps, strayed, ops>>

-----------------------------------------------------------------------------
(* compactSchedule *)

Frozen(r) ==
    \/ r.status = "done"
    \/ r.status = "in_progress" /\ (r.start = NoDate \/ r.start <= Today)
Movable(r) == Dated(r) /\ ~Frozen(r)

\* Computed once, before anything moves.
Floor(seen) ==
    LET starts(P(_)) == {seen[t].start : t \in {x \in DOMAIN seen : Dated(seen[x]) /\ P(seen[x])}}
        any(r) == TRUE
    IN  IF ProjectStart # NoDate THEN ProjectStart
        ELSE IF starts(Frozen) # {} THEN Min(starts(Frozen))
        ELSE IF starts(any) # {} THEN Min(starts(any))
        ELSE NoDate

Later(a, b) == IF a < b THEN b ELSE a

Preds(t, edges) == {e[1] : e \in {x \in edges : x[2] = t}}

\* Where a row goes whose predecessors end on these days.
Settles(row, dues, floor) ==
    LET to(day) == Span(day, day + Length(row))
    IN  IF ~Movable(row) THEN SpanOf(row)
        ELSE IF dues # {} THEN to(Later(Max(dues), Today))
        ELSE IF floor < row.start THEN to(floor)
        ELSE SpanOf(row)

\* Mutant of Compacted: the predecessors' due dates as they were before the sweep.
CompactedOnRows(seen, edges) ==
    LET floor == Later(Floor(seen), Today)
        settled == [t \in DOMAIN seen |->
                      Settles(seen[t], {seen[p].due : p \in Preds(t, edges)} \ {NoDate}, floor)]
    IN  RestrictDomain(settled, LAMBDA t : settled[t] # SpanOf(seen[t]))

\* The single sweep in topological order: a task settles on what its predecessors settled on.
Compacted(seen, edges) ==
    LET floor == Later(Floor(seen), Today)
        settled[t \in DOMAIN seen] ==
          Settles(seen[t], {settled[p].due : p \in Preds(t, edges)} \ {NoDate}, floor)
    IN  RestrictDomain(settled, LAMBDA t : settled[t] # SpanOf(seen[t]))

BeginCompact(c, g) ==
    /\ Idle(c)
    /\ Began(c, "compact", g, {}, <<>>)
    /\ UNCHANGED <<task, deps, lock, strayed>>

\* The project's tasks, archived or not, read under the lock.
LockCompact(c) ==
    /\ call[c].op = "compact" /\ Locked(c) /\ Taken(c)
    /\ call' = [call EXCEPT ![c].pc = "edges", ![c].clean = TRUE,
                            ![c].seen = Restrict(task, {t \in Task : task[t].project = call[c].group})]
    /\ UNCHANGED <<task, deps, strayed, ops>>

\* The edges out of those tasks, read after them.  A cycle is refused, and a successor of
\* another project has no row: the sweep throws when it reaches it.
Sweep(c) ==
    /\ call[c].op = "compact" /\ call[c].pc = "edges"
    /\ LET seen == call[c].seen
           edges == {e \in deps : e[1] \in DOMAIN seen}
       IN  IF (\E e \in edges : e[2] \notin DOMAIN seen) \/ ~Acyclic(edges)
           THEN /\ call' = [call EXCEPT ![c].pc = "failed"]
                /\ Release(c)
           ELSE /\ call' = [call EXCEPT ![c].pc = "write", ![c].moved = Compacted(seen, edges)]
                /\ UNCHANGED lock
    /\ UNCHANGED <<task, deps, strayed, ops>>

\* The answer to a call that threw.
Answer(c) ==
    /\ call[c].pc = "failed"
    /\ call' = [call EXCEPT ![c] = NoCall]
    /\ UNCHANGED <<task, deps, lock, strayed, ops>>

-----------------------------------------------------------------------------
(* addDependency, removeDependency *)

\* Both rows are read, and their projects compared, before the transaction.  The two reads are
\* one step: only a task that changes its project tells them apart, before the call begins or
\* after, and it has strayed then.
BeginAdd(c, p, s) ==
    /\ Idle(c)
    /\ p # s /\ task[p].project = task[s].project
    /\ Began(c, "add", task[p].project, {p, s}, <<p, s>>)
    /\ UNCHANGED <<task, deps, lock, strayed>>

Walks(c) ==
    call' = [call EXCEPT ![c].pc = "walk", ![c].frontier = {call[c].at[2]},
                         ![c].visited = {call[c].at[2]}]

\* Mutant of LockAdd: the walk and the insert without the lock.
LockAddNot(c) ==
    /\ call[c].op = "add" /\ Locked(c)
    /\ Walks(c)
    /\ UNCHANGED <<task, deps, lock, strayed, ops>>

LockAdd(c) ==
    /\ call[c].op = "add" /\ Locked(c) /\ Taken(c)
    /\ Walks(c)
    /\ UNCHANGED <<task, deps, strayed, ops>>

\* One level of the walk from the successor, read by itself: a dependency that would close a
\* loop is refused.  The walk is over when a level finds nothing new.
Walk(c) ==
    LET found == Successors(call[c].frontier, deps)
        visited == call[c].visited \cup found
        new == found \ call[c].visited
    IN  /\ call[c].pc = "walk"
        /\ IF call[c].at[1] \in found \/ Cardinality(visited) > MaxVisited
           THEN Ended(c)
           ELSE /\ call' = [call EXCEPT ![c].frontier = new, ![c].visited = visited,
                                        ![c].pc = IF new = {} THEN "insert" ELSE "walk"]
                /\ UNCHANGED lock
        /\ UNCHANGED <<task, deps, strayed, ops>>

\* A pair that is there already is refused and leaves things as they are.
Insert(c) ==
    /\ call[c].pc = "insert"
    /\ deps' = deps \cup {call[c].at}
    /\ Ended(c)
    /\ UNCHANGED <<task, strayed, ops>>

Unlocked == ops < MaxOps /\ ops' = ops + 1 /\ Disturbed /\ UNCHANGED lock

RemoveDependency(e) ==
    /\ Unlocked
    /\ deps' = deps \ {e}
    /\ UNCHANGED <<task, strayed>>

-----------------------------------------------------------------------------
(* updateTask, setTaskStatus, setArchived: one UPDATE each, guarded by archived_at.     *)
(* Subtasks are left out: a task with children, or a child, is refused a move alone.    *)

SetDates(t, s) ==
    /\ Unlocked
    /\ ~task[t].archived /\ SpanOf(task[t]) # Span(s[1], s[2])
    /\ task' = [task EXCEPT ![t].start = s[1], ![t].due = s[2]]
    /\ UNCHANGED <<deps, strayed>>

\* The dependencies of the task are neither looked at nor removed.
SetProject(t, g) ==
    /\ Unlocked
    /\ ~task[t].archived /\ task[t].project # g
    /\ task' = [task EXCEPT ![t].project = g]
    /\ strayed' = TRUE
    /\ UNCHANGED deps

SetStatus(t, st) ==
    /\ Unlocked
    /\ ~task[t].archived /\ task[t].status # st
    /\ task' = [task EXCEPT ![t].status = st]
    /\ UNCHANGED <<deps, strayed>>

SetArchived(t) ==
    /\ Unlocked
    /\ task' = [task EXCEPT ![t].archived = ~@]
    /\ UNCHANGED <<deps, strayed>>

\* The connection is lost or the process dies: the transaction is rolled back.
Crash(c) ==
    /\ call[c].pc \notin {"idle", "failed"}
    /\ Ended(c)
    /\ UNCHANGED <<task, deps, strayed, ops>>

-----------------------------------------------------------------------------
Step(c) ==
    \/ LockShift(c) \/ Pass(c) \/ WriteMoved(c) \/ LockCompact(c) \/ Sweep(c)
    \/ Answer(c) \/ LockAdd(c) \/ Walk(c) \/ Insert(c)

Next ==
    \/ \E c \in Call :
         \/ \E t \in Task, s \in Spans : BeginShift(c, t, s)
         \/ \E g \in Project : BeginCompact(c, g)
         \/ \E p, s \in Task : BeginAdd(c, p, s)
         \/ Step(c)
         \/ Crash(c)
    \/ \E e \in deps : RemoveDependency(e)
    \/ \E t \in Task :
         \/ \E s \in Spans \cup {<<NoDate, NoDate>>} : SetDates(t, s)
         \/ \E g \in Group : SetProject(t, g)
         \/ \E st \in Statuses : SetStatus(t, st)
         \/ SetArchived(t)

Spec == Init /\ [][Next]_vars

-----------------------------------------------------------------------------
(* Properties *)

\* The calls whose view nobody has written under, while every dependency is within a project.
Quiet(c) == call[c].clean /\ ~strayed

\* Where a task ends whose moved predecessors end on these days.
Pushed(t, dues) ==
    IF ~Dated(task[t]) \/ dues = {} \/ Max(dues) <= task[t].start THEN SpanOf(task[t])
    ELSE Span(Max(dues), Max(dues) + Length(task[t]))

\* Where the tasks end when `from` is set to `at`: on the latest due date of the predecessors
\* that moved, or where they were.  A longest path, with no passes and no order.
Least(from, at) ==
    LET end[t \in Task] ==
          LET pushers == {p \in Preds(t, deps) : p = from \/ end[p] # SpanOf(task[p])}
          IN  IF t = from THEN at ELSE Pushed(t, {end[p].due : p \in pushers})
    IN  end

\* A cascade that nobody wrote under settles on the least schedule, whatever order the
\* edges came in, in no more passes than there are tasks: the guard of 500 passes is
\* never the reason a drag fails (scheduling.ts 165-213).
ShiftIsLeast ==
    \A c \in Call : call[c].op = "shift" /\ Quiet(c) =>
        /\ call[c].pass <= Cardinality(Task)
        /\ call[c].pc # "failed"
        /\ call[c].pc = "write" =>
             \A t \in call[c].on, x \in Task :
               Least(t, call[c].at)[x] =
                 IF x \in DOMAIN call[c].moved THEN call[c].moved[x] ELSE SpanOf(task[x])

\* What a compaction is about to commit leaves no movable task of the project a day later than
\* it could be: today, the last day a predecessor then ends on, or the floor where no
\* predecessor has dates.  A task with predecessors is there exactly, moved or not; one without
\* may only be earlier if it was, as nothing is pushed to the floor.
NoSlack(c) ==
    LET moved == call[c].moved
        own == {t \in Task : task[t].project = call[c].group}
        end(t) == IF t \in DOMAIN moved THEN moved[t] ELSE SpanOf(task[t])
        before(t) == {end(p).due : p \in {x \in own : <<x, t>> \in deps}} \ {NoDate}
        earliest(t) == Max({Today} \cup (IF before(t) = {} THEN {Floor(Restrict(task, own))}
                                         ELSE before(t)))
    IN  /\ \A t \in own : Movable(task[t]) =>
             /\ end(t).start <= earliest(t)
             /\ before(t) # {} => end(t).start = earliest(t)
        /\ \A t \in DOMAIN moved :
             /\ t \in own /\ Movable(task[t]) /\ Length(moved[t]) = Length(task[t])
             /\ before(t) = {} => moved[t].start = earliest(t) /\ moved[t].start < task[t].start

\* A compaction that nobody wrote under never fails, leaves no movable task with slack or an
\* overlap, keeps the length of what it moves, and leaves work that has begun where it is
\* (scheduling.ts 336-431).
CompactIsTight ==
    \A c \in Call : call[c].op = "compact" /\ Quiet(c) =>
        call[c].pc # "failed" /\ (call[c].pc = "write" => NoSlack(c))

\* The dependencies have no cycle as long as no task has changed its project: the walk and
\* the insert of two addDependency are never interleaved (tasks.ts 622-636), and what is
\* removed between two levels of a walk hides no way to the predecessor.
CyclesNeedAMove == ~strayed => Acyclic(deps)

\* The claim of scheduling.ts 483-487: an edge whose predecessor is one of the project's
\* tasks has its successor there too, so that the sweep finds the row of every successor.
EdgesStayInTheProject ==
    \A c \in Call : call[c].op = "compact" /\ call[c].pc = "edges" =>
        \A e \in deps : e[1] \in DOMAIN call[c].seen => e[2] \in DOMAIN call[c].seen
=============================================================================
