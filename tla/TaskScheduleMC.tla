---------------------------- MODULE TaskScheduleMC ----------------------------
(* Small instances of TaskSchedule. *)
EXTENDS TaskSchedule, TLC

CONSTANTS a, b, c, d

Row(s, e, st) == [start |-> s, due |-> e, status |-> st]

\* Overlapping work of different lengths, not begun; and the same with a task that is done
\* and one that is under way in a slot still ahead.
MCInitRows ==
    {(a :> Row(1, 2, "todo") @@ b :> Row(1, 2, "todo") @@ c :> Row(1, 1, "todo") @@ d :> Row(1, 2, "todo")),
     (a :> Row(0, 2, "done") @@ b :> Row(3, 3, "in_progress") @@ c :> Row(2, 4, "todo") @@ d :> Row(5, 6, "todo"))}
MCSpans == {<<2, 4>>}

\* Every graph without a cycle on four tasks, but for the names of the tasks.
MCInitDeps == SUBSET {<<a, b>>, <<a, c>>, <<a, d>>, <<b, c>>, <<b, d>>, <<c, d>>}
\* The calls in flight differ by nothing but their names.
CallSym == Permutations(Call)

\* One dependency.
MCOneDep == {{<<a, b>>}}
=============================================================================
