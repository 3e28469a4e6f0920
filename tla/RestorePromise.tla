--------------------------- MODULE RestorePromise ---------------------------
(***************************************************************************)
(* What a restore promises, whatever its steps are (services/restore.ts,   *)
(* "the most dangerous code in the product"): what it replaces is kept     *)
(* first, and what it says afterwards is so.  Module RestoreApply is the   *)
(* restore as the code carries it out, and implements this.                *)
(***************************************************************************)
EXTENDS Naturals

CONSTANT Content    \* what a database can hold

VARIABLES
    current,    \* what the install's database holds
    before,     \* what it held when the last restore began
    kept,       \* what safety backups have been proved to hold
    answer      \* what the operator has been told: none yet, or as below

vars == <<current, before, kept, answer>>

\* What each answer says of the database.
Answers == {"unchanged", "replaced", "unknown"}
IsSo(a) ==
    /\ a = "unchanged" => current = before
    /\ a = "replaced" => current # before

Init ==
    /\ current \in Content
    /\ before = current
    /\ kept = {}
    /\ answer = "none"

Begin ==
    /\ before' = current
    /\ answer' = "none"
    /\ UNCHANGED <<current, kept>>

Keep ==
    /\ kept' = kept \cup {current}
    /\ UNCHANGED <<current, before, answer>>

\* The database is replaced at once, after it has been kept, before anything is said.
Replace ==
    /\ answer = "none"
    /\ before \in kept
    /\ current' \in Content \ {before}
    /\ UNCHANGED <<before, kept, answer>>

Answer ==
    /\ answer = "none"
    /\ answer' \in {a \in Answers : IsSo(a)}
    /\ UNCHANGED <<current, before, kept>>

Next == Begin \/ Keep \/ Replace \/ Answer

Spec == Init /\ [][Next]_vars
=============================================================================
