------------------------ MODULE IntakeSessionsProofs ------------------------
(***************************************************************************)
(* Theorems of module IntakeSessions, for any number of requests, users,   *)
(* plans, deaths of the process and failed removals.  The inductive        *)
(* invariant says that a work directory has one keeper at every step: the  *)
(* request that uploads, applies or disposes of it, or the store; that     *)
(* what nobody keeps is left to the sweep at boot, and what it lists of    *)
(* the kept is caught; and that a restore past the drain has the write     *)
(* gate and no company.                                                    *)
(***************************************************************************)
EXTENDS IntakeSessions, FiniteSetTheorems, TLAPS

Keeping == {"upload", "apply", "dispose"}

\* A request has a plan from its first step to its last; one whose client has hung up
\* uploads or disposes.
Requests ==
    /\ \A r \in Request : pc[r] = "idle" <=> plan[r] = None
    /\ \A r \in gone : pc[r] \in {"upload", "dispose"}

\* A directory is kept by the store, or by a request.
Kept(p) == p \in sessions \cup removing \/ \E r \in Request : pc[r] \in Keeping /\ plan[r] = p

\* No two keepers of one directory.
OneKeeper ==
    /\ \A r, q \in Request :
          r # q /\ pc[r] \in Keeping /\ pc[q] \in Keeping => plan[r] # plan[q]
    /\ \A r \in Request : pc[r] \in Keeping => plan[r] \notin sessions \cup removing
    /\ sessions \cap removing = {}

\* The sweep at boot lists once; of what it listed, what is kept it has caught.
Boot ==
    /\ booting => leftovers = {} /\ caught = {}
    /\ ~booting => orphans = {}
    /\ orphans \subseteq disk
    /\ \A p \in Plan : Kept(p) => p \notin orphans /\ (p \in leftovers => p \in caught)

\* What is kept is there, or was caught, and what is there is kept or left over.
AllKept ==
    /\ \A p \in Plan : Kept(p) => p \in disk \cup caught
    /\ \A p \in disk : Kept(p) \/ p \in orphans \cup leftovers \cup stuck

\* The plans inside use() are those of the applies; none has been carried out before, and one
\* that has is disposed of.
Uses ==
    /\ \A r \in Request : pc[r] = "apply" => plan[r] \in inFlight /\ owner[plan[r]] = user[r]
    /\ \A p \in inFlight : \E r \in Request : pc[r] = "apply" /\ plan[r] = p
    /\ sessions \cap applied = {}
    /\ \A p \in applied : \E r \in Request : pc[r] \in {"apply", "dispose"} /\ plan[r] = p

\* Who has the write gate, and who can be beside it.
Gate ==
    /\ gate # None => pc[gate] \in {"drain", "ready", "apply", "dispose"}
    /\ \A r \in Request : pc[r] \in {"drain", "ready"} => gate = r
    /\ \A r \in Request : pc[r] = "apply" /\ kind[plan[r]] = "restore" => gate = r
    /\ gate # None /\ pc[gate] \in {"ready", "apply"} =>
          \A q \in Request \ {gate} : pc[q] = "idle" \/ q \in gone

IInv == TypeOK /\ Requests /\ OneKeeper /\ Boot /\ AllKept /\ Uses /\ Gate
-----------------------------------------------------------------------------
\* A process that starts keeps nothing and handles nothing.
LEMMA InitIInv == Init => IInv
<1> SUFFICES ASSUME Init PROVE IInv
    OBVIOUS
<1> USE IntakeAssumption
<1>1. TypeOK
  <2>1. booting \in BOOLEAN
    BY DEF Init
  <2>2. QED
    BY <2>1 DEF Init, TypeOK
<1>2. Requests
    BY DEF Init, Requests
<1>3. OneKeeper
    BY DEF Init, OneKeeper, Keeping
<1>4. Boot /\ AllKept
    BY DEF Init, Boot, AllKept, Kept, Keeping
<1>5. Uses
    BY DEF Init, Uses
<1>6. Gate
    BY DEF Init, Gate
<1>7. QED
    BY <1>1, <1>2, <1>3, <1>4, <1>5, <1>6 DEF IInv

\* A step that changes neither the directories nor who keeps them.
LEMMA KeepsDisk ==
    ASSUME Boot, AllKept, UNCHANGED <<disk, bootVars, stuck>>, \A p \in Plan : Kept(p)' <=> Kept(p),
           disk \subseteq Plan
    PROVE  Boot' /\ AllKept'
<1>1. QED
    BY DEF Boot, AllKept, bootVars

\* Every step keeps it.
LEMMA StepIInv == IInv /\ [Next]_vars => IInv'
<1> SUFFICES ASSUME IInv, [Next]_vars PROVE IInv'
    OBVIOUS
<1> USE IntakeAssumption DEF IInv, requestVars, planVars, storeVars, diskVars, bootVars
<1>1. ASSUME NEW r \in Request, NEW u \in User, NEW k \in Kind, NEW p \in Plan,
             BeginUpload(r, u, k, p)
      PROVE  IInv'
  <2>1. TypeOK'
    BY <1>1 DEF BeginUpload, Begin, TypeOK
  <2>2. Requests'
    BY <1>1 DEF BeginUpload, Begin, TypeOK, Requests
  <2>3. OneKeeper'
    BY <1>1 DEF BeginUpload, Unused, Begin, TypeOK, OneKeeper, Keeping
  <2>4. /\ ~Kept(p) /\ Kept(p)'
        /\ \A x \in Plan : x # p => (Kept(x)' <=> Kept(x))
    BY <1>1 DEF BeginUpload, Unused, Begin, TypeOK, Kept, Keeping
  <2>5. Boot' /\ AllKept'
    <3>1. /\ disk' = disk \cup {p} /\ p \notin disk \cup leftovers
          /\ UNCHANGED <<bootVars, stuck>>
      BY <1>1 DEF BeginUpload, Unused
    <3>2. QED
      BY <2>4, <3>1 DEF Boot, AllKept, TypeOK
  <2>6. Uses'
    BY <1>1 DEF BeginUpload, Unused, Begin, TypeOK, Requests, OneKeeper, Uses, Keeping
  <2>7. Gate'
    BY <1>1 DEF BeginUpload, Unused, Begin, TypeOK, Requests, Uses, Gate
  <2>8. QED
    BY <2>1, <2>2, <2>3, <2>5, <2>6, <2>7
<1>2. ASSUME NEW r \in Request, RefuseUpload(r) PROVE IInv'
  <2>1. TypeOK'
    BY <1>2 DEF RefuseUpload, Become, TypeOK
  <2>2. Requests'
    BY <1>2 DEF RefuseUpload, Become, TypeOK, Requests
  <2>3. OneKeeper'
    BY <1>2 DEF RefuseUpload, Become, TypeOK, Requests, OneKeeper, Keeping
  <2>4. \A x \in Plan : Kept(x)' <=> Kept(x)
    BY <1>2 DEF RefuseUpload, Become, TypeOK, Requests, OneKeeper, Kept, Keeping
  <2>5. Boot' /\ AllKept'
    <3>1. UNCHANGED <<disk, bootVars, stuck>> /\ disk \subseteq Plan
      BY <1>2 DEF RefuseUpload, Become, TypeOK
    <3>2. QED
      BY <2>4, <3>1, KeepsDisk
  <2>6. Uses'
    BY <1>2 DEF RefuseUpload, Become, TypeOK, Requests, OneKeeper, Uses, Keeping
  <2>7. Gate'
    BY <1>2 DEF RefuseUpload, Become, TypeOK, Requests, Uses, Gate
  <2>8. QED
    BY <2>1, <2>2, <2>3, <2>5, <2>6, <2>7
<1>3. ASSUME NEW r \in Request, HoldPlan(r) PROVE IInv'
  <2>1. TypeOK'
    <3>1. plan[r] \in Plan \ inFlight
      BY <1>3 DEF HoldPlan, TypeOK, Requests, OneKeeper, Uses, Keeping
    <3>2. QED
      BY <1>3, <3>1 DEF HoldPlan, SweepStore, Swept, Become, End, TypeOK
  <2>2. Requests'
    BY <1>3 DEF HoldPlan, SweepStore, Swept, Become, End, TypeOK, Requests
  <2>3. OneKeeper'
    BY <1>3 DEF HoldPlan, SweepStore, Swept, Become, End, TypeOK, Requests, OneKeeper, Keeping
  <2>4. \A x \in Plan : Kept(x)' <=> Kept(x)
    BY <1>3 DEF HoldPlan, SweepStore, Swept, Become, End, TypeOK, Requests, OneKeeper, Kept, Keeping
  <2>5. Boot' /\ AllKept'
    <3>1. UNCHANGED <<disk, bootVars, stuck>> /\ disk \subseteq Plan
      BY <1>3 DEF HoldPlan, SweepStore, Swept, Become, End, TypeOK
    <3>2. QED
      BY <2>4, <3>1, KeepsDisk
  <2>6. Uses'
    BY <1>3 DEF HoldPlan, SweepStore, Swept, Become, End, TypeOK, Requests, OneKeeper, Uses, Keeping
  <2>7. Gate'
    BY <1>3 DEF HoldPlan, SweepStore, Swept, Become, End, TypeOK, Requests, Uses, Gate
  <2>8. QED
    BY <2>1, <2>2, <2>3, <2>5, <2>6, <2>7
<1>4. ASSUME NEW r \in Request, NEW u \in User, NEW p \in Plan, BeginRestore(r, u, p) PROVE IInv'
  <2>1. TypeOK'
    BY <1>4 DEF BeginRestore, Found, SweepStore, Swept, Begin, TypeOK
  <2>2. Requests'
    BY <1>4 DEF BeginRestore, Found, SweepStore, Swept, Begin, TypeOK, Requests
  <2>3. OneKeeper'
    BY <1>4 DEF BeginRestore, Found, SweepStore, Swept, Begin, TypeOK, Requests, OneKeeper, Keeping
  <2>4. \A x \in Plan : Kept(x)' <=> Kept(x)
    BY <1>4 DEF BeginRestore, Found, SweepStore, Swept, Begin, TypeOK, Requests, OneKeeper, Kept, Keeping
  <2>5. Boot' /\ AllKept'
    <3>1. UNCHANGED <<disk, bootVars, stuck>> /\ disk \subseteq Plan
      BY <1>4 DEF BeginRestore, Found, SweepStore, Swept, Begin, TypeOK
    <3>2. QED
      BY <2>4, <3>1, KeepsDisk
  <2>6. Uses'
    BY <1>4 DEF BeginRestore, Found, SweepStore, Swept, Begin, TypeOK, Requests, OneKeeper, Uses, Keeping
  <2>7. Gate'
    BY <1>4 DEF BeginRestore, Found, SweepStore, Swept, Begin, TypeOK, Requests, Uses, Gate
  <2>8. QED
    BY <2>1, <2>2, <2>3, <2>5, <2>6, <2>7
<1>5. ASSUME NEW r \in Request, ShutGate(r) PROVE IInv'
  <2>1. TypeOK'
    BY <1>5 DEF ShutGate, Become, End, TypeOK
  <2>2. Requests'
    BY <1>5 DEF ShutGate, Become, End, TypeOK, Requests
  <2>3. OneKeeper'
    BY <1>5 DEF ShutGate, Become, End, TypeOK, Requests, OneKeeper, Keeping
  <2>4. \A x \in Plan : Kept(x)' <=> Kept(x)
    BY <1>5 DEF ShutGate, Become, End, TypeOK, Requests, OneKeeper, Kept, Keeping
  <2>5. Boot' /\ AllKept'
    <3>1. UNCHANGED <<disk, bootVars, stuck>> /\ disk \subseteq Plan
      BY <1>5 DEF ShutGate, Become, End, TypeOK
    <3>2. QED
      BY <2>4, <3>1, KeepsDisk
  <2>6. Uses'
    BY <1>5 DEF ShutGate, Become, End, TypeOK, Requests, OneKeeper, Uses, Keeping
  <2>7. Gate'
    BY <1>5 DEF ShutGate, Become, End, TypeOK, Requests, Uses, Gate
  <2>8. QED
    BY <2>1, <2>2, <2>3, <2>5, <2>6, <2>7
<1>6. ASSUME NEW r \in Request, DrainGate(r) PROVE IInv'
  <2>1. TypeOK'
    BY <1>6 DEF DrainGate, Become, End, TypeOK
  <2>2. Requests'
    BY <1>6 DEF DrainGate, Become, End, TypeOK, Requests
  <2>3. OneKeeper'
    BY <1>6 DEF DrainGate, Become, End, TypeOK, Requests, OneKeeper, Keeping
  <2>4. \A x \in Plan : Kept(x)' <=> Kept(x)
    BY <1>6 DEF DrainGate, Become, End, TypeOK, Requests, OneKeeper, Kept, Keeping
  <2>5. Boot' /\ AllKept'
    <3>1. UNCHANGED <<disk, bootVars, stuck>> /\ disk \subseteq Plan
      BY <1>6 DEF DrainGate, Become, End, TypeOK
    <3>2. QED
      BY <2>4, <3>1, KeepsDisk
  <2>6. Uses'
    BY <1>6 DEF DrainGate, Become, End, TypeOK, Requests, OneKeeper, Uses, Keeping
  <2>7. Gate'
    BY <1>6 DEF DrainGate, Become, End, TypeOK, Requests, Uses, Gate
  <2>8. QED
    BY <2>1, <2>2, <2>3, <2>5, <2>6, <2>7
<1>7. ASSUME NEW r \in Request, ApplyRestore(r) PROVE IInv'
  <2>1. TypeOK'
    BY <1>7 DEF ApplyRestore, Use, Found, SweepStore, Swept, Become, End, TypeOK
  <2>2. Requests'
    BY <1>7 DEF ApplyRestore, Use, Found, SweepStore, Swept, Become, End, TypeOK, Requests
  <2>3. OneKeeper'
    BY <1>7 DEF ApplyRestore, Use, Found, SweepStore, Swept, Become, End, TypeOK, Requests, OneKeeper, Keeping
  <2>4. \A x \in Plan : Kept(x)' <=> Kept(x)
    BY <1>7 DEF ApplyRestore, Use, Found, SweepStore, Swept, Become, End, TypeOK, Requests, OneKeeper, Kept, Keeping
  <2>5. Boot' /\ AllKept'
    <3>1. UNCHANGED <<disk, bootVars, stuck>> /\ disk \subseteq Plan
      BY <1>7 DEF ApplyRestore, Use, Found, SweepStore, Swept, Become, End, TypeOK
    <3>2. QED
      BY <2>4, <3>1, KeepsDisk
  <2>6. Uses'
    BY <1>7 DEF ApplyRestore, Use, Found, SweepStore, Swept, Become, End, TypeOK, Requests, OneKeeper, Uses, Keeping
  <2>7. Gate'
    BY <1>7 DEF ApplyRestore, Use, Found, SweepStore, Swept, Become, End, TypeOK, Requests, Uses, Gate
  <2>8. QED
    BY <2>1, <2>2, <2>3, <2>5, <2>6, <2>7
<1>8. ASSUME NEW r \in Request, NEW u \in User, NEW p \in Plan, ApplyImport(r, u, p) PROVE IInv'
  <2>1. TypeOK'
    BY <1>8 DEF ApplyImport, Use, Found, SweepStore, Swept, Begin, TypeOK
  <2>2. Requests'
    BY <1>8 DEF ApplyImport, Use, Found, SweepStore, Swept, Begin, TypeOK, Requests
  <2>3. OneKeeper'
    BY <1>8 DEF ApplyImport, Use, Found, SweepStore, Swept, Begin, TypeOK, Requests, OneKeeper, Keeping
  <2>4. \A x \in Plan : Kept(x)' <=> Kept(x)
    BY <1>8 DEF ApplyImport, Use, Found, SweepStore, Swept, Begin, TypeOK, Requests, OneKeeper, Kept, Keeping
  <2>5. Boot' /\ AllKept'
    <3>1. UNCHANGED <<disk, bootVars, stuck>> /\ disk \subseteq Plan
      BY <1>8 DEF ApplyImport, Use, Found, SweepStore, Swept, Begin, TypeOK
    <3>2. QED
      BY <2>4, <3>1, KeepsDisk
  <2>6. Uses'
    BY <1>8 DEF ApplyImport, Use, Found, SweepStore, Swept, Begin, TypeOK, Requests, OneKeeper, Uses, Keeping
  <2>7. Gate'
    BY <1>8 DEF ApplyImport, Use, Found, SweepStore, Swept, Begin, TypeOK, Requests, Uses, Gate
  <2>8. QED
    BY <2>1, <2>2, <2>3, <2>5, <2>6, <2>7
<1>9. ASSUME NEW r \in Request, EndApply(r) PROVE IInv'
  <2>1. TypeOK'
    BY <1>9 DEF EndApply, Become, TypeOK
  <2>2. Requests'
    BY <1>9 DEF EndApply, Become, TypeOK, Requests
  <2>3. OneKeeper'
    BY <1>9 DEF EndApply, Become, TypeOK, Requests, OneKeeper, Keeping
  <2>4. \A x \in Plan : Kept(x)' <=> Kept(x)
    BY <1>9 DEF EndApply, Become, TypeOK, Requests, OneKeeper, Kept, Keeping
  <2>5. Boot' /\ AllKept'
    <3>1. UNCHANGED <<disk, bootVars, stuck>> /\ disk \subseteq Plan
      BY <1>9 DEF EndApply, Become, TypeOK
    <3>2. QED
      BY <2>4, <3>1, KeepsDisk
  <2>6. Uses'
    BY <1>9 DEF EndApply, Become, TypeOK, Requests, OneKeeper, Uses, Keeping
  <2>7. Gate'
    BY <1>9 DEF EndApply, Become, TypeOK, Requests, Uses, Gate
  <2>8. QED
    BY <2>1, <2>2, <2>3, <2>5, <2>6, <2>7
<1>10. ASSUME NEW r \in Request, NEW u \in User, NEW p \in Plan, Discard(r, u, p) PROVE IInv'
  <2>1. TypeOK'
    BY <1>10 DEF Discard, Begin, TypeOK
  <2>2. Requests'
    BY <1>10 DEF Discard, Begin, TypeOK, Requests
  <2>3. OneKeeper'
    BY <1>10 DEF Discard, Begin, TypeOK, Requests, OneKeeper, Keeping
  <2>4. \A x \in Plan : Kept(x)' <=> Kept(x)
    BY <1>10 DEF Discard, Begin, TypeOK, Requests, OneKeeper, Kept, Keeping
  <2>5. Boot' /\ AllKept'
    <3>1. UNCHANGED <<disk, bootVars, stuck>> /\ disk \subseteq Plan
      BY <1>10 DEF Discard, Begin, TypeOK
    <3>2. QED
      BY <2>4, <3>1, KeepsDisk
  <2>6. Uses'
    BY <1>10 DEF Discard, Begin, TypeOK, Requests, OneKeeper, Uses, Keeping
  <2>7. Gate'
    BY <1>10 DEF Discard, Begin, TypeOK, Requests, Uses, Gate
  <2>8. QED
    BY <2>1, <2>2, <2>3, <2>5, <2>6, <2>7
<1>11. ASSUME NEW r \in Request, HangUp(r) PROVE IInv'
  <2>1. TypeOK'
    BY <1>11 DEF HangUp, TypeOK
  <2>2. Requests'
    BY <1>11 DEF HangUp, TypeOK, Requests
  <2>3. OneKeeper'
    BY <1>11 DEF HangUp, TypeOK, Requests, OneKeeper, Keeping
  <2>4. \A x \in Plan : Kept(x)' <=> Kept(x)
    BY <1>11 DEF HangUp, TypeOK, Requests, OneKeeper, Kept, Keeping
  <2>5. Boot' /\ AllKept'
    <3>1. UNCHANGED <<disk, bootVars, stuck>> /\ disk \subseteq Plan
      BY <1>11 DEF HangUp, TypeOK
    <3>2. QED
      BY <2>4, <3>1, KeepsDisk
  <2>6. Uses'
    BY <1>11 DEF HangUp, TypeOK, Requests, OneKeeper, Uses, Keeping
  <2>7. Gate'
    BY <1>11 DEF HangUp, TypeOK, Requests, Uses, Gate
  <2>8. QED
    BY <2>1, <2>2, <2>3, <2>5, <2>6, <2>7
<1>12. ASSUME NEW p \in Plan, Expire(p) PROVE IInv'
  <2>1. TypeOK'
    BY <1>12 DEF Expire, TypeOK
  <2>2. Requests'
    BY <1>12 DEF Expire, TypeOK, Requests
  <2>3. OneKeeper'
    BY <1>12 DEF Expire, TypeOK, Requests, OneKeeper, Keeping
  <2>4. \A x \in Plan : Kept(x)' <=> Kept(x)
    BY <1>12 DEF Expire, TypeOK, Requests, OneKeeper, Kept, Keeping
  <2>5. Boot' /\ AllKept'
    <3>1. UNCHANGED <<disk, bootVars, stuck>> /\ disk \subseteq Plan
      BY <1>12 DEF Expire, TypeOK
    <3>2. QED
      BY <2>4, <3>1, KeepsDisk
  <2>6. Uses'
    BY <1>12 DEF Expire, TypeOK, Requests, OneKeeper, Uses, Keeping
  <2>7. Gate'
    BY <1>12 DEF Expire, TypeOK, Requests, Uses, Gate
  <2>8. QED
    BY <2>1, <2>2, <2>3, <2>5, <2>6, <2>7
<1>13. ASSUME SweepTimer PROVE IInv'
  <2>1. TypeOK'
    BY <1>13 DEF SweepTimer, SweepStore, Swept, TypeOK
  <2>2. Requests'
    BY <1>13 DEF SweepTimer, SweepStore, Swept, TypeOK, Requests
  <2>3. OneKeeper'
    BY <1>13 DEF SweepTimer, SweepStore, Swept, TypeOK, Requests, OneKeeper, Keeping
  <2>4. \A x \in Plan : Kept(x)' <=> Kept(x)
    BY <1>13 DEF SweepTimer, SweepStore, Swept, TypeOK, Requests, OneKeeper, Kept, Keeping
  <2>5. Boot' /\ AllKept'
    <3>1. UNCHANGED <<disk, bootVars, stuck>> /\ disk \subseteq Plan
      BY <1>13 DEF SweepTimer, SweepStore, Swept, TypeOK
    <3>2. QED
      BY <2>4, <3>1, KeepsDisk
  <2>6. Uses'
    BY <1>13 DEF SweepTimer, SweepStore, Swept, TypeOK, Requests, OneKeeper, Uses, Keeping
  <2>7. Gate'
    BY <1>13 DEF SweepTimer, SweepStore, Swept, TypeOK, Requests, Uses, Gate
  <2>8. QED
    BY <2>1, <2>2, <2>3, <2>5, <2>6, <2>7
<1>14. ASSUME UNCHANGED vars PROVE IInv'
  <2>1. TypeOK'
    BY <1>14 DEF vars, TypeOK
  <2>2. Requests'
    BY <1>14 DEF vars, TypeOK, Requests
  <2>3. OneKeeper'
    BY <1>14 DEF vars, TypeOK, Requests, OneKeeper, Keeping
  <2>4. \A x \in Plan : Kept(x)' <=> Kept(x)
    BY <1>14 DEF vars, TypeOK, Requests, OneKeeper, Kept, Keeping
  <2>5. Boot' /\ AllKept'
    <3>1. UNCHANGED <<disk, bootVars, stuck>> /\ disk \subseteq Plan
      BY <1>14 DEF vars, TypeOK
    <3>2. QED
      BY <2>4, <3>1, KeepsDisk
  <2>6. Uses'
    BY <1>14 DEF vars, TypeOK, Requests, OneKeeper, Uses, Keeping
  <2>7. Gate'
    BY <1>14 DEF vars, TypeOK, Requests, Uses, Gate
  <2>8. QED
    BY <2>1, <2>2, <2>3, <2>5, <2>6, <2>7
<1>15. ASSUME NEW r \in Request, Dispose(r) PROVE IInv'
  <2>1. TypeOK'
    BY <1>15 DEF Dispose, Forget, End, Remove, TypeOK, Requests
  <2>2. Requests'
    BY <1>15 DEF Dispose, Forget, End, TypeOK, Requests
  <2>3. OneKeeper'
    BY <1>15 DEF Dispose, Forget, End, TypeOK, Requests, OneKeeper, Keeping
  <2> PICK p \in Plan : p = plan[r]
    BY <1>15 DEF Dispose, TypeOK, Requests
  <2>4. /\ Kept(p) /\ ~Kept(p)'
        /\ \A x \in Plan : x # p => (Kept(x)' <=> Kept(x))
    BY <1>15 DEF Dispose, End, TypeOK, Requests, OneKeeper, Kept, Keeping
  <2>5. Boot' /\ AllKept'
    <3>1. /\ caught' = caught \ {p}
          /\ UNCHANGED <<booting, orphans, leftovers>>
      BY <1>15 DEF Dispose, Forget
    <3>2. \/ disk' = disk \ {p} /\ stuck' = stuck \ {p}
          \/ disk' = disk /\ stuck' = stuck \cup {p}
      BY <1>15 DEF Dispose, Remove
    <3>3. Boot'
      BY <2>4, <3>1, <3>2 DEF Boot
    <3>4. AllKept'
      BY <2>4, <3>1, <3>2 DEF AllKept, TypeOK
    <3>5. QED
      BY <3>3, <3>4
  <2>6. Uses'
    BY <1>15 DEF Dispose, Forget, End, TypeOK, Requests, OneKeeper, Uses, Keeping
  <2>7. Gate'
    BY <1>15 DEF Dispose, Forget, End, TypeOK, Requests, OneKeeper, Uses, Gate, Keeping
  <2>8. QED
    BY <2>1, <2>2, <2>3, <2>5, <2>6, <2>7
<1>16. ASSUME NEW p \in Plan, RemoveSwept(p) PROVE IInv'
  <2>1. TypeOK'
    BY <1>16 DEF RemoveSwept, Forget, Remove, TypeOK, Requests
  <2>2. Requests'
    BY <1>16 DEF RemoveSwept, Forget, TypeOK, Requests
  <2>3. OneKeeper'
    BY <1>16 DEF RemoveSwept, Forget, TypeOK, Requests, OneKeeper, Keeping
  <2>4. /\ Kept(p) /\ ~Kept(p)'
        /\ \A x \in Plan : x # p => (Kept(x)' <=> Kept(x))
    BY <1>16 DEF RemoveSwept, TypeOK, OneKeeper, Kept
  <2>5. Boot' /\ AllKept'
    <3>1. /\ caught' = caught \ {p}
          /\ UNCHANGED <<booting, orphans, leftovers>>
      BY <1>16 DEF RemoveSwept, Forget
    <3>2. \/ disk' = disk \ {p} /\ stuck' = stuck \ {p}
          \/ disk' = disk /\ stuck' = stuck \cup {p}
      BY <1>16 DEF RemoveSwept, Remove
    <3>3. Boot'
      BY <2>4, <3>1, <3>2 DEF Boot
    <3>4. AllKept'
      BY <2>4, <3>1, <3>2 DEF AllKept, TypeOK
    <3>5. QED
      BY <3>3, <3>4
  <2>6. Uses'
    BY <1>16 DEF RemoveSwept, Forget, TypeOK, Requests, OneKeeper, Uses, Keeping
  <2>7. Gate'
    BY <1>16 DEF RemoveSwept, Forget, TypeOK, Requests, OneKeeper, Uses, Gate, Keeping
  <2>8. QED
    BY <2>1, <2>2, <2>3, <2>5, <2>6, <2>7
<1>17. ASSUME NEW p \in Plan, RemoveLeftover(p) PROVE IInv'
  <2>1. TypeOK'
    BY <1>17 DEF RemoveLeftover, Remove, TypeOK, Requests
  <2>2. Requests'
    BY <1>17 DEF RemoveLeftover, TypeOK, Requests
  <2>3. OneKeeper'
    BY <1>17 DEF RemoveLeftover, TypeOK, Requests, OneKeeper, Keeping
  <2>4. \A x \in Plan : Kept(x)' <=> Kept(x)
    BY <1>17 DEF RemoveLeftover, Kept
  <2>5. Boot' /\ AllKept'
    <3>1. /\ p \in leftovers /\ leftovers' = leftovers \ {p}
          /\ UNCHANGED <<booting, orphans, caught>>
      BY <1>17 DEF RemoveLeftover
    <3>2. \/ disk' = disk \ {p} /\ stuck' = stuck \ {p}
          \/ disk' = disk /\ stuck' = stuck \cup {p}
      BY <1>17 DEF RemoveLeftover, Remove
    <3>3. Boot'
      BY <2>4, <3>1, <3>2 DEF Boot
    <3>4. AllKept'
      BY <2>4, <3>1, <3>2 DEF Boot, AllKept, TypeOK
    <3>5. QED
      BY <3>3, <3>4
  <2>6. Uses'
    BY <1>17 DEF RemoveLeftover, TypeOK, Requests, OneKeeper, Uses, Keeping
  <2>7. Gate'
    BY <1>17 DEF RemoveLeftover, TypeOK, Requests, OneKeeper, Uses, Gate, Keeping
  <2>8. QED
    BY <2>1, <2>2, <2>3, <2>5, <2>6, <2>7
<1>18. ASSUME ListLeftovers PROVE IInv'
  <2>1. TypeOK' /\ Requests' /\ OneKeeper'
    BY <1>18 DEF ListLeftovers, TypeOK, Requests, OneKeeper
  <2>2. /\ booting /\ booting' = FALSE /\ orphans' = {} /\ leftovers' = disk
        /\ caught' = {p \in disk : p \in sessions \cup removing \/ Disposers(p) # {}}
        /\ UNCHANGED <<disk, stuck>>
    BY <1>18 DEF ListLeftovers, TypeOK
  <2>3. \A p \in Plan : Kept(p)' <=> Kept(p)
    BY <1>18 DEF ListLeftovers, Kept
  <2>4. \A p \in disk : Kept(p) => p \in caught'
    BY <2>2 DEF Kept, Disposers, Keeping
  <2>5. Boot' /\ AllKept'
    BY <2>2, <2>3, <2>4 DEF Boot, AllKept, TypeOK
  <2>6. Uses' /\ Gate'
    BY <1>18 DEF ListLeftovers, Uses, Gate
  <2>7. QED
    BY <2>1, <2>5, <2>6
<1>19. ASSUME Crash PROVE IInv'
  <2>1. TypeOK'
    BY <1>19 DEF Crash, TypeOK
  <2>2. Requests' /\ OneKeeper'
    BY <1>19 DEF Crash, Requests, OneKeeper, Keeping
  <2>3. \A p \in Plan : ~Kept(p)'
    BY <1>19 DEF Crash, Kept, Keeping
  <2>4. Boot' /\ AllKept'
    BY <1>19, <2>3 DEF Crash, Boot, AllKept, TypeOK
  <2>5. Uses' /\ Gate'
    BY <1>19 DEF Crash, Uses, Gate
  <2>6. QED
    BY <2>1, <2>2, <2>4, <2>5
<1>20. QED
    BY <1>1, <1>2, <1>3, <1>4, <1>5, <1>6, <1>7, <1>8, <1>9, <1>10, <1>11, <1>12, <1>13, <1>14,
       <1>15, <1>16, <1>17, <1>18, <1>19 DEF Next, RequestStep

\* It holds of every state of the routes, the store and the two sweeps.
LEMMA Invariant == Spec => []IInv
<1>1. QED
    BY InitIInv, StepIInv, PTL DEF Spec

\* Every variable keeps its type; a plan is held or inside use(), never both.
THEOREM Types == Spec => []TypeOK
<1>1. IInv => TypeOK
    BY DEF IInv
<1>2. QED
    BY <1>1, Invariant, PTL

\* However many uploads, clients, deaths and failed removals there are, every work directory is
\* a request's, the store's or a sweep's to remove, or the next boot's once a removal has failed
\* (routes/restore.ts, routes/import.ts, sweepAbandonedIntakes).
THEOREM Owned == Spec => []StagingIsOwned
<1>1. IInv => StagingIsOwned
    BY DEF IInv, TypeOK, AllKept, StagingIsOwned, Disposers, Kept, Keeping
<1>2. QED
    BY <1>1, Invariant, PTL

\* A directory has at most one request to remove it.
LEMMA OneDisposer ==
    ASSUME IInv, NEW p \in Plan
    PROVE  Cardinality(Disposers(p)) <= 1
<1>1. CASE Disposers(p) = {}
    BY <1>1, FS_EmptySet
<1>2. CASE Disposers(p) # {}
  <2>1. PICK r \in Request : r \in Disposers(p)
    BY <1>2 DEF Disposers
  <2>2. \A q \in Disposers(p) : q = r
    BY <2>1 DEF Disposers, IInv, OneKeeper, Keeping
  <2>3. Disposers(p) = {r}
    BY <2>1, <2>2
  <2>4. Cardinality(Disposers(p)) = 1
    BY <2>3, FS_Singleton, Zenon
  <2>5. QED
    BY <2>4
<1>3. QED
    BY <1>1, <1>2

\* No directory is removed under a plan that is held or being applied, by a sweep of the store or
\* another request's dispose(); nor by the sweep at boot, but for one that lists so late that it
\* finds the new directory too (IntakeSessionStore.use, sweep, sweepAbandonedIntakes).
THEOREM Stays == Spec => []StagingStays
<1>1. IInv => StagingStays
  <2> SUFFICES ASSUME IInv, NEW p \in Plan, p \in sessions \cup inFlight
               PROVE  /\ (p \in disk /\ p \notin leftovers) \/ p \in caught
                      /\ p \notin removing \cup orphans
                      /\ Cardinality(Disposers(p)) <= 1
                      /\ \A r \in Disposers(p) : pc[r] = "apply"
    BY DEF StagingStays
  <2>1. Kept(p)
    BY DEF IInv, Uses, Kept, Keeping
  <2>2. /\ (p \in disk /\ p \notin leftovers) \/ p \in caught
        /\ p \notin orphans
    BY <2>1 DEF IInv, Boot, AllKept
  <2>3. CASE p \in sessions
    <3>1. p \notin removing
      BY <2>3 DEF IInv, OneKeeper
    <3>2. \A r \in Disposers(p) : FALSE
      BY <2>3 DEF IInv, OneKeeper, Disposers, Keeping
    <3>3. QED
      BY <2>2, <3>1, <3>2, OneDisposer
  <2>4. CASE p \in inFlight
    <3>1. PICK r \in Request : pc[r] = "apply" /\ plan[r] = p
      BY <2>4 DEF IInv, Uses
    <3>2. p \notin removing
      BY <3>1 DEF IInv, OneKeeper, Keeping
    <3>3. \A q \in Disposers(p) : q = r
      BY <3>1 DEF IInv, OneKeeper, Disposers, Keeping
    <3>4. QED
      BY <2>2, <3>1, <3>2, <3>3, OneDisposer
  <2>5. QED
    BY <2>3, <2>4
<1>2. QED
    BY <1>1, Invariant, PTL

\* A plan is carried out at most once and by its uploader, whatever requests race for it
\* (IntakeSessionStore.use takes it from the map before its first await).
THEOREM Once == Spec => []PlanIsAppliedOnce
<1>1. IInv => PlanIsAppliedOnce
    BY DEF IInv, OneKeeper, Uses, PlanIsAppliedOnce, Keeping
<1>2. QED
    BY <1>1, Invariant, PTL

\* A restore is applied with the write gate its own, beside nothing but requests whose clients
\* have hung up, and none of those applies (applyRestoreRoute, WriteGate).
THEOREM Alone == Spec => []RestoreIsAlone
<1>1. IInv => RestoreIsAlone
  <2> SUFFICES ASSUME IInv, NEW r \in Request, pc[r] = "apply", kind[plan[r]] = "restore"
               PROVE  /\ gate = r
                      /\ \A q \in Request \ {r} : pc[q] = "idle" \/ (q \in gone /\ pc[q] # "apply")
    BY DEF RestoreIsAlone
  <2>1. gate = r
    BY DEF IInv, Gate
  <2>2. gate # None
    BY <2>1, IntakeAssumption
  <2>3. QED
    BY <2>1, <2>2 DEF IInv, Gate, Requests
<1>2. QED
    BY <1>1, Invariant, PTL
=============================================================================
