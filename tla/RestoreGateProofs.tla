------------------------- MODULE RestoreGateProofs -------------------------
(***************************************************************************)
(* For any set of requests of the five kinds and any set of users: the     *)
(* gate has one owner, the only writers that overlap an apply are the      *)
(* three OnlyTheHolesOverlap names, and no mail loop runs during it but    *)
(* one of a start() that an apply before it left pending.                  *)
(*                                                                         *)
(* None of these is inductive.  Inv below adds why: #inFlight counts       *)
(* exactly the admitted writes whose client waits, a drain is answered     *)
(* "drained" only when nothing but the closer is left in it and nothing is *)
(* admitted after, the sync stays stopped until the holder releases, and   *)
(* whoever has a start() pending then has been answered.                   *)
(***************************************************************************)
EXTENDS RestoreGate, TLAPS

\* #inFlight holds the admitted writes that have neither answered nor hung up.
InFlightCounts ==
    /\ \A r \in Request :
          r \in inFlight <=> IsWriteMethod(r) /\ pc[r] # "idle" /\ r \notin hungUp
    /\ \A r \in hungUp : r \in Writes /\ pc[r] # "idle"

\* Only applies are ever in a state of the apply route.
AppliesHold == \A r \in Request : pc[r] \in Holding \cup {"proof", "restart"} => r \in Applies

\* A refuseNewWrites call is outstanding only while its caller holds the gate, and
\* a holder past the drain was answered "drained".
DrainOfHolder ==
    \A r \in Request :
        /\ drain[r] # "none" => pc[r] \in Holding
        /\ pc[r] \in Holding \ {"drain"} => drain[r] = "drained"

\* Once a drain is answered "drained" nothing but its caller is in #inFlight.
DrainedIsEmpty == \A r \in Request : drain[r] = "drained" => inFlight \subseteq {r}

\* A start() is pending for an apply that waits for it or has been answered.
StartersAnswered ==
    \A r \in starting : r \in Applies /\ pc[r] \in {"refuse", "restart", "answer", "idle"}

\* From the call of stop() to the release, the manager is stopped, and what is pending or
\* has begun since is of the start()s the call overtook.
SyncStaysStopped ==
    \A h \in Request : pc[h] \in {"stop"} \cup Exclusive =>
        /\ ~started
        /\ "late" \in loops => overtaken # {}
        /\ \A r \in overtaken : r \in Applies \ {h}
        /\ \A r \in starting : r \in overtaken /\ pc[r] = "idle"

\* A statement left over from before the commit belongs to one of the holes.
StaleAreTheHoles == stale \cup intruders \subseteq hungUp \cup Callbacks \cup Reads

Inv ==
    /\ TypeOK
    /\ InFlightCounts
    /\ AppliesHold
    /\ GateHasOneOwner
    /\ DrainOfHolder
    /\ DrainedIsEmpty
    /\ StartersAnswered
    /\ SyncStaysStopped
    /\ SyncIsSilent
    /\ StaleAreTheHoles
-----------------------------------------------------------------------------
\* The process boots with the gate open, nothing in flight and the sync running.
LEMMA InitInv == Init => Inv
BY KindsAssumption
   DEF Init, Inv, TypeOK, GateTypeOK, GateInit, DrainAnswer, Step, Holding, Exclusive,
       InFlightCounts, AppliesHold, GateHasOneOwner, DrainOfHolder, DrainedIsEmpty,
       StartersAnswered, SyncStaysStopped, SyncIsSilent, StaleAreTheHoles

\* resume() leaves the gate well typed, whoever calls it.
LEMMA ResumeTypes ==
    ASSUME NEW r \in Request, GateTypeOK, Resume(r)
    PROVE  GateTypeOK'
<1>1. TellWaiters("notDrained") \in [Request -> DrainAnswer]
    BY DEF GateTypeOK, TellWaiters, DrainAnswer
<1>2. drain' \in [Request -> DrainAnswer]
    BY <1>1 DEF Resume, DrainAnswer
<1>3. QED
    BY <1>2 DEF GateTypeOK, Resume

\* Every step of a hook, a handler or the sync keeps the types.
LEMMA TypeStep == TypeOK /\ [Next]_vars => TypeOK'
<1> SUFFICES ASSUME TypeOK, [Next]_vars PROVE TypeOK'
    OBVIOUS
<1> USE DEF TypeOK, GateTypeOK, gateVars, httpVars, syncVars, dbVars, Goto
<1>1. ASSUME NEW r \in Request, NEW u \in User, Arrive(r, u) PROVE TypeOK'
    BY <1>1 DEF Arrive, Admit, IsWriteMethod, Step
<1>2. ASSUME NEW r \in Request, Identify(r) PROVE TypeOK'
    BY <1>2 DEF Identify, Step
<1>3. ASSUME NEW r \in Request, Resolve(r) \/ HandleWithoutWriting(r) \/ HandleWriting(r)
      PROVE TypeOK'
    BY <1>3 DEF Resolve, HandleWithoutWriting, HandleWriting, Deliver, Step
<1>4. ASSUME NEW r \in Request, Respond(r) \/ HangUp(r) PROVE TypeOK'
    BY <1>4 DEF Respond, HangUp, Finish, TellWaiters, DrainAnswer, Step
<1>5. ASSUME NEW r \in Request, LookUpPlan(r) \/ Busy(r) \/ WrongPassphrase(r)
      PROVE TypeOK'
    BY <1>5 DEF LookUpPlan, Busy, WrongPassphrase, Step
<1>6. ASSUME NEW r \in Request, Close(r) \/ DrainGivesUp(r) PROVE TypeOK'
    BY <1>6 DEF Close, RefuseNewWrites, DrainGivesUp, DrainTimeout, DrainAnswer, Step,
                Holding
<1>7. ASSUME NEW r \in Request, Drained(r) \/ SyncStopped(r) \/ SyncNotStopped(r)
      PROVE TypeOK'
    BY <1>7 DEF Drained, StopSync, SyncStopped, SyncNotStopped, StartSync, Step, Holding
<1>8. ASSUME NEW r \in Request, NotDrained(r) \/ SyncRefused(r) \/ ReleaseFailed(r) \/ ReleaseRestored(r)
      PROVE TypeOK'
    <2>1. ASSUME Resume(r)
          PROVE GateTypeOK' /\ inFlight' = inFlight
        BY <2>1, ResumeTypes DEF Resume
    <2>2. CASE NotDrained(r)
        BY <2>1, <2>2 DEF NotDrained, Step
    <2>3. CASE SyncRefused(r)
        BY <2>1, <2>3 DEF SyncRefused, SyncStarted, Step
    <2>4. CASE ReleaseFailed(r) \/ ReleaseRestored(r)
        BY <2>1, <2>4 DEF ReleaseFailed, ReleaseRestored, LetGo, StartSync, Step
    <2>5. QED
        BY <1>8, <2>2, <2>3, <2>4
<1>9. ASSUME NEW r \in Request, LoadBegins(r) \/ LoadCommits(r) \/ LoadRollsBack(r)
      PROVE TypeOK'
    BY <1>9 DEF LoadBegins, LoadCommits, LoadRollsBack, Step, Holding
<1>10. ASSUME NEW r \in Request, SyncRestarted(r) \/ SyncRestartedBehind(r) PROVE TypeOK'
    BY <1>10 DEF SyncRestarted, SyncRestartedBehind, SyncStarted, Step
<1>11. ASSUME NEW u \in User, ExpireUser(u) PROVE TypeOK'
    BY <1>11 DEF ExpireUser
<1>12. ASSUME NEW kind \in {"known", "orphan"}, LoopsEnd(kind) PROVE TypeOK'
    BY <1>12 DEF LoopsEnd
<1>13. CASE UNCHANGED vars
    BY <1>13 DEF vars
<1>14. QED
    BY <1>1, <1>2, <1>3, <1>4, <1>5, <1>6, <1>7, <1>8, <1>9, <1>10, <1>11, <1>12, <1>13
       DEF Next, ApplyStep

\* Type correctness of every state of the restore gate.
THEOREM RestoreGateTypes == Spec => []TypeOK
<1>1. Init => TypeOK
    BY InitInv DEF Inv
<1>2. QED
    BY <1>1, TypeStep, PTL DEF Spec

\* Everything of Inv but the types, which TypeStep has.
Parts ==
    /\ InFlightCounts
    /\ AppliesHold
    /\ GateHasOneOwner
    /\ DrainOfHolder
    /\ DrainedIsEmpty
    /\ StartersAnswered
    /\ SyncStaysStopped
    /\ SyncIsSilent
    /\ StaleAreTheHoles

\* Every step of a hook, a handler or the sync preserves the inductive invariant.
LEMMA InvStep == Inv /\ [Next]_vars => Inv'
<1> SUFFICES ASSUME Inv, [Next]_vars PROVE Parts'
    BY TypeStep DEF Inv, Parts
<1> USE KindsAssumption, NoRequestAssumption
    DEF Inv, Parts, TypeOK, GateTypeOK, InFlightCounts, AppliesHold, GateHasOneOwner,
        DrainOfHolder, DrainedIsEmpty, StartersAnswered, SyncStaysStopped, SyncIsSilent,
        StaleAreTheHoles,
        Step, Holding, Exclusive, DrainAnswer, IsWriteMethod, Mutators,
        gateVars, httpVars, syncVars, dbVars, Goto
<1>1. ASSUME NEW r \in Request, NEW u \in User, Arrive(r, u) PROVE Parts'
    BY <1>1 DEF Arrive, Admit
<1>2. ASSUME NEW r \in Request, Identify(r) PROVE Parts'
    BY <1>2 DEF Identify
<1>3. ASSUME NEW r \in Request, Resolve(r) PROVE Parts'
    BY <1>3 DEF Resolve, Deliver
<1>4. ASSUME NEW r \in Request, HandleWithoutWriting(r) PROVE Parts'
    BY <1>4 DEF HandleWithoutWriting
<1>5. ASSUME NEW r \in Request, HandleWriting(r) PROVE Parts'
    BY <1>5 DEF HandleWriting, Deliver
<1>6. ASSUME NEW r \in Request, Respond(r) PROVE Parts'
    BY <1>6 DEF Respond, Finish, TellWaiters, IsDrained, Others
<1>7. ASSUME NEW r \in Request, HangUp(r) PROVE Parts'
    BY <1>7 DEF HangUp, Finish, TellWaiters, IsDrained, Others
<1>8. ASSUME NEW r \in Request, LookUpPlan(r) PROVE Parts'
    BY <1>8 DEF LookUpPlan
<1>9. ASSUME NEW r \in Request, Busy(r) \/ WrongPassphrase(r) PROVE Parts'
    BY <1>9 DEF Busy, WrongPassphrase
<1>10. ASSUME NEW r \in Request, Close(r) PROVE Parts'
    BY <1>10 DEF Close, RefuseNewWrites, IsDrained, Others
<1>11. ASSUME NEW r \in Request, DrainGivesUp(r) PROVE Parts'
    BY <1>11 DEF DrainGivesUp, DrainTimeout
<1>12. ASSUME NEW r \in Request, Drained(r) PROVE Parts'
    BY <1>12 DEF Drained, StopSync
<1>13. ASSUME NEW r \in Request, NotDrained(r) PROVE Parts'
    BY <1>13 DEF NotDrained, Resume, TellWaiters
<1>14. ASSUME NEW r \in Request, SyncStopped(r) PROVE Parts'
    BY <1>14 DEF SyncStopped
<1>15. ASSUME NEW r \in Request, SyncNotStopped(r) PROVE Parts'
    BY <1>15 DEF SyncNotStopped, StartSync
<1>16. ASSUME NEW r \in Request, SyncRefused(r) PROVE Parts'
    BY <1>16 DEF SyncRefused, SyncStarted, Resume, TellWaiters
<1>17. ASSUME NEW r \in Request, LoadBegins(r) \/ LoadRollsBack(r) PROVE Parts'
    BY <1>17 DEF LoadBegins, LoadRollsBack
<1>18. ASSUME NEW r \in Request, LoadCommits(r) PROVE Parts'
    BY <1>18 DEF LoadCommits
<1>19. ASSUME NEW r \in Request, ReleaseFailed(r) \/ ReleaseRestored(r) PROVE Parts'
    BY <1>19 DEF ReleaseFailed, ReleaseRestored, LetGo, Resume, TellWaiters, StartSync
<1>20. ASSUME NEW r \in Request, SyncRestarted(r) \/ SyncRestartedBehind(r) PROVE Parts'
    BY <1>20 DEF SyncRestarted, SyncRestartedBehind, SyncStarted
<1>21. ASSUME NEW u \in User, ExpireUser(u) PROVE Parts'
    BY <1>21 DEF ExpireUser
<1>22. ASSUME NEW kind \in {"known", "orphan"}, LoopsEnd(kind) PROVE Parts'
    BY <1>22 DEF LoopsEnd
<1>23. CASE UNCHANGED vars
    BY <1>23 DEF vars
<1>24. QED
    BY <1>1, <1>2, <1>3, <1>4, <1>5, <1>6, <1>7, <1>8, <1>9, <1>10, <1>11, <1>12, <1>13,
       <1>14, <1>15, <1>16, <1>17, <1>18, <1>19, <1>20, <1>21, <1>22, <1>23
       DEF Next, ApplyStep

\* The inductive invariant holds of every state of the restore gate.
LEMMA Invariance == Spec => []Inv
<1>1. Init => Inv
    BY InitInv
<1>2. QED
    BY <1>1, InvStep, PTL DEF Spec
-----------------------------------------------------------------------------
\* However many applies race for it, a shut gate has one owner, and `except` names
\* it: no apply ever reopens the gate another one holds (WriteGateBusyError).
THEOREM OneOwner == Spec => []GateHasOneOwner
<1>1. Inv => GateHasOneOwner
    BY DEF Inv
<1>2. QED
    BY <1>1, Invariance, PTL

\* The drain works but for its three holes: of all requests only a write whose
\* client hung up, the OAuth callback, or a read whose upsert was issued before the
\* gate shut can still write while a backup is being applied.
THEOREM OverlapOnlyThroughHoles == Spec => []OnlyTheHolesOverlap
<1>1. Inv => OnlyTheHolesOverlap
    <2> SUFFICES ASSUME Inv, NEW h \in Request, NEW r \in Request,
                        pc[h] \in Exclusive, r # h,
                        pc[r] = "resolving" \/ (r \in Mutators /\ pc[r] = "handler"),
                        r \notin Callbacks \cup Reads
                 PROVE  r \in hungUp
        BY DEF OnlyTheHolesOverlap
    <2>1. drain[h] = "drained"
        BY DEF Inv, DrainOfHolder, Exclusive, Holding
    <2>2. r \notin inFlight
        BY <2>1 DEF Inv, DrainedIsEmpty
    <2>3. IsWriteMethod(r) /\ pc[r] # "idle"
        BY KindsAssumption DEF IsWriteMethod
    <2>4. QED
        BY <2>2, <2>3 DEF Inv, InFlightCounts
<1>2. QED
    BY <1>1, Invariance, PTL

\* And so does every write that crosses the commit into the restored data.
THEOREM DeliveryOnlyThroughHoles == Spec => []IntrudersAreTheHoles
<1>1. Inv => IntrudersAreTheHoles
    BY DEF Inv, StaleAreTheHoles, IntrudersAreTheHoles
<1>2. QED
    BY <1>1, Invariance, PTL

\* A restore that got past stop() has no loop beside it but those of a start() which that
\* stop() overtook, and such a start() was called by another apply, which has been answered.
THEOREM RestoreSilencesSync == Spec => []SyncIsSilent
<1>1. Inv => SyncIsSilent
    BY DEF Inv
<1>2. QED
    BY <1>1, Invariance, PTL
=============================================================================
