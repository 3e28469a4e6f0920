------------------------- MODULE RestoreApplyProofs -------------------------
(***************************************************************************)
(* Theorems of module RestoreApply, for any number of restores and deaths. *)
(* The inductive invariant says what each step of a restore finds: before  *)
(* the load nothing has changed and, once it is proved, the safety backup  *)
(* is of what was there; after it the database is the backup's, and the    *)
(* key becomes the backup's one step later.                                *)
(***************************************************************************)
EXTENDS RestoreApply, TLAPS

AfterProof == Steps \ {"safety-backup", "prove"}
AfterBlobs == AfterProof \ {"write-blobs"}
AfterLoad == {"check", "replace-mail-key", "forget", "migrate-forward"}

\* Archives are loaded in the order of the restores.
Order ==
    /\ db.of <= attempt
    /\ before.key <= before.db.of
    /\ before.db.of <= attempt
    /\ attempt > 0 => before.db.of < attempt
    /\ pc \in Steps => attempt > 0

\* What a restore that has not loaded yet finds, and one that is loading.
Untouched ==
    /\ pc \in BeforeLoad => Here = before
    /\ pc = "prove" => archive = before
    /\ psql = "open" => Here = before /\ told = "none" /\ attempt > 0
    /\ pc = "loading" => key = before.key /\ psql # "none"
    /\ pc = "loading" /\ psql = "zero" =>
          db.of = attempt /\ (sent = "all" => db.whole)
    /\ pc = "loading" => db = before.db \/ db.of = attempt

\* What the steps before the load have prepared for it.
Prepared ==
    pc \in AfterProof \/ psql = "open" =>
        /\ before \in undos
        /\ pc \in AfterBlobs \/ psql = "open" => attempt \in blobs

\* What the steps after it find.
Loaded ==
    /\ pc \in AfterLoad => db.of = attempt /\ db.whole
    /\ pc \in {"check", "replace-mail-key"} => key = before.key
    /\ pc \in {"forget", "migrate-forward"} => key = attempt
    /\ pc \in AfterLoad \ {"check"} =>
          backup.loads # "tables" /\ (backup.inventory => backup.loads = "promised")
    /\ pc \in AfterLoad \cup {"loading"} /\ db.of = attempt /\ backup.position /\ ~backup.older =>
          db.schema = "current"

IInv ==
    /\ TypeOK
    /\ Order
    /\ Untouched
    /\ Prepared
    /\ Loaded
    /\ UndoIsThere
    /\ KeyNeverAhead
    /\ BlobsPrecedeRows
    /\ AnswerIsTrue
-----------------------------------------------------------------------------
\* A first install has no restore behind it.
LEMMA InitIInv == Init => IInv
<1> SUFFICES ASSUME Init PROVE IInv
    OBVIOUS
<1>1. 0 \in Archive
    BY RestoreApplyAssumption DEF Archive
<1>2. db \in Database
    BY <1>1 DEF Init, Database, Schema
<1>3. Here \in Install
    BY <1>1, <1>2 DEF Init, Here, Install
<1>4. TypeOK
    BY RestoreApplyAssumption, <1>1, <1>2, <1>3
       DEF Init, TypeOK, Unread, Steps, SaysUnchanged, SaysRestored, OtherAnswers
<1>5. Order /\ Untouched /\ Prepared /\ Loaded
    BY DEF Init, Here, Order, Untouched, Prepared, Loaded, Steps, AfterProof, AfterBlobs,
           AfterLoad, BeforeLoad
<1>6. before.db = db /\ before.key = key
    BY DEF Init, Here
<1>7. UndoIsThere
    BY <1>6 DEF UndoIsThere, Replaced, Held
<1>8. KeyNeverAhead /\ BlobsPrecedeRows /\ AnswerIsTrue
    BY DEF Init, KeyNeverAhead, BlobsPrecedeRows, AnswerIsTrue, SaysUnchanged, SaysRestored,
           Unrealised
<1>9. QED
    BY <1>4, <1>5, <1>7, <1>8 DEF IInv

\* Every step of a restore, of psql and of the process keeps the invariant.
LEMMA StepIInv == IInv /\ [Next]_vars => IInv'
<1> SUFFICES ASSUME IInv, [Next]_vars PROVE IInv'
    OBVIOUS
<1> USE RestoreApplyAssumption
    DEF IInv, TypeOK, Order, Untouched, Prepared, Loaded, UndoIsThere, KeyNeverAhead,
       BlobsPrecedeRows, AnswerIsTrue, Steps, AfterProof, AfterBlobs, AfterLoad, BeforeLoad,
       Here, Archive, Install, Database, Schema, Unread, Held, Replaced, SaysUnchanged,
       SaysRestored, OtherAnswers, Backup, planVars, diskVars, loadVars, answerVars,
       Effect, Unrealised, Go, Tell
<1>1. CASE Begin
  BY <1>1 DEF Begin
<1>2. CASE SafetyBackup
  BY <1>2 DEF SafetyBackup
<1>3. CASE ProveArchiveOpens
  BY <1>3 DEF ProveArchiveOpens
<1>4. CASE WriteBlobs
  <2>1. TypeOK'
    <3>1. blobs' \subseteq Archive
      BY <1>4 DEF WriteBlobs
    <3>2. QED
      BY <1>4, <3>1 DEF WriteBlobs
  <2>2. Order'
    BY <1>4 DEF WriteBlobs
  <2>3. Untouched'
    BY <1>4 DEF WriteBlobs
  <2>4. Prepared'
    BY <1>4 DEF WriteBlobs
  <2>5. Loaded'
    BY <1>4 DEF WriteBlobs
  <2>6. UndoIsThere'
    BY <1>4 DEF WriteBlobs
  <2>7. KeyNeverAhead'
    BY <1>4 DEF WriteBlobs
  <2>8. BlobsPrecedeRows'
    BY <1>4 DEF WriteBlobs
  <2>9. AnswerIsTrue'
    BY <1>4 DEF WriteBlobs
  <2>10. QED
    BY <2>1, <2>2, <2>3, <2>4, <2>5, <2>6, <2>7, <2>8, <2>9
<1>5. CASE DestroySchema
  BY <1>5 DEF DestroySchema
<1>6. CASE LoadDump
  BY <1>6 DEF LoadDump
<1>7. CASE EndStream
  BY <1>7 DEF EndStream
<1>8. CASE PsqlCommits
  <2>1. TypeOK'
    BY <1>8 DEF PsqlCommits
  <2>2. Order'
    BY <1>8 DEF PsqlCommits
  <2>3. Untouched'
    BY <1>8 DEF PsqlCommits
  <2>4. Prepared'
    BY <1>8 DEF PsqlCommits
  <2>5. Loaded'
    BY <1>8 DEF PsqlCommits
  <2>6. UndoIsThere'
    BY <1>8 DEF PsqlCommits
  <2>7. KeyNeverAhead'
    BY <1>8 DEF PsqlCommits
  <2>8. BlobsPrecedeRows'
    BY <1>8 DEF PsqlCommits
  <2>9. AnswerIsTrue'
    BY <1>8 DEF PsqlCommits
  <2>10. QED
    BY <2>1, <2>2, <2>3, <2>4, <2>5, <2>6, <2>7, <2>8, <2>9
<1>9. CASE PsqlRollsBack
  BY <1>9 DEF PsqlRollsBack
<1>10. CASE JudgeLoad
  BY <1>10 DEF JudgeLoad, Delivered, SameShape
<1>11. CASE CheckResult
  BY <1>11 DEF CheckResult
<1>12. CASE ReplaceMailKey
  BY <1>12 DEF ReplaceMailKey
<1>13. CASE ForgetMailKey
  BY <1>13 DEF ForgetMailKey, Finish
<1>14. CASE MigrateForward
  BY <1>14 DEF MigrateForward
<1>15. CASE LoadMailKey
  BY <1>15 DEF LoadMailKey
<1>16. CASE Crash
  BY <1>16 DEF Crash
<1>17. CASE Boot
  <2>1. TypeOK'
    BY <1>17 DEF Boot
  <2>2. Order'
    BY <1>17 DEF Boot
  <2>3. Untouched'
    BY <1>17 DEF Boot
  <2>4. Prepared'
    BY <1>17 DEF Boot
  <2>5. Loaded'
    BY <1>17 DEF Boot
  <2>6. UndoIsThere'
    BY <1>17 DEF Boot
  <2>7. KeyNeverAhead'
    BY <1>17 DEF Boot
  <2>8. BlobsPrecedeRows'
    BY <1>17 DEF Boot
  <2>9. AnswerIsTrue'
    BY <1>17 DEF Boot
  <2>10. QED
    BY <2>1, <2>2, <2>3, <2>4, <2>5, <2>6, <2>7, <2>8, <2>9
<1>18. CASE UNCHANGED vars
  BY <1>18 DEF vars
<1>19. QED
  BY <1>1, <1>2, <1>3, <1>4, <1>5, <1>6, <1>7, <1>8, <1>9, <1>10, <1>11, <1>12, <1>13,
     <1>14, <1>15, <1>16, <1>17, <1>18 DEF Next

\* It holds of every state of a restore.
LEMMA Invariant == Spec => []IInv
<1>1. QED
    BY InitIInv, StepIInv, PTL DEF Spec

\* Every variable keeps its type; a restore that runs has not been answered, and a load belongs
\* to one that runs or died.
THEOREM Types == Spec => []TypeOK
<1>1. IInv => TypeOK
    BY DEF IInv
<1>2. QED
    BY <1>1, Invariant, PTL

\* However many restores are applied and wherever the process dies, a database that has been
\* replaced is in a safety backup that was opened (applyRestore's "safety-backup" step).
THEOREM Undo == Spec => []UndoIsThere
<1>1. IInv => UndoIsThere
    BY DEF IInv
<1>2. QED
    BY <1>1, Invariant, PTL

\* mail.key is never that of an archive whose database has not been loaded: the order of
\* applyRestore's effects.
THEOREM KeyOrder == Spec => []KeyNeverAhead
<1>1. IInv => KeyNeverAhead
    BY DEF IInv
<1>2. QED
    BY <1>1, Invariant, PTL

\* The stored files of a database are there before its rows are.
THEOREM BlobOrder == Spec => []BlobsPrecedeRows
<1>1. IInv => BlobsPrecedeRows
    BY DEF IInv
<1>2. QED
    BY <1>1, Invariant, PTL

\* What restoreFailure or the 200 answer says of the install is so.
THEOREM Truth == Spec => []AnswerIsTrue
<1>1. IInv => AnswerIsTrue
    BY DEF IInv
<1>2. QED
    BY <1>1, Invariant, PTL

\* A step at a time, the key a process has read is the one on disk.
LEMMA StepCached == IInv /\ KeyIsNotStale /\ [Next]_vars => KeyIsNotStale'
<1> SUFFICES ASSUME IInv, KeyIsNotStale, [Next]_vars PROVE KeyIsNotStale'
    OBVIOUS
<1> USE DEF KeyIsNotStale, planVars, diskVars, loadVars, answerVars, Go, Tell
<1>1. CASE ReplaceMailKey
  <2>1. CASE key' = attempt /\ Go("forget")
    BY <2>1
  <2>2. CASE UNCHANGED key /\ \E a \in {"mail_key_failed", "restore_failed"} : Tell(a)
    BY <1>1, <2>2 DEF ReplaceMailKey
  <2>3. QED
    BY <1>1, <2>1, <2>2 DEF ReplaceMailKey
<1>2. CASE ForgetMailKey
    BY <1>2 DEF ForgetMailKey, Finish
<1>3. CASE LoadMailKey \/ Crash
    BY <1>3 DEF LoadMailKey, Crash
<1>4. CASE Boot
    <2>1. cached = Unread \/ cached = key
      BY <1>4 DEF Boot
    <2>2. QED
      BY <1>4, <2>1 DEF Boot
<1>5. CASE ~ReplaceMailKey /\ ~ForgetMailKey /\ ~LoadMailKey /\ ~Crash /\ ~Boot
  <2>1. UNCHANGED <<cached, key>> /\ (pc = "forget" => pc' = "forget")
    BY <1>5 DEF Next, vars, Begin, SafetyBackup, ProveArchiveOpens, WriteBlobs,
       DestroySchema, LoadDump, EndStream, PsqlCommits, PsqlRollsBack, JudgeLoad,
       CheckResult, MigrateForward
  <2>2. QED
    BY <2>1
<1>6. QED
    BY <1>1, <1>2, <1>3, <1>4, <1>5

\* Past the step that forgets it, no process goes on with the key of the install that was
\* replaced (forgetMailKey).
THEOREM FreshKey == Spec => []KeyIsNotStale
<1>1. Init => KeyIsNotStale
    BY DEF Init, KeyIsNotStale
<1>2. QED
    BY <1>1, StepCached, Invariant, PTL DEF Spec

\* What the commands that go back find: an answer that prints them, and drops the schemas in
\* the way, is given with the key still that of the install before.
CommandsFindKey ==
    told \in PrintsCommands \ {"unexpected_migrations"} => key = before.key

\* A step at a time, until the next restore begins: half_applied is told while the load is
\* judged, and the other two by the step before the key is replaced.
LEMMA StepCommands == IInv /\ CommandsFindKey /\ [Next]_vars => CommandsFindKey'
<1> SUFFICES ASSUME IInv, CommandsFindKey, [Next]_vars PROVE CommandsFindKey'
    OBVIOUS
<1> USE DEF CommandsFindKey, PrintsCommands, planVars, diskVars, loadVars, answerVars, Go, Tell
<1>1. CASE JudgeLoad
  <2>1. key = before.key
    BY <1>1 DEF JudgeLoad, IInv, Untouched
  <2>2. UNCHANGED <<key, before>>
    BY <1>1 DEF JudgeLoad
  <2>3. QED
    BY <2>1, <2>2
<1>2. CASE CheckResult
  <2>1. key = before.key
    BY <1>2 DEF CheckResult, IInv, Loaded
  <2>2. UNCHANGED <<key, before>>
    BY <1>2 DEF CheckResult
  <2>3. QED
    BY <2>1, <2>2
<1>3. CASE ReplaceMailKey
  <2>1. told = "none"
    BY <1>3 DEF ReplaceMailKey, IInv, TypeOK, Steps
  <2>2. told' \in {"none", "mail_key_failed", "restore_failed"}
    BY <1>3, <2>1 DEF ReplaceMailKey
  <2>3. QED
    BY <2>2
<1>4. CASE Begin
    BY <1>4 DEF Begin
<1>5. CASE ~JudgeLoad /\ ~CheckResult /\ ~ReplaceMailKey /\ ~Begin
  <2>1. UNCHANGED <<key, before>>
    BY <1>5 DEF Next, vars, SafetyBackup, ProveArchiveOpens, WriteBlobs, DestroySchema,
       LoadDump, EndStream, PsqlCommits, PsqlRollsBack, ForgetMailKey, MigrateForward,
       LoadMailKey, Crash, Boot
  <2>2. told' = told \/ told' \notin PrintsCommands \ {"unexpected_migrations"}
    BY <1>5 DEF Next, vars, SafetyBackup, ProveArchiveOpens, WriteBlobs, DestroySchema,
       LoadDump, EndStream, PsqlCommits, PsqlRollsBack, ForgetMailKey, Finish,
       MigrateForward, LoadMailKey, Crash, Boot
  <2>3. QED
    BY <2>1, <2>2
<1>6. QED
    BY <1>1, <1>2, <1>3, <1>4, <1>5

\* With the key as it was, the database of the safety backup is all there is to put back.
LEMMA KeyIsEnough == IInv /\ CommandsFindKey => CommandsGoBack
<1> SUFFICES ASSUME IInv, CommandsFindKey,
                    told \in PrintsCommands \ {"unexpected_migrations"}
             PROVE  (Replaced => before \in undos) /\ Recovered(told) = before
    BY DEF CommandsGoBack
<1>1. Replaced => before \in undos
    BY DEF IInv, UndoIsThere
<1>2. Recovered(told) = [db |-> before.db, key |-> key]
    BY DEF Recovered, CommandsDrop, Here
<1>3. before = [db |-> before.db, key |-> before.key]
    BY DEF IInv, TypeOK, Install
<1>4. key = before.key
    BY DEF CommandsFindKey
<1>5. QED
    BY <1>1, <1>2, <1>3, <1>4

\* The commands an answer prints (recoveryCommands), run on what that answer left, put the
\* install back as it was before the restore, database and mail key, however many restores
\* and deaths came first.
THEOREM WayBack == Spec => []CommandsGoBack
<1>1. Init => CommandsFindKey
    BY DEF Init, CommandsFindKey, PrintsCommands
<1>2. Spec => []CommandsFindKey
    BY <1>1, StepCommands, Invariant, PTL DEF Spec
<1>3. QED
    BY <1>2, KeyIsEnough, Invariant, PTL
-----------------------------------------------------------------------------
(* The restore implements its promise. *)

\* A first install is one nothing has been said of and nothing kept of.
LEMMA InitPromise == Init => Promise!Init
<1> SUFFICES ASSUME Init PROVE Promise!Init
    OBVIOUS
<1>1. 0 \in Archive /\ db.of = 0 /\ db.whole = TRUE
    BY RestoreApplyAssumption DEF Init, Archive
<1>2. Held(db) \in Archive \X BOOLEAN
    BY <1>1 DEF Held
<1>3. Held(before.db) = Held(db)
    BY DEF Init, Here
<1>4. {Held(u.db) : u \in undos} = {}
    BY DEF Init
<1>5. Class = "none"
    BY DEF Init, Class, SaysUnchanged, SaysRestored, BeforeLoad
<1>6. QED
    BY <1>2, <1>3, <1>4, <1>5 DEF Promise!Init

\* A step that leaves the contents, the safety backups and the answer is a stutter.
LEMMA Stutters ==
    ASSUME UNCHANGED <<before, undos, told, stoppedAt>>, Held(db)' = Held(db)
    PROVE  UNCHANGED Promise!vars
<1>1. Class' = Class
    BY DEF Class
<1>2. Held(before.db)' = Held(before.db)
    BY DEF Held
<1>3. {Held(u.db) : u \in undos}' = {Held(u.db) : u \in undos}
    BY DEF Held
<1>4. QED
    BY <1>1, <1>2, <1>3 DEF Promise!vars

\* An answer that is so is the promise's Answer.
LEMMA Answers ==
    ASSUME UNCHANGED <<before, undos>>, Held(db)' = Held(db), told = "none", told' # "none",
           Class' = "unchanged" => ~Replaced,
           Class' = "replaced" => Replaced
    PROVE  Promise!Answer
<1>1. Class = "none"
    BY DEF Class, SaysUnchanged, SaysRestored, BeforeLoad
<1>2. Class' \in Promise!Answers
    BY DEF Promise!Answers, Class, SaysUnchanged, SaysRestored, BeforeLoad
<1>3. Promise!IsSo(Class')
    BY DEF Promise!IsSo, Replaced
<1>4. Held(before.db)' = Held(before.db)
    BY DEF Held
<1>5. {Held(u.db) : u \in undos}' = {Held(u.db) : u \in undos}
    BY DEF Held
<1>6. QED
    BY <1>1, <1>2, <1>3, <1>4, <1>5 DEF Promise!Answer

\* A load that commits replaces the database with one that was never there before, after
\* the safety backup of the old one was opened and before anything is said.
LEMMA Replaces == IInv /\ PsqlCommits => Promise!Replace
<1> SUFFICES ASSUME IInv, PsqlCommits PROVE Promise!Replace
    OBVIOUS
<1>1. told = "none" /\ told' = "none" /\ before' = before /\ undos' = undos
    BY DEF IInv, Untouched, PsqlCommits, planVars, answerVars
<1>2. Class = "none" /\ Class' = "none"
    BY <1>1 DEF Class, SaysUnchanged, SaysRestored, BeforeLoad
<1>3. before \in undos
    BY DEF IInv, Prepared, PsqlCommits
<1>4. Held(before.db) \in {Held(u.db) : u \in undos}
    BY <1>3
<1>5. db'.of = attempt /\ db'.whole \in BOOLEAN /\ attempt \in Archive
  <2>1. db'.of = attempt /\ db'.whole = (sent = "all")
    BY DEF PsqlCommits
  <2>2. QED
    BY <2>1 DEF IInv, TypeOK
<1>6. before.db.of < attempt /\ before.db.of \in Nat /\ attempt \in Nat
    BY RestoreApplyAssumption
       DEF PsqlCommits, IInv, Untouched, Order, TypeOK, Archive, Install, Database
<1>7. before.db.of # attempt
    BY <1>6
<1>8. Held(db)' = <<db'.of, db'.whole>> /\ Held(before.db) = <<before.db.of, before.db.whole>>
    BY DEF Held
<1>9. Held(db)' \in (Archive \X BOOLEAN) \ {Held(before.db)}
    BY <1>5, <1>7, <1>8
<1>10. Held(before.db)' = Held(before.db)
    BY <1>1 DEF Held
<1>11. {Held(u.db) : u \in undos}' = {Held(u.db) : u \in undos}
    BY <1>1 DEF Held
<1>12. QED
    BY <1>2, <1>4, <1>9, <1>10, <1>11 DEF Promise!Replace

\* Proving the safety backup keeps what is there; failing to is an answer.
LEMMA Keeps == IInv /\ ProveArchiveOpens => Promise!Keep \/ Promise!Answer
<1> SUFFICES ASSUME IInv, ProveArchiveOpens PROVE Promise!Keep \/ Promise!Answer
    OBVIOUS
<1>1. archive = before /\ Here = before /\ told = "none" /\ db' = db /\ before' = before
    BY DEF ProveArchiveOpens, IInv, Untouched, BeforeLoad, TypeOK, Steps, planVars
<1>2. archive.db = db /\ before.db = db
    BY <1>1 DEF Here
<1>3. Held(db)' = Held(db)
    BY <1>1 DEF Held
<1>4. CASE undos' = undos \cup {archive} /\ Go("write-blobs")
  <2>1. Class' = Class
    BY <1>4 DEF Go, answerVars, Class
  <2>2. Held(before.db)' = Held(before.db)
    BY <1>1 DEF Held
  <2>3. {Held(u.db) : u \in undos}' = {Held(u.db) : u \in undos} \cup {Held(db)}
    BY <1>2, <1>4 DEF Held
  <2>4. QED
    BY <1>3, <2>1, <2>2, <2>3 DEF Promise!Keep
<1>5. CASE UNCHANGED undos /\ pc = "prove" /\
           \E a \in {"safety_backup_failed", "tool_missing", "restore_failed"} : Tell(a)
  <2>1. ~Replaced
    BY <1>2 DEF Replaced
  <2>2. told' \in SaysUnchanged \cup {"restore_failed"} /\ stoppedAt' \in BeforeLoad
    BY <1>5 DEF Tell, SaysUnchanged, BeforeLoad
  <2>3. told' # "none" /\ Class' = "unchanged"
    BY <2>2 DEF Class, SaysUnchanged, SaysRestored, BeforeLoad
  <2>4. QED
    BY <1>1, <1>3, <1>5, <2>1, <2>3, Answers
<1>6. QED
    BY <1>4, <1>5 DEF ProveArchiveOpens

\* A restore begins with what is there.
LEMMA Begins == Begin => Promise!Begin
<1> SUFFICES ASSUME Begin PROVE Promise!Begin
    OBVIOUS
<1>1. before' = Here /\ told' = "none" /\ db' = db /\ undos' = undos
    BY DEF Begin, diskVars
<1>2. Class' = "none"
    BY <1>1 DEF Class, SaysUnchanged, SaysRestored, BeforeLoad
<1>3. Held(before.db)' = Held(db) /\ Held(db)' = Held(db)
    BY <1>1 DEF Held, Here
<1>4. {Held(u.db) : u \in undos}' = {Held(u.db) : u \in undos}
    BY <1>1 DEF Held
<1>5. QED
    BY <1>2, <1>3, <1>4 DEF Promise!Begin

\* Every other step says nothing and replaces nothing, or makes an answer that is so.
LEMMA Others ==
    ASSUME IInv, IInv', UNCHANGED <<before, undos, db>> \/ MigrateForward \/ Boot,
           UNCHANGED <<before, undos>>, attempt' = attempt,
           UNCHANGED answerVars \/ (pc \in Steps /\ told' # "none")
    PROVE  Promise!Answer \/ UNCHANGED Promise!vars
<1>1. Held(db)' = Held(db)
    BY DEF Held, MigrateForward, Boot, IInv, TypeOK, Database
<1>2. CASE UNCHANGED answerVars
    BY <1>1, <1>2, Stutters DEF answerVars
<1>3. CASE pc \in Steps /\ told' # "none"
  <2>1. told = "none" /\ pc \in Steps
    BY <1>3 DEF IInv, TypeOK
  <2>2. Replaced' = Replaced
    BY <1>1 DEF Replaced, Held
  <2>3. Class' = "unchanged" => ~Replaced
    <3>1. CASE told' \in SaysUnchanged
      BY <2>2, <3>1 DEF IInv, AnswerIsTrue
    <3>2. CASE told' = "restore_failed" /\ stoppedAt' \in BeforeLoad
      BY <2>2, <3>2 DEF IInv, AnswerIsTrue
    <3>3. CASE told' \notin SaysUnchanged /\ ~(told' = "restore_failed" /\ stoppedAt' \in BeforeLoad)
      <4>1. Class' \in {"replaced", "unknown"}
        BY <1>3, <3>3 DEF Class, SaysRestored
      <4>2. QED
        BY <4>1
    <3>4. QED
      BY <3>1, <3>2, <3>3
  <2>4. Class' = "replaced" => Replaced
    <3>1. SUFFICES ASSUME Class' = "replaced" PROVE Replaced
      OBVIOUS
    <3>2. \/ told' \in SaysRestored
          \/ told' = "restore_failed" /\ stoppedAt' \notin BeforeLoad
      BY <3>1 DEF Class, BeforeLoad
    <3>3. Held(db)' = <<db'.of, db'.whole>> /\ db'.of = attempt
      BY <3>2 DEF IInv, AnswerIsTrue, Held
    <3>4. before.db.of < attempt /\ before.db.of \in Nat /\ attempt \in Nat
      BY <2>1, RestoreApplyAssumption
         DEF IInv, Order, TypeOK, Archive, Install, Database
    <3>5. before.db.of # attempt
      BY <3>4
    <3>6. QED
      BY <1>1, <3>3, <3>5 DEF Replaced, Held
  <2>5. QED
    BY <1>1, <1>3, <2>1, <2>3, <2>4, Answers
<1>4. QED
    BY <1>2, <1>3

\* Every step of a restore, of psql and of the process is a step of the promise or none.
LEMMA StepPromise == IInv /\ IInv' /\ [Next]_vars => [Promise!Next]_Promise!vars
<1> SUFFICES ASSUME IInv, IInv', [Next]_vars
             PROVE  Promise!Next \/ UNCHANGED Promise!vars
    OBVIOUS
<1>1. CASE Begin
    BY <1>1, Begins DEF Promise!Next
<1>2. CASE ProveArchiveOpens
    BY <1>2, Keeps DEF Promise!Next
<1>3. CASE PsqlCommits
    BY <1>3, Replaces DEF Promise!Next
<1>4. CASE ~Begin /\ ~ProveArchiveOpens /\ ~PsqlCommits
  <2>1. UNCHANGED <<before, undos, db>> \/ MigrateForward \/ Boot
    BY <1>4 DEF Next, vars, SafetyBackup, WriteBlobs, DestroySchema, LoadDump, EndStream,
       PsqlRollsBack, JudgeLoad, CheckResult, ReplaceMailKey, ForgetMailKey, LoadMailKey,
       Crash, planVars, diskVars
  <2>2. UNCHANGED <<before, undos>> /\ attempt' = attempt
    BY <2>1, <1>4 DEF Next, vars, SafetyBackup, WriteBlobs, DestroySchema, LoadDump,
       EndStream, PsqlRollsBack, JudgeLoad, CheckResult, ReplaceMailKey, ForgetMailKey,
       LoadMailKey, MigrateForward, Boot, Crash, planVars, diskVars
  <2>3. UNCHANGED answerVars \/ (pc \in Steps /\ told' # "none")
    <3>1. CASE SafetyBackup \/ WriteBlobs \/ DestroySchema \/ LoadDump
      BY <3>1 DEF SafetyBackup, WriteBlobs, DestroySchema, LoadDump, Steps, Go, Tell, answerVars
    <3>2. CASE JudgeLoad \/ CheckResult \/ ReplaceMailKey
      BY <3>2 DEF JudgeLoad, CheckResult, ReplaceMailKey, Steps, Go, Tell, answerVars
    <3>3. CASE ForgetMailKey \/ MigrateForward
      BY <3>3 DEF ForgetMailKey, Finish, MigrateForward, Steps, Go, Tell, answerVars
    <3>4. CASE EndStream \/ PsqlRollsBack \/ LoadMailKey \/ Crash \/ Boot \/ UNCHANGED vars
      BY <3>4 DEF EndStream, PsqlRollsBack, LoadMailKey, Crash, Boot, vars, answerVars
    <3>5. QED
      BY <1>4, <3>1, <3>2, <3>3, <3>4 DEF Next
  <2>4. Promise!Answer \/ UNCHANGED Promise!vars
    BY <2>1, <2>2, <2>3, Others
  <2>5. QED
    BY <2>4 DEF Promise!Next
<1>5. QED
    BY <1>1, <1>2, <1>3, <1>4

\* What is replaced is kept first, and what is said is so: applyRestore and routes/restore.ts
\* implement the promise of module RestorePromise.
THEOREM Refinement == Spec => PromiseKept
<1>1. Init => Promise!Init
    BY InitPromise
<1>2. IInv /\ IInv' /\ [Next]_vars => [Promise!Next]_Promise!vars
    BY StepPromise
<1>3. QED
    BY <1>1, <1>2, Invariant, PTL DEF Spec, PromiseKept, Promise!Spec
=============================================================================
