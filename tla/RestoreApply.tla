---------------------------- MODULE RestoreApply ----------------------------
(***************************************************************************)
(* Restores as services/restore.ts applies them: applyRestore's steps in   *)
(* the order applyPlan (services/intake-plan.ts) runs a plan's effects,    *)
(* the psql process that loads the dump, the answer routes/restore.ts      *)
(* makes of the outcome, the cached mail key, and deaths of the process.   *)
(*                                                                         *)
(* A database, a mail key and a set of stored files are known by the       *)
(* archive they come from: the n-th restore's is n, the first install's 0. *)
(* The keys of two archives are taken to differ.  Modules RestoreGate and  *)
(* SyncManager say when nothing else writes; here nothing does.            *)
(***************************************************************************)
EXTENDS Naturals

CONSTANTS
    MaxRestores,    \* bound on how many restores are applied
    MaxCrashes      \* bound on how often the process dies

ASSUME RestoreApplyAssumption == MaxRestores \in Nat /\ MaxCrashes \in Nat

Archive == 0..MaxRestores
\* No key read.
Unread == MaxRestores + 1

Schema == {"current", "behind"}

\* A database: whose it is, whether all of it is there, and how far it is migrated.
Database == [of : Archive, whole : BOOLEAN, schema : Schema]
Install == [db : Database, key : Archive]

\* What there is to know of an uploaded backup: whether it says its schema is older,
\* whether what it loads is what it promised (or other tables, or other rows), whether it
\* has an inventory, and whether the migration position it gives is the true one.
Backup == [older : BOOLEAN, loads : {"promised", "tables", "rows"},
           inventory : BOOLEAN, position : BOOLEAN]

VARIABLES
    pc,         \* the step the restore is at, idle, or down
    attempt,    \* how many restores have begun; the number of the last one
    backup,     \* the backup it restores
    before,     \* the install as it found it
    db,         \* the database
    key,        \* mail.key on disk
    cached,     \* the mail key in this process's memory
    blobs,      \* archives all of whose stored files are on disk
    archive,    \* the safety backup as written
    undos,      \* safety backups that were proved to open
    psql,       \* none, open, or what its exit code said
    sent,       \* how much of the dump has been sent to psql: some, all, or it was cut
    told,       \* the answer to the last restore
    stoppedAt,  \* the step it was given at
    crashes

diskVars == <<db, key, blobs, undos>>
loadVars == <<psql, sent>>
planVars == <<attempt, backup, before>>
answerVars == <<told, stoppedAt>>
vars == <<pc, planVars, db, key, cached, blobs, archive, undos, loadVars, answerVars, crashes>>

Steps == {"safety-backup", "prove", "write-blobs", "destroy-schema", "load-dump",
          "loading", "check", "replace-mail-key", "forget", "migrate-forward"}

\* The steps at which nothing has been sent to psql.
BeforeLoad == {"safety-backup", "prove", "write-blobs", "destroy-schema", "load-dump"}

\* The answers: nothing has changed; the restore has happened; the database may be in
\* between; and a failure without a class of its own, which only names the effect.
SaysUnchanged == {"safety_backup_failed", "database_changed", "tool_missing", "load_failed"}
SaysRestored == {"restored", "unexpected_result", "inventory_mismatch", "mail_key_failed",
                 "migration_failed", "unexpected_migrations"}
OtherAnswers == {"half_applied", "restore_failed"}

\* The effect of the plan a step belongs to.
Effect(step) ==
    CASE step \in {"safety-backup", "prove"} -> "safety-backup"
      [] step \in {"load-dump", "loading", "check"} -> "load-dump"
      [] step \in {"replace-mail-key", "forget"} -> "replace-mail-key"
      [] OTHER -> step

\* `unrealised`, where an answer carries it: effects that were dispatched and whose
\* consumer has not completed.  Only destroy-schema has a consumer, load-dump.
Unrealised ==
    IF told \in {"load_failed", "half_applied", "restore_failed"} /\ Effect(stoppedAt) = "load-dump"
    THEN {"destroy-schema"} ELSE {}

\* Type correctness; a restore that runs has no answer, and a load belongs to one that
\* runs or died.
TypeOK ==
    /\ pc \in Steps \cup {"idle", "down"}
    /\ attempt \in Archive
    /\ backup \in Backup
    /\ before \in Install
    /\ db \in Database
    /\ key \in Archive
    /\ cached \in Archive \cup {Unread}
    /\ blobs \subseteq Archive
    /\ archive \in Install
    /\ undos \subseteq Install
    /\ psql \in {"none", "open", "zero", "nonzero"}
    /\ sent \in {"some", "all", "cut"}
    /\ told \in SaysUnchanged \cup SaysRestored \cup OtherAnswers \cup {"none"}
    /\ stoppedAt \in Steps \cup {"none"}
    /\ crashes \in 0..MaxCrashes
    /\ pc \in Steps => told = "none"
    /\ psql # "none" => pc \in {"loading", "down"}

Here == [db |-> db, key |-> key]

Init ==
    /\ pc = "idle"
    /\ attempt = 0
    /\ backup \in Backup
    /\ db = [of |-> 0, whole |-> TRUE, schema |-> "current"]
    /\ key = 0
    /\ before = Here
    /\ archive = Here
    /\ cached = Unread
    /\ blobs = {0}
    /\ undos = {}
    /\ psql = "none"
    /\ sent = "some"
    /\ told = "none"
    /\ stoppedAt = "none"
    /\ crashes = 0

Go(step) == pc' = step /\ UNCHANGED answerVars
Tell(answer) == pc' = "idle" /\ told' = answer /\ stoppedAt' = pc
-----------------------------------------------------------------------------
(* The effects of the plan. *)

Begin ==
    /\ pc = "idle"
    /\ attempt < MaxRestores
    /\ attempt' = attempt + 1
    /\ backup' \in Backup
    /\ before' = Here
    /\ pc' = "safety-backup"
    /\ told' = "none"
    /\ stoppedAt' = "none"
    /\ UNCHANGED <<diskVars, cached, archive, loadVars, crashes>>

\* Without a safety backup on disk the restore does not start.
SafetyBackup ==
    /\ pc = "safety-backup"
    /\ \/ archive' = Here /\ Go("prove")
       \/ UNCHANGED archive /\ \E a \in {"safety_backup_failed", "restore_failed"} : Tell(a)
    /\ UNCHANGED <<planVars, diskVars, cached, loadVars, crashes>>

\* A restore that goes on whatever 7z says of its safety backup.
ProveNothing ==
    /\ pc = "prove"
    /\ undos' \in {undos, undos \cup {archive}}
    /\ Go("write-blobs")
    /\ UNCHANGED <<planVars, db, key, cached, blobs, archive, loadVars, crashes>>

\* It is opened with the passphrase again, or removed; 7z may not start.
ProveArchiveOpens ==
    /\ pc = "prove"
    /\ \/ undos' = undos \cup {archive} /\ Go("write-blobs")
       \/ /\ UNCHANGED undos
          /\ \E a \in {"safety_backup_failed", "tool_missing", "restore_failed"} : Tell(a)
    /\ UNCHANGED <<planVars, db, key, cached, blobs, archive, loadVars, crashes>>

\* Files are left out, and nobody is told.
WriteSomeBlobs ==
    /\ pc = "write-blobs"
    /\ blobs' \in {blobs, blobs \cup {attempt}}
    /\ Go("destroy-schema")
    /\ UNCHANGED <<planVars, db, key, cached, archive, undos, loadVars, crashes>>

\* The order of an earlier design: the key before the database.
WriteBlobsAndKey ==
    /\ pc = "write-blobs"
    /\ blobs' = blobs \cup {attempt}
    /\ key' = attempt
    /\ Go("destroy-schema")
    /\ UNCHANGED <<planVars, db, cached, archive, undos, loadVars, crashes>>

WriteBlobs ==
    /\ pc = "write-blobs"
    /\ \/ blobs' = blobs \cup {attempt} /\ Go("destroy-schema")
       \/ UNCHANGED blobs /\ Tell("restore_failed")
    /\ UNCHANGED <<planVars, db, key, cached, archive, undos, loadVars, crashes>>

\* Only prepares: the database must still have the schemas and tables of the preview.
DestroySchema ==
    /\ pc = "destroy-schema"
    /\ Go("load-dump") \/ Tell("database_changed") \/ Tell("restore_failed")
    /\ UNCHANGED <<planVars, diskVars, cached, archive, loadVars, crashes>>

\* psql is started on the drops and the dump, in one transaction.
LoadDump ==
    /\ pc = "load-dump"
    /\ \/ psql' = "open" /\ sent' = "some" /\ Go("loading")
       \/ UNCHANGED loadVars /\ \E a \in {"tool_missing", "restore_failed"} : Tell(a)
    /\ UNCHANGED <<planVars, diskVars, cached, archive, crashes>>

\* The dump has been sent, or reading it failed and psql sees the end of its input.
EndStream ==
    /\ pc = "loading"
    /\ psql = "open"
    /\ sent = "some"
    /\ sent' \in {"all", "cut"}
    /\ UNCHANGED <<pc, planVars, diskVars, cached, archive, psql, answerVars, crashes>>

\* psql commits at the end of its input, whole or not.  A process that dies ends the input.
PsqlCommits ==
    /\ psql = "open"
    /\ sent # "some" \/ pc = "down"
    /\ db' = [of |-> attempt, whole |-> sent = "all",
              schema |-> IF backup.older \/ ~backup.position THEN "behind" ELSE "current"]
    /\ psql' \in {"zero", "nonzero"}
    /\ UNCHANGED <<pc, planVars, key, cached, blobs, archive, undos, sent, answerVars, crashes>>

\* A statement fails, or psql or its connection dies: the transaction rolls back.
PsqlRollsBack ==
    /\ psql = "open"
    /\ psql' = "nonzero"
    /\ UNCHANGED <<pc, planVars, diskVars, cached, archive, sent, answerVars, crashes>>

\* An exit code taken for the outcome.
DeliveredAnyway == TRUE

\* Every byte the plan published has reached psql.
Delivered == sent = "all"

\* A count of schemas and tables, which a load brings back.
SameCount == TRUE

\* sameShape(): schemas and table identities, which only a committed load changes.
SameShape == db = before.db

\* psql has exited.  A failure is told by measuring the database, if that can be done.
JudgeLoad ==
    /\ pc = "loading"
    /\ psql \in {"zero", "nonzero"}
    /\ psql' = "none"
    /\ \/ psql = "zero" /\ Delivered /\ Go("check")
       \/ ~(psql = "zero" /\ Delivered) /\ SameShape /\ Tell("load_failed")
       \/ ~(psql = "zero" /\ Delivered) /\ Tell("half_applied")
    /\ UNCHANGED <<planVars, diskVars, cached, archive, sent, crashes>>

\* What was committed is compared with the dump's tables and the inventory's rows; measuring
\* it may fail.
CheckResult ==
    /\ pc = "check"
    /\ \/ backup.loads = "tables" /\ Tell("unexpected_result")
       \/ backup.loads = "rows" /\ backup.inventory /\ Tell("inventory_mismatch")
       \/ backup.loads = "rows" /\ ~backup.inventory /\ Go("replace-mail-key")
       \/ backup.loads = "promised" /\ Go("replace-mail-key")
       \/ Tell("restore_failed")
    /\ UNCHANGED <<planVars, diskVars, cached, archive, loadVars, crashes>>

\* The archive's key is renamed over mail.key.
ReplaceMailKey ==
    /\ pc = "replace-mail-key"
    /\ \/ key' = attempt /\ Go("forget")
       \/ UNCHANGED key /\ \E a \in {"mail_key_failed", "restore_failed"} : Tell(a)
    /\ UNCHANGED <<planVars, db, cached, blobs, archive, undos, loadVars, crashes>>

Finish == IF backup.older THEN Go("migrate-forward") ELSE Tell("restored")

\* A process that goes on with the key it has read.
RememberMailKey ==
    /\ pc = "forget"
    /\ Finish
    /\ UNCHANGED <<planVars, diskVars, cached, archive, loadVars, crashes>>

\* The process forgets the key it has read.
ForgetMailKey ==
    /\ pc = "forget"
    /\ cached' = Unread
    /\ Finish
    /\ UNCHANGED <<planVars, diskVars, archive, loadVars, crashes>>

\* The migrations run, in one transaction, and are counted; a count that cannot be read is
\* taken for 0, so it may be out either way.  Closing the connection may fail behind both.
MigrateForward ==
    /\ pc = "migrate-forward"
    /\ \/ /\ db' = [db EXCEPT !.schema = "current"]
          /\ \E a \in {"restored", "unexpected_migrations", "restore_failed"} : Tell(a)
       \/ /\ UNCHANGED db
          /\ \E a \in {"migration_failed", "restore_failed"} : Tell(a)
    /\ UNCHANGED <<planVars, key, cached, blobs, archive, undos, loadVars, crashes>>
-----------------------------------------------------------------------------
(* The rest of the process. *)

\* Anything that encrypts or decrypts a mail credential reads the key, once.
LoadMailKey ==
    /\ pc # "down"
    /\ cached = Unread
    /\ cached' = key
    /\ UNCHANGED <<pc, planVars, diskVars, archive, loadVars, answerVars, crashes>>

Crash ==
    /\ pc # "down"
    /\ crashes < MaxCrashes
    /\ crashes' = crashes + 1
    /\ pc' = "down"
    /\ cached' = Unread
    /\ UNCHANGED <<planVars, diskVars, archive, loadVars, answerVars>>

\* The next process migrates the database before it listens, waiting for the locks of a
\* load that has not ended.  It may fail to, and does not come up then.
Boot ==
    /\ pc = "down"
    /\ psql # "open"
    /\ psql' = "none"
    /\ db' = [db EXCEPT !.schema = "current"]
    /\ pc' = "idle"
    /\ UNCHANGED <<planVars, key, cached, blobs, archive, undos, sent, answerVars, crashes>>
-----------------------------------------------------------------------------
Next ==
    \/ Begin \/ SafetyBackup \/ ProveArchiveOpens \/ WriteBlobs \/ DestroySchema
    \/ LoadDump \/ EndStream \/ PsqlCommits \/ PsqlRollsBack \/ JudgeLoad \/ CheckResult
    \/ ReplaceMailKey \/ ForgetMailKey \/ MigrateForward
    \/ LoadMailKey \/ Crash \/ Boot

Spec == Init /\ [][Next]_vars
-----------------------------------------------------------------------------
(* Properties. *)

Held(d) == <<d.of, d.whole>>
Replaced == Held(db) # Held(before.db)

\* Whatever becomes of a restore, and wherever the process dies, a database that has been
\* replaced is in a safety backup that was opened, with the key to its mail passwords.
UndoIsThere == Replaced => before \in undos

\* No load that failed strands the mail passwords: the key on disk is never that of an
\* archive whose database has not been loaded.
KeyNeverAhead == key <= db.of

\* No row refers to a stored file that is not there yet.
BlobsPrecedeRows == db.of \in blobs

\* The process does not go on with the key of the install that was replaced.
KeyIsNotStale == pc # "forget" => cached \in {Unread, key}

\* The answer says which state the install is in.  restore_failed says it by the effect it
\* names.  An answer that lists destroy-schema as unrealised says that nothing was destroyed;
\* it says so too where the load has committed and measuring the result has failed, or, in
\* half_applied, was cut short.  Nowhere else.
AnswerIsTrue ==
    /\ told \in SaysUnchanged => ~Replaced /\ key = before.key
    /\ told \in SaysRestored => db.of = attempt /\ db.whole
    /\ told \in {"unexpected_result", "inventory_mismatch", "mail_key_failed"} =>
          key = before.key
    /\ told = "restored" =>
          /\ key = attempt
          /\ backup.position => db.schema = "current"
          /\ backup.loads # "tables"
          /\ backup.inventory => backup.loads = "promised"
    /\ told = "restore_failed" =>
          IF stoppedAt \in BeforeLoad THEN ~Replaced /\ key = before.key
          ELSE /\ db.of = attempt /\ db.whole
               /\ key = IF stoppedAt = "migrate-forward" THEN attempt ELSE before.key
    /\ Unrealised # {} => ~Replaced \/ told = "half_applied" \/ stoppedAt = "check"

\* A recovery whose commands drop nothing.
DropNothing(answer) == FALSE

\* recoveryCommands(): the answers that print the commands that go back, and those whose
\* commands drop the schemas in the way.  Without the drops the load fails.
PrintsCommands == {"half_applied", "unexpected_result", "inventory_mismatch",
                   "unexpected_migrations"}
CommandsDrop(answer) == answer # "unexpected_migrations"

Recovered(answer) == IF CommandsDrop(answer) THEN [Here EXCEPT !.db = before.db] ELSE Here

\* The commands put the install back as it was, except where the key or the migrations are
\* already the backup's.
CommandsGoBack ==
    told \in PrintsCommands \ {"unexpected_migrations"} =>
        /\ Replaced => before \in undos
        /\ Recovered(told) = before

\* What an answer says of the database.  Two leave it open: half_applied, and a failure
\* to measure what a load has left.
Class ==
    CASE told = "none" -> "none"
      [] told \in SaysUnchanged -> "unchanged"
      [] told \in SaysRestored -> "replaced"
      [] told = "restore_failed" /\ stoppedAt \in BeforeLoad -> "unchanged"
      [] told = "restore_failed" /\ stoppedAt \in {"replace-mail-key", "migrate-forward"} -> "replaced"
      [] OTHER -> "unknown"

Promise == INSTANCE RestorePromise WITH
    Content <- Archive \X BOOLEAN,
    current <- Held(db),
    before <- Held(before.db),
    kept <- {Held(u.db) : u \in undos},
    answer <- Class

PromiseKept == Promise!Spec
=============================================================================
