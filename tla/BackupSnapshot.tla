---------------------------- MODULE BackupSnapshot ----------------------------
(***************************************************************************)
(* A backup built while documents are issued and files are uploaded        *)
(* (services/backup.ts, routes/backup.ts over DocumentIssue).              *)
(*                                                                         *)
(* buildBackup walks files/, makes a work directory, dumps the database    *)
(* from one snapshot, writes a manifest that lists what the walk saw, and  *)
(* has 7z read files/ again.  The three looks at the system are at three   *)
(* times.  A build of the backup route is counted, so there is one; the    *)
(* build a restore makes first, of the system it replaces, is not, and     *)
(* runs behind the closed write gate, beside a build whose request has     *)
(* hung up.  Every build sweeps the work directories it finds, and so does *)
(* every boot, awaited by nobody: a sweep lists them, and removes what it  *)
(* listed one await later.                                                 *)
(***************************************************************************)
EXTENDS DocumentIssue

CONSTANTS
    RouteBuild,   \* builds asked for with POST /api/backup
    SafetyBuild,  \* builds a restore makes before it replaces anything
    MaxRequests   \* bound on the documents and uploads that come

Build == RouteBuild \cup SafetyBuild

\* For TLC: the builds of the route are alike, and so are the uploads.
Symmetry == Permutations(RouteBuild) \cup Permutations(Upload)

VARIABLES
    backupsInFlight,
    doing,     \* the await each build is at
    walked,    \* the names under files/ when the build walked it
    dumped,    \* the rows of files in the build's database snapshot
    packed,    \* the names 7z has listed or packed
    workDirs,  \* the work directories on the disk
    listed,    \* those the sweep of each build has listed and not removed yet
    bootDue,   \* the boot sweep has not listed them yet
    bootList,  \* those it has listed and not removed yet
    stuck,     \* history: those it failed to remove
    sweptBy    \* history: whose sweeps removed each build's directory while it ran

sweepVars == <<listed, bootDue, bootList, stuck, sweptBy>>
buildVars == <<backupsInFlight, doing, walked, dumped, packed, workDirs, sweepVars>>
vars == <<issueVars, buildVars>>

\* What readdir(files/) returns: the digests and the .upload- files.
Tmp(r) == [tmp |-> r]
Names == stored \cup {Tmp(r) : r \in tmp}

Working == {"snapshot", "dump", "pack", "read", "stream"}   \* after mkdtemp
Building == {"walk", "stat", "work", "sweep"} \cup Working

\* Who sweeps: a build of either kind, or the boot.
Kind(b) == IF b \in RouteBuild THEN "route" ELSE "safety"
Kinds == {"route", "safety", "boot"}

TypeOKBuild ==
    /\ TypeOK
    /\ backupsInFlight \in Nat
    /\ doing \in [Build -> {"idle", "served", "failed", "lost"} \cup Building]
    /\ walked \in [Build -> SUBSET (Document \cup Content \cup {Tmp(r) : r \in Request})]
    /\ packed \in [Build -> SUBSET (Document \cup Content \cup {Tmp(r) : r \in Request})]
    /\ dumped \in [Build -> SUBSET (Document \cup Content)]
    /\ workDirs \subseteq Build
    /\ listed \in [Build -> SUBSET Build]
    /\ bootDue \in BOOLEAN /\ bootList \subseteq Build /\ stuck \subseteq Build
    /\ sweptBy \in [Build -> SUBSET Kinds]

Init ==
    /\ IssueInit
    /\ backupsInFlight = 0
    /\ doing = [b \in Build |-> "idle"]
    /\ walked = [b \in Build |-> {}]
    /\ dumped = [b \in Build |-> {}]
    /\ packed = [b \in Build |-> {}]
    /\ workDirs = {}
    /\ listed = [b \in Build |-> {}]
    /\ bootDue = FALSE
    /\ bootList = {}
    /\ stuck = {}
    /\ sweptBy = [b \in Build |-> {}]
-----------------------------------------------------------------------------
\* The gate is closed for a restore: no new write is admitted.
GateIsClosed == \E s \in SafetyBuild : doing[s] \in Building

\* A document is asked for, or an upload.
Comes(r) == Ask(r) /\ ~GateIsClosed /\ Cardinality({q \in Request : at[q] # "idle"}) < MaxRequests

Await(b, await) == doing' = [doing EXCEPT ![b] = await]

\* The counter of the route goes back when a build of its fails or its stream
\* closes.
Discount(b) ==
    backupsInFlight' = IF b \in RouteBuild THEN backupsInFlight - 1 ELSE backupsInFlight

\* A build that throws: dispose removes its work directory, the route answers,
\* and what the build knew goes with it.
Fail(b) ==
    /\ Await(b, "failed")
    /\ Discount(b)
    /\ workDirs' = workDirs \ {b}
    /\ conns' = conns \ {b}
    /\ walked' = [walked EXCEPT ![b] = {}]
    /\ dumped' = [dumped EXCEPT ![b] = {}]
    /\ packed' = [packed EXCEPT ![b] = {}]
    /\ UNCHANGED sweepVars

\* sweepAbandonedBackups, when it removes what it has listed: an rm that fails is passed over.
SweptAway(gone, kind) ==
    sweptBy' = [b \in Build |-> IF b \in gone \cap workDirs /\ doing[b] \in Working
                               THEN sweptBy[b] \cup {kind} ELSE sweptBy[b]]

\* POST /api/backup, refused while another is counted; or a restore begins.
AskBackup(b) ==
    /\ doing[b] = "idle" /\ ~GateIsClosed
    /\ IF b \in RouteBuild /\ backupsInFlight >= 1
       THEN Await(b, "failed") /\ UNCHANGED backupsInFlight
       ELSE /\ Await(b, "walk")
            /\ backupsInFlight' = backupsInFlight + IF b \in RouteBuild THEN 1 ELSE 0
    /\ UNCHANGED <<issueVars, walked, dumped, packed, workDirs, sweepVars>>

\* collectBlobs: readdir; no tool, no mail key or a bad passphrase fails first.
Walk(b) ==
    /\ doing[b] = "walk"
    /\ \/ /\ walked' = [walked EXCEPT ![b] = Names]
          /\ Await(b, "stat")
          /\ UNCHANGED <<backupsInFlight, conns, dumped, packed, workDirs, sweepVars>>
       \/ Fail(b)
    /\ UNCHANGED <<at, databaseVars, renderVars, storeVars, inputVars>>

\* collectBlobs: every name is stat'ed; one that is gone again rejects.
Stat(b) ==
    /\ doing[b] = "stat"
    /\ IF walked[b] \subseteq Names
       THEN /\ Await(b, "work")
            /\ UNCHANGED <<backupsInFlight, conns, walked, dumped, packed, workDirs, sweepVars>>
       ELSE Fail(b)
    /\ UNCHANGED <<at, databaseVars, renderVars, storeVars, inputVars>>

\* The free space suffices; sweepAbandonedBackups lists the work directories.
ListWork(b) ==
    /\ doing[b] = "work"
    /\ \/ /\ listed' = [listed EXCEPT ![b] = workDirs]
          /\ Await(b, "sweep")
          /\ UNCHANGED <<backupsInFlight, conns, walked, dumped, packed, workDirs>>
          /\ UNCHANGED <<bootDue, bootList, stuck, sweptBy>>
       \/ Fail(b)
    /\ UNCHANGED <<at, databaseVars, renderVars, storeVars, inputVars>>

\* It removes them, and mkdtemp makes the build's own.
MakeWork(b) ==
    /\ doing[b] = "sweep"
    /\ \E gone \in SUBSET listed[b] :
          /\ workDirs' = (workDirs \ gone) \cup {b}
          /\ SweptAway(gone, Kind(b))
    /\ listed' = [listed EXCEPT ![b] = {}]
    /\ Await(b, "snapshot")
    /\ UNCHANGED <<issueVars, backupsInFlight, walked, dumped, packed, bootDue, bootList, stuck>>

\* dumpWithInventory: a repeatable read transaction, its snapshot exported.
Snapshot(b) ==
    /\ doing[b] = "snapshot" /\ Cardinality(conns) < PoolMax
    /\ conns' = conns \cup {b}
    /\ dumped' = [dumped EXCEPT ![b] = rows]
    /\ Await(b, "dump")
    /\ UNCHANGED <<at, databaseVars, renderVars, storeVars, inputVars>>
    /\ UNCHANGED <<backupsInFlight, walked, packed, workDirs, sweepVars>>

\* pg_dump has ended and the manifest is written, unless it failed or the work
\* directory is gone.
Dump(b) ==
    /\ doing[b] = "dump"
    /\ \/ /\ b \in workDirs
          /\ conns' = conns \ {b}
          /\ Await(b, "pack")
          /\ UNCHANGED <<backupsInFlight, walked, dumped, packed, workDirs, sweepVars>>
       \/ Fail(b)
    /\ UNCHANGED <<at, databaseVars, renderVars, storeVars, inputVars>>

\* Each file the walk saw named by itself, in place of the directory.
PackTheWalk(b) ==
    /\ doing[b] = "pack"
    /\ packed' = [packed EXCEPT ![b] = walked[b]]
    /\ Await(b, "read")
    /\ UNCHANGED <<issueVars, backupsInFlight, walked, dumped, workDirs, sweepVars>>

\* runSevenZip: 7z lists files/, which is among its inputs if the walk saw any.
Pack(b) ==
    /\ doing[b] = "pack"
    /\ packed' = [packed EXCEPT ![b] = IF walked[b] = {} THEN {} ELSE Names]
    /\ Await(b, "read")
    /\ UNCHANGED <<issueVars, backupsInFlight, walked, dumped, workDirs, sweepVars>>

\* The slot is given back when the reply is sent, not when its stream closes.
ReadUncounted(b) ==
    /\ doing[b] = "read"
    /\ \/ /\ b \in workDirs /\ packed[b] \subseteq Names
          /\ Await(b, "stream")
          /\ Discount(b)
          /\ UNCHANGED <<conns, walked, dumped, packed, workDirs, sweepVars>>
       \/ Fail(b)
    /\ UNCHANGED <<at, databaseVars, renderVars, storeVars, inputVars>>

\* 7z reads what it listed: a name that is gone, an input that is gone or any
\* other failure is an exit code, and the build fails.
Read(b) ==
    /\ doing[b] = "read"
    /\ \/ /\ b \in workDirs /\ packed[b] \subseteq Names
          /\ Await(b, "stream")
          /\ UNCHANGED <<backupsInFlight, conns, walked, dumped, packed, workDirs, sweepVars>>
       \/ Fail(b)
    /\ UNCHANGED <<at, databaseVars, renderVars, storeVars, inputVars>>

\* The archive has been sent, or the client has hung up: the stream closes.
Close(b) ==
    /\ doing[b] = "stream"
    /\ Await(b, "served")
    /\ Discount(b)
    /\ workDirs' = workDirs \ {b}
    /\ UNCHANGED <<issueVars, walked, dumped, packed, sweepVars>>

\* registerBackupRoutes' sweep, started at the boot and awaited by nobody: it may list late.
BootList ==
    /\ bootDue
    /\ bootDue' = FALSE
    /\ bootList' = workDirs
    /\ UNCHANGED <<issueVars, backupsInFlight, doing, walked, dumped, packed, workDirs>>
    /\ UNCHANGED <<listed, stuck, sweptBy>>

BootSweep ==
    /\ bootList # {}
    /\ \E gone \in SUBSET bootList :
          /\ workDirs' = workDirs \ gone
          /\ stuck' = bootList \ gone
          /\ SweptAway(gone, "boot")
    /\ bootList' = {}
    /\ UNCHANGED <<issueVars, backupsInFlight, doing, walked, dumped, packed, listed, bootDue>>

CrashAll ==
    /\ Crash
    /\ backupsInFlight' = 0
    /\ doing' = [b \in Build |-> IF doing[b] \in Building THEN "lost" ELSE doing[b]]
    /\ walked' = [b \in Build |-> IF doing[b] \in Building THEN {} ELSE walked[b]]
    /\ dumped' = [b \in Build |-> IF doing[b] \in Building THEN {} ELSE dumped[b]]
    /\ packed' = [b \in Build |-> IF doing[b] \in Building THEN {} ELSE packed[b]]
    /\ listed' = [b \in Build |-> {}]
    /\ bootDue' = TRUE
    /\ bootList' = {}
    /\ stuck' = {}
    /\ UNCHANGED <<workDirs, sweptBy>>

Next ==
    \/ \E r \in Request : (Comes(r) \/ Serve(r)) /\ UNCHANGED buildVars
    \/ \E b \in Build :
          \/ AskBackup(b) \/ Walk(b) \/ Stat(b) \/ ListWork(b) \/ MakeWork(b)
          \/ Snapshot(b) \/ Dump(b) \/ Pack(b) \/ Read(b) \/ Close(b)
    \/ BootList \/ BootSweep
    \/ CrashAll

Spec == Init /\ [][Next]_vars
-----------------------------------------------------------------------------
\* A build that produced an archive.
Made(b) == doing[b] \in {"stream", "served"}

\* The rows of the dump have their bytes in the archive, although the dump and
\* the blobs are read at different times: blobs are stored before their rows,
\* never removed, and 7z lists files/ after the snapshot.  The exception is a
\* store that was empty at the walk: then 7z is not given files/ at all.
BackupIsWhole == \A b \in Build : Made(b) /\ walked[b] # {} => dumped[b] \subseteq packed[b]

\* A work directory, with the clear-text dump in it, is on the disk for a build that runs, or
\* for one that died with its process, until the boot sweep has been, which may fail to remove
\* it.  A build that runs has its own unless a sweep has taken it, and a sweep that takes it is
\* the boot's, or one of the other kind: two builds of the route never meet, nor two restores,
\* but a restore's build and one of the route do (backup.ts 783 knows of the route's alone).
WorkDirsFollowBuilds ==
    /\ \A b \in workDirs :
          \/ doing[b] \in Working
          \/ doing[b] = "lost" /\ (bootDue \/ b \in bootList \cup stuck)
    /\ \A b \in Build :
          /\ doing[b] \in Working => b \in workDirs \/ sweptBy[b] # {}
          /\ Kind(b) \notin sweptBy[b]

\* backup.ts says that what 7z finds more than the walk is harmless and that
\* what it finds less fails the build; so every member the manifest lists is in
\* the archive, which a restore insists on.
BackupCanBeRestored == \A b \in Build : Made(b) => walked[b] \subseteq packed[b]
=============================================================================
