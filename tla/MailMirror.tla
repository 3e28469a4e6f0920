----------------------------- MODULE MailMirror -----------------------------
(***************************************************************************)
(* The mirror one AccountSync keeps of one mailbox: the passes over the    *)
(* folders, the ingest of what they list, the moves and the mark-as-read   *)
(* that users ask for, and the queue they go through between passes        *)
(* (services/mail-sync.ts, mail-move.ts, mail-ingest.ts, mail-threads.ts). *)
(*                                                                         *)
(* A step is what the code does between two awaits that others can come    *)
(* between.  The mail server and the user's other mail clients change the  *)
(* mailbox whenever they like.                                             *)
(*                                                                         *)
(* All messages are young enough for the backfill and the flag window, a   *)
(* message is in one folder at a time, and a move is one chunk per source  *)
(* folder.                                                                 *)
(***************************************************************************)
EXTENDS Naturals, Sequences, FiniteSets

CONSTANTS
    Message,      \* messages, by Message-ID
    Inbox,        \* the folder that is always walked
    Other,        \* the account's other folders
    Walked,       \* those of them that are switched on at first
    Req,          \* numbers of the calls of moveThreads or moveMessages under way: a new
                  \* call has the least that is free
    None,
    BatchSize,
    MaxRequests,  \* bound on moves and mark-as-reads
    MaxTrouble    \* bound on changes by the server, other clients and the folder settings,
                  \* and on failures (but of a revert), stops and crashes, taken together

Folder == Other \cup {Inbox}
Uid == Nat

ASSUME MailAssumption ==
    /\ Message # {} /\ IsFiniteSet(Message)
    /\ Inbox \notin Other
    /\ Walked \subseteq Other
    /\ Req \subseteq Nat /\ None \notin Req \cup Folder
    /\ None \notin [folder : Folder, uid : Uid]
    /\ None \notin [folder : Folder, uid : Uid, seen : BOOLEAN]
    /\ None \notin [validity : Nat, last : Uid]
    /\ BatchSize \in Nat \ {0}
    /\ {MaxRequests, MaxTrouble} \subseteq Nat

VARIABLES
    place,     \* the server: the folder and UID of each message, or None
    flag,      \* the server: the messages that are \Seen
    next,      \* the server: the next UID of each folder
    validity,  \* the server: the UIDVALIDITY of each folder
    row,       \* mail_messages: folder, uid (0 for NULL) and seen, or None
    synced,    \* mail_account_folders: the folders with sync_enabled
    cursor,    \* mail_folder_state: uidvalidity and last_seen_uid, or None
    at,        \* where the loop is
    told,      \* this.stopped
    due,       \* this.passDue
    failing,   \* this.attempt > 0
    pass,      \* the pass under way
    queue,     \* this.queue
    req,       \* the moves under way
    poisoned,  \* history: messages skipped because their ingest failed twice
    adrift,    \* history: messages in one of the residual states, see below
    settled,   \* history: a whole pass has run since anything else happened, or
               \* "fresh" while such a pass is running, or "no"
    requests,  \* moves and mark-as-reads asked for so far
    trouble    \* changes from outside and faults so far

serverVars == <<place, flag, next, validity>>
loopVars == <<at, told, due, failing, pass>>
bounds == <<requests, trouble>>
history == <<poisoned, adrift, settled>>
vars == <<serverVars, row, synced, cursor, loopVars, queue, req, history, bounds>>

NoPass == [todo |-> {}, folder |-> None, validity |-> 0, last |-> 0, batch |-> {},
           marked |-> {}, high |-> 0, walk |-> {}, full |-> FALSE]
NoReq == [step |-> "free", target |-> None, left |-> {}, group |-> {}, stopped |-> FALSE]

\* Type correctness; two messages never have one UID of one folder on the server.
TypeOK ==
    /\ \A m \in Message :
          /\ place[m] = None \/ place[m] \in [folder : Folder, uid : Uid \ {0}]
          /\ row[m] = None \/ row[m] \in [folder : Folder, uid : Uid, seen : BOOLEAN]
    /\ \A m, n \in Message : place[m] = place[n] /\ place[m] # None => m = n
    /\ flag \subseteq Message
    /\ next \in [Folder -> Uid \ {0}]
    /\ validity \in [Folder -> 1..(MaxTrouble + 1)]
    /\ synced \subseteq Other
    /\ \A f \in Folder :
          cursor[f] = None \/ cursor[f] \in [validity : 1..(MaxTrouble + 1), last : Uid]
    /\ at \in {"drain", "wait", "gone", "folder", "fetch", "ingest", "save", "flags",
               "reconcile", "record"}
    /\ {told, due, failing} \subseteq BOOLEAN
    /\ pass.todo \subseteq Folder /\ pass.folder \in Folder \cup {None}
    /\ pass.batch \cup pass.marked \cup pass.walk \subseteq Uid
    /\ \A i \in DOMAIN queue : queue[i].req \in Req \cup {None}
    /\ \A r \in Req : req[r].step \in {"free", "collected", "moved", "waiting", "refused"}
    /\ poisoned \cup adrift \subseteq Message
    /\ settled \in {"no", "fresh", "yes"}
    /\ requests \in 0..MaxRequests
    /\ trouble \in 0..MaxTrouble

\* One message is recorded; another may lie in the mailbox and not be.
Init ==
    /\ LET first == CHOOSE m \in Message : TRUE IN
          /\ \E second \in Message :
                place = [m \in Message |-> IF m = first THEN [folder |-> Inbox, uid |-> 1]
                                        ELSE IF m = second THEN [folder |-> Inbox, uid |-> 2]
                                        ELSE None]
          /\ row = [m \in Message |->
                       IF m = first THEN [folder |-> Inbox, uid |-> 1, seen |-> FALSE] ELSE None]
    /\ flag = {}
    /\ next = [f \in Folder |-> IF f = Inbox THEN 3 ELSE 1]
    /\ validity = [f \in Folder |-> 1]
    /\ synced = Walked
    /\ cursor = [f \in Folder |-> IF f = Inbox THEN [validity |-> 1, last |-> 1] ELSE None]
    /\ at = "drain" /\ told = FALSE /\ due = TRUE /\ failing = FALSE
    /\ pass = NoPass
    /\ queue = <<>>
    /\ req = [r \in Req |-> NoReq]
    /\ poisoned = {} /\ adrift = {} /\ settled = "no"
    /\ requests = 0 /\ trouble = 0

\* The messages with UID u of us in folder f of the server.
AtUids(f, us) == {m \in Message : place[m] # None /\ place[m].folder = f /\ place[m].uid \in us}

UidsOf(f) == {place[m].uid : m \in {n \in Message : place[n] # None /\ place[n].folder = f}}

Ids(candidates) == {c.id : c \in candidates}

\* The messages a move that has not returned still has to account for.
Held == UNION {Ids(req[r].left) : r \in Req}
-----------------------------------------------------------------------------
\* The mailbox, as its server and the user's other clients change it.

Trouble ==
    /\ trouble < MaxTrouble
    /\ trouble' = trouble + 1

Event ==
    /\ Trouble
    /\ settled' = "no"
    /\ UNCHANGED <<cursor, loopVars, queue, req, poisoned, requests>>

\* The server puts the messages of ms at the end of folder f, in their old order.
PutAt(ms, f) ==
    /\ place' = [m \in Message |->
                    IF m \notin ms THEN place[m]
                    ELSE [folder |-> f,
                          uid |-> next[f] + Cardinality({n \in ms \ {m} :
                                                          place[n].uid < place[m].uid})]]
    /\ next' = [next EXCEPT ![f] = @ + Cardinality(ms)]

Arrive(m) ==
    /\ place[m] = None /\ row[m] = None
    /\ Event
    /\ PutAt({m}, Inbox)
    /\ UNCHANGED <<flag, validity, row, synced, adrift>>

OtherClientMoves(m, f) ==
    /\ place[m] # None /\ place[m].folder # f
    /\ Event
    /\ PutAt({m}, f)
    /\ adrift' = adrift \cup {m}
    /\ UNCHANGED <<flag, validity, row, synced>>

OtherClientFlags(m) ==
    /\ place[m] # None
    /\ Event
    /\ flag' = IF m \in flag THEN flag \ {m} ELSE flag \cup {m}
    /\ UNCHANGED <<place, next, validity, row, synced, adrift>>

\* The folder is made anew: new UIDVALIDITY, new UIDs in any order.
Renumber(f) ==
    LET ms == AtUids(f, UidsOf(f)) IN
    /\ Event
    /\ validity' = [validity EXCEPT ![f] = @ + 1]
    /\ \E new \in [ms -> 1..Cardinality(ms)] :
          /\ \A m, n \in ms : new[m] = new[n] => m = n
          /\ place' = [m \in Message |->
                          IF m \in ms THEN [folder |-> f, uid |-> new[m]] ELSE place[m]]
    /\ next' = [next EXCEPT ![f] = Cardinality(ms) + 1]
    /\ adrift' = adrift \cup Held
    /\ UNCHANGED <<flag, row, synced>>

\* PATCH .../folders: INBOX is locked.  A message that was not sighted in the folder before
\* it was switched off is not found there.
SetFolderSyncEnabled(f) ==
    /\ Event
    /\ synced' = IF f \in synced THEN synced \ {f} ELSE synced \cup {f}
    /\ adrift' = IF f \in synced
                 THEN adrift \cup {m \in AtUids(f, UidsOf(f)) :
                                      row[m] = None \/ row[m].folder # f \/ m \in Held}
                 ELSE adrift
    /\ UNCHANGED <<serverVars, row>>
-----------------------------------------------------------------------------
\* The loop, between passes.

\* The group of request r is dealt with; with the last one the call returns.
DoneWithGroup(r) ==
    IF req[r].left = req[r].group THEN NoReq
    ELSE [req[r] EXCEPT !.step = "moved", !.left = @ \ req[r].group, !.group = {}]

\* The request r, if any, hears of its group; a mark-as-read has nobody to tell.
Answer(r, step) ==
    req' = IF r = None THEN req
           ELSE [req EXCEPT ![r] = IF step = "refused" THEN [@ EXCEPT !.step = step]
                                   ELSE DoneWithGroup(r)]

\* A move of a group: all of it, whatever is at these UIDs now.
ServerMoves(task) ==
    LET ms == AtUids(task.folder, task.uids) IN
    /\ PutAt(ms, task.target)
    /\ UNCHANGED <<flag, validity>>

ServerFlags(task) ==
    /\ flag' = flag \cup AtUids(task.folder, task.uids)
    /\ UNCHANGED <<place, next, validity>>

ServerDoes(task) ==
    IF task.target # None THEN ServerMoves(task) ELSE ServerFlags(task)

\* Messages that this move leaves where no row says and nothing has to look.
Misplaced(task) ==
    IF task.target = None THEN {}
    ELSE AtUids(task.folder, task.uids) \ Ids(req[task.req].group)

\* Messages of the group that this move does not find, and no pass will: the UIDs of a
\* folder that is not walked have changed since their rows had them.
NotFound(task) ==
    IF task.target = None THEN {}
    ELSE {m \in Ids(req[task.req].group) \ AtUids(task.folder, task.uids) :
            place[m] # None /\ place[m].folder \notin synced \cup {Inbox}}

Shift ==
    /\ at = "drain" /\ ~told /\ queue # <<>>
    /\ queue' = Tail(queue)
    /\ settled' = "no"
    /\ UNCHANGED <<row, synced, cursor, loopVars, poisoned, requests>>

RunTask ==
    LET task == Head(queue) IN
    /\ Shift
    /\ ServerDoes(task)
    /\ Answer(task.req, "done")
    /\ adrift' = adrift \cup Misplaced(task) \cup NotFound(task)
    /\ UNCHANGED trouble

\* The server refuses, or the connection is gone before it has heard.
TaskRefused ==
    /\ Shift /\ Trouble
    /\ Answer(Head(queue).req, "refused")
    /\ UNCHANGED <<serverVars, adrift>>

\* The connection is lost after the server has done it.  A message that is now in a
\* folder nobody walks is not found again.
TaskAnswerLost ==
    LET task == Head(queue) IN
    /\ Shift /\ Trouble
    /\ ServerDoes(task)
    /\ Answer(task.req, "refused")
    /\ adrift' = adrift \cup Misplaced(task)
                 \cup (IF task.target \in synced \cup {None, Inbox} THEN {}
                       ELSE Ids(req[task.req].group))

\* A pass that ends early is no whole pass.
Unfinished == IF settled = "fresh" THEN "no" ELSE settled

\* A teardown that forgets the queue.
DropQueue ==
    /\ queue' = <<>>
    /\ req' = [r \in Req |-> IF req[r].step = "free" THEN NoReq
                             ELSE [req[r] EXCEPT !.stopped = TRUE]]

\* Tells the callers of the queued tasks; the moves among them put their rows back.
RejectQueue ==
    LET told1 == {queue[i].req : i \in DOMAIN queue} IN
    /\ queue' = <<>>
    /\ req' = [r \in Req |->
                  IF req[r].step = "free" THEN NoReq
                  ELSE [req[r] EXCEPT !.stopped = TRUE,
                                      !.step = IF r \in told1 THEN "refused" ELSE @]]

Stop ==
    /\ at # "gone" /\ ~told
    /\ Trouble
    /\ told' = TRUE
    /\ UNCHANGED <<serverVars, row, synced, cursor, at, due, failing, pass, queue, req, history,
                   requests>>

Teardown ==
    /\ told /\ at \notin {"gone", "save", "reconcile"}
    /\ at' = "gone"
    /\ pass' = NoPass
    /\ RejectQueue
    /\ settled' = Unfinished
    /\ UNCHANGED <<serverVars, row, synced, cursor, told, due, failing, poisoned, adrift, bounds>>

\* ensureSync makes a new AccountSync.
Restart ==
    /\ at = "gone"
    /\ at' = "drain" /\ told' = FALSE /\ due' = TRUE /\ failing' = FALSE
    /\ UNCHANGED <<serverVars, row, synced, cursor, pass, queue, req, history, bounds>>

\* The process dies: rows moved for a request that had not returned stay moved.
Crash ==
    /\ at # "gone"
    /\ Trouble
    /\ at' = "gone" /\ told' = TRUE /\ pass' = NoPass
    /\ queue' = <<>>
    /\ req' = [r \in Req |-> NoReq]
    /\ adrift' = adrift \cup UNION {Ids(req[r].left) : r \in {q \in Req : req[q].step # "collected"}}
    /\ settled' = "no"
    /\ UNCHANGED <<serverVars, row, synced, cursor, due, failing, poisoned, requests>>

\* A wait that makes no pass due when it runs out.
WakeForQueue ==
    /\ at = "wait" /\ ~told
    /\ at' = "drain"
    /\ UNCHANGED <<due, told, failing, pass, serverVars, row, synced, cursor, queue, req, history,
                   bounds>>

\* waitForWork: the poll or the backoff has run out, IDLE reports mail, or Sync now.
Wake ==
    /\ at = "wait" /\ ~told
    /\ due' \in {due \/ queue = <<>>, TRUE}
    /\ at' = "drain"
    /\ UNCHANGED <<told, failing, pass, serverVars, row, synced, cursor, queue, req, history, bounds>>
-----------------------------------------------------------------------------
\* One pass.

\* drainQueue has emptied the queue: discover and walk the folders, or wait.
BeginPass ==
    /\ at = "drain" /\ ~told /\ queue = <<>>
    /\ IF due
       THEN /\ at' = "folder"
            /\ pass' = [NoPass EXCEPT !.todo = {Inbox} \cup synced]
            /\ settled' = IF settled = "yes" THEN "yes" ELSE "fresh"
       ELSE /\ at' = "wait"
            /\ UNCHANGED <<pass, settled>>
    /\ due' = FALSE
    /\ UNCHANGED <<serverVars, row, synced, cursor, told, failing, queue, req, poisoned, adrift,
                   bounds>>

\* A change of UIDVALIDITY that is recorded and not acted upon.
OpenFolderAnyway(f) ==
    /\ at = "folder" /\ ~told
    /\ f \in pass.todo /\ (Inbox \in pass.todo => f = Inbox)
    /\ pass' = [NoPass EXCEPT !.todo = pass.todo \ {f}, !.folder = f, !.validity = validity[f],
                              !.last = IF cursor[f] = None THEN 0 ELSE cursor[f].last]
    /\ cursor' = [cursor EXCEPT ![f] = [validity |-> validity[f],
                                        last |-> IF @ = None THEN 0 ELSE @.last]]
    /\ at' = "fetch"
    /\ UNCHANGED <<serverVars, row, synced, told, due, failing, queue, req, history, bounds>>

\* STATUS and loadCursor: after a change of UIDVALIDITY no row of the folder keeps a
\* UID, and the walk starts over.
OpenFolder(f) ==
    LET renumbered == cursor[f] # None /\ cursor[f].validity # validity[f]
        known == cursor[f] # None /\ ~renumbered
    IN /\ at = "folder" /\ ~told
       /\ f \in pass.todo /\ (Inbox \in pass.todo => f = Inbox)
       /\ row' = [m \in Message |->
                     IF renumbered /\ row[m] # None /\ row[m].folder = f
                     THEN [row[m] EXCEPT !.uid = 0] ELSE row[m]]
       /\ cursor' = IF known THEN cursor
                    ELSE [cursor EXCEPT ![f] = [validity |-> validity[f], last |-> 0]]
       /\ pass' = [NoPass EXCEPT !.todo = pass.todo \ {f}, !.folder = f, !.validity = validity[f],
                                 !.last = IF known THEN cursor[f].last ELSE 0]
       /\ at' = "fetch"
       /\ UNCHANGED <<serverVars, synced, told, due, failing, queue, req, history, bounds>>

\* The least UIDs of us, as many as a batch holds.
FirstOf(us) == {u \in us : Cardinality({v \in us : v < u}) < BatchSize}

Seen(f, us) == {u \in us : \E m \in flag : place[m] = [folder |-> f, uid |-> u]}

\* What the walk already knows of, or else a new SEARCH.
FetchNewer ==
    LET pending == IF pass.walk # {} THEN pass.walk
                   ELSE {u \in UidsOf(pass.folder) : u > pass.last}
        batch == FirstOf(pending)
    IN /\ at = "fetch" /\ ~told
       /\ pass' = [pass EXCEPT !.batch = batch, !.marked = Seen(pass.folder, batch),
                               !.high = pass.last, !.walk = pending \ batch,
                               !.full = Cardinality(batch) = BatchSize]
       /\ at' = IF batch = {} THEN "flags" ELSE "ingest"
       /\ UNCHANGED <<serverVars, row, synced, cursor, told, due, failing, queue, req, history,
                      bounds>>

\* Takes the next descriptor off the batch.
NextDescriptor(u) ==
    /\ at = "ingest" /\ ~told
    /\ \A v \in pass.batch : u <= v
    /\ pass' = [pass EXCEPT !.batch = @ \ {u}, !.high = u]
    /\ at' = IF pass.batch = {u} THEN "save" ELSE "ingest"
    /\ UNCHANGED <<serverVars, synced, cursor, told, due, failing, queue, req, requests>>

\* An ingest that leaves a known message where it was.
IngestOnlyNew(m, u) ==
    row' = IF row[m] # None THEN row
           ELSE [row EXCEPT ![m] = [folder |-> pass.folder, uid |-> u, seen |-> u \in pass.marked]]

\* ingestParsedMessage: a new row, or the folder, UID and flag of this sighting.
Ingest(m, u) ==
    row' = [row EXCEPT ![m] = [folder |-> pass.folder, uid |-> u, seen |-> u \in pass.marked]]

IngestOne(u) ==
    /\ NextDescriptor(u)
    /\ \E m \in AtUids(pass.folder, {u}) :
          /\ Ingest(m, u)
          /\ poisoned' = poisoned \ {m}
          /\ adrift' = IF m \in Held THEN adrift \cup {m} ELSE adrift \ {m}
    /\ UNCHANGED <<settled, trouble>>

\* fetchRaw finds it gone.
MessageVanished(u) ==
    /\ NextDescriptor(u)
    /\ AtUids(pass.folder, {u}) = {}
    /\ UNCHANGED <<row, history, trouble>>

\* Its ingest has failed a second time: the UID is skipped.
SkipPoison(u) ==
    /\ NextDescriptor(u)
    /\ AtUids(pass.folder, {u}) # {}
    /\ Trouble
    /\ poisoned' = poisoned \cup AtUids(pass.folder, {u})
    /\ UNCHANGED <<row, adrift, settled>>

SaveCursor ==
    /\ at = "save"
    /\ cursor' = [cursor EXCEPT ![pass.folder] = [validity |-> pass.validity, last |-> pass.high]]
    /\ pass' = [pass EXCEPT !.last = pass.high, !.marked = {}]
    /\ at' = IF pass.full THEN "fetch" ELSE "flags"
    /\ UNCHANGED <<serverVars, row, synced, told, due, failing, queue, req, history, bounds>>

FetchFlags ==
    /\ at = "flags" /\ ~told
    /\ pass' = [pass EXCEPT !.batch = UidsOf(pass.folder),
                            !.marked = Seen(pass.folder, UidsOf(pass.folder))]
    /\ at' = "reconcile"
    /\ UNCHANGED <<serverVars, row, synced, cursor, told, due, failing, queue, req, history, bounds>>

\* By folder and UID, from the flags as they were when they were fetched.
ReconcileFlags ==
    /\ at = "reconcile"
    /\ row' = [m \in Message |->
                  IF row[m] # None /\ row[m].folder = pass.folder /\ row[m].uid \in pass.batch
                  THEN [row[m] EXCEPT !.seen = row[m].uid \in pass.marked] ELSE row[m]]
    /\ pass' = [NoPass EXCEPT !.todo = pass.todo]
    /\ at' = "folder"
    /\ UNCHANGED <<serverVars, synced, cursor, told, due, failing, queue, req, history, bounds>>

EndPass ==
    /\ at = "folder" /\ pass.todo = {} /\ ~told
    /\ failing' = FALSE
    /\ at' = "wait"
    /\ pass' = NoPass
    /\ settled' = IF settled = "fresh" THEN "yes" ELSE settled
    /\ UNCHANGED <<serverVars, row, synced, cursor, told, due, queue, req, poisoned, adrift, bounds>>

PassFails ==
    /\ at \notin {"drain", "wait", "gone"}
    /\ Trouble
    /\ failing' = TRUE
    /\ at' = "wait"
    /\ pass' = NoPass
    /\ settled' = Unfinished
    /\ UNCHANGED <<serverVars, row, synced, cursor, told, due, queue, req, poisoned, adrift,
                   requests>>
-----------------------------------------------------------------------------
\* The requests.

Unavailable(r) == req[r].stopped \/ told \/ failing

\* What collectCandidates finds movable to folder t.
Movable(t) == {m \in Message : row[m] # None /\ row[m].folder # t /\ row[m].uid # 0}

Collect(r, t, ms) ==
    /\ req[r].step = "free" /\ \A q \in Req : q < r => req[q].step # "free"
    /\ requests < MaxRequests /\ at # "gone"
    /\ ms # {} /\ ms \subseteq Movable(t)
    /\ req' = [req EXCEPT ![r] =
                  [NoReq EXCEPT !.step = "collected", !.target = t,
                                !.left = {[id |-> m, folder |-> row[m].folder, uid |-> row[m].uid] :
                                            m \in ms}]]
    /\ requests' = requests + 1
    /\ UNCHANGED <<serverVars, row, synced, cursor, loopVars, queue, history, trouble>>

\* Filing into a folder switches its sync on, in a statement before the rows move.  What falls
\* between the two is SetFolderSyncEnabled followed by a move that files nothing.
EnableTargetSync(t, filing) == synced' = IF filing /\ t # Inbox THEN synced \cup {t} ELSE synced

\* The rows move by their ids, whatever has become of them since they were read.
ApplyOptimisticMove(r, filing) ==
    LET stale == {c \in req[r].left : row[c.id].folder # c.folder \/ row[c.id].uid # c.uid} IN
    /\ req[r].step = "collected"
    /\ req[r].target = Inbox => filing
    /\ EnableTargetSync(req[r].target, filing)
    /\ row' = [m \in Message |->
                  IF m \in Ids(req[r].left)
                  THEN [row[m] EXCEPT !.folder = req[r].target, !.uid = 0] ELSE row[m]]
    /\ req' = [req EXCEPT ![r].step = "moved"]
    /\ adrift' = adrift \cup Ids(stale)
    /\ settled' = "no"
    /\ UNCHANGED <<serverVars, cursor, loopVars, queue, poisoned, bounds>>

\* All candidates in one group.
GroupForTarget(r, f) == IF \E c \in req[r].left : c.folder = f THEN req[r].left ELSE {}

\* The candidates that were in folder f.
GroupForQueue(r, f) == {c \in req[r].left : c.folder = f}

\* One group at a time, each waited for.
QueueMove(r, f) ==
    LET group == GroupForQueue(r, f) IN
    /\ req[r].step = "moved" /\ group # {}
    /\ req' = [req EXCEPT ![r].group = group,
                          ![r].step = IF Unavailable(r) THEN "refused" ELSE "waiting"]
    /\ queue' = IF Unavailable(r) THEN queue
                ELSE Append(queue, [folder |-> f, uids |-> {c.uid : c \in group},
                                    target |-> req[r].target, req |-> r])
    /\ UNCHANGED <<serverVars, row, synced, cursor, loopVars, history, bounds>>

\* Each row of the group gets back the folder and UID it was read with.
RevertMove(r) ==
    LET group == req[r].group IN
    /\ req[r].step = "refused"
    /\ row' = [m \in Message |->
                  IF m \in Ids(group)
                  THEN LET c == CHOOSE x \in group : x.id = m
                       IN [row[m] EXCEPT !.folder = c.folder, !.uid = c.uid]
                  ELSE row[m]]
    /\ Answer(r, "done")
    /\ settled' = "no"
    /\ UNCHANGED <<serverVars, synced, cursor, loopVars, queue, poisoned, adrift, bounds>>

\* The revert fails too, which is logged: the rows stay where the move put them.
RevertFails(r) ==
    /\ req[r].step = "refused"
    /\ adrift' = adrift \cup Ids(req[r].group)
    /\ Answer(r, "done")
    /\ settled' = "no"
    /\ UNCHANGED <<serverVars, row, synced, cursor, loopVars, queue, poisoned, bounds>>

\* markThreadRead and its write-back, which a row without a UID has not, and which is
\* dropped when the loop does not take it.  The route queues it a moment after the UPDATE has
\* been answered: what happens to the row in between is not told apart from what happens while
\* the write-back is queued.
MarkRead(m) ==
    /\ requests < MaxRequests
    /\ row[m] # None /\ ~row[m].seen
    /\ row' = [row EXCEPT ![m].seen = TRUE]
    /\ queue' = IF row[m].uid = 0 \/ told \/ failing THEN queue
                ELSE Append(queue, [folder |-> row[m].folder, uids |-> {row[m].uid},
                                    target |-> None, req |-> None])
    /\ settled' = "no"
    /\ requests' = requests + 1
    /\ UNCHANGED <<serverVars, synced, cursor, loopVars, req, poisoned, adrift, trouble>>
-----------------------------------------------------------------------------
Between == RunTask \/ TaskRefused \/ TaskAnswerLost \/ BeginPass \/ Wake \/ Restart \/ Teardown

InPass ==
    \/ \E f \in Folder : OpenFolder(f)
    \/ FetchNewer
    \/ \E u \in pass.batch : IngestOne(u) \/ MessageVanished(u) \/ SkipPoison(u)
    \/ SaveCursor \/ FetchFlags \/ ReconcileFlags \/ EndPass

Loop == Between \/ InPass

Request(r) ==
    \/ \E filing \in BOOLEAN : ApplyOptimisticMove(r, filing)
    \/ \E f \in Folder : QueueMove(r, f)
    \/ RevertMove(r) \/ RevertFails(r)

Environment ==
    \/ \E m \in Message : \/ Arrive(m) \/ OtherClientFlags(m) \/ MarkRead(m)
                           \/ \E f \in Folder : OtherClientMoves(m, f)
    \/ \E f \in Folder : Renumber(f)
    \/ \E f \in Other : SetFolderSyncEnabled(f)
    \/ \E r \in Req, t \in Folder, ms \in SUBSET Message : Collect(r, t, ms)
    \/ Stop \/ Crash \/ PassFails

Next == Loop \/ Environment \/ \E r \in Req : Request(r)

Spec == Init /\ [][Next]_vars

\* The loop runs on and its waits end, and so do the statements of a request.
FairSpec == Spec /\ WF_vars(Loop) /\ \A r \in Req : WF_vars(Request(r))
-----------------------------------------------------------------------------
\* No cursor is past a message that is not recorded: whatever order arrivals, failures and
\* restarts come in, a message below last_seen_uid of its folder has a row, unless its own
\* ingest failed twice (syncFolder, loadCursor, ingestOne).
NoMessageIsMissed ==
    \A m \in Message :
        LET p == place[m] IN
        (/\ p # None
         /\ cursor[p.folder] # None
         /\ cursor[p.folder].validity = validity[p.folder]
         /\ p.uid <= cursor[p.folder].last) => row[m] # None \/ m \in poisoned

\* Once a whole pass has run over a mailbox nothing else happens to, the rows say what the
\* server has: the folder of every message, and the UID and flag of those in the folders
\* that are walked.  Not so for a message whose ingest failed, for one a request is still
\* moving, and for the residual states.  Of these mail-move.ts lists, under RESIDUAL STATES,
\* a crash or a failed revert that leaves the row in the target.  It does not list the others:
\* the answer of a move into an unwalked folder is lost; the row changed between
\* collectCandidates and applyOptimisticMove, or was sighted while its move was under way;
\* the mailbox was renumbered meanwhile, or before it if nothing walks it; another client
\* moved it where nothing looks.
MirrorsTheServer ==
    settled = "yes" =>
        \A m \in {n \in Message : place[n] # None} \ (poisoned \cup adrift \cup Held) :
            /\ row[m] # None
            /\ row[m].folder = place[m].folder
            /\ place[m].folder \in synced \cup {Inbox} =>
                  row[m].uid = place[m].uid /\ row[m].seen = (m \in flag)

\* An accepted move has moved the messages the user asked for, wherever the request found
\* them, and no others; but a UID read before its folder was renumbered may have become
\* another message's (groupForQueue, queueMoves, AccountSync.moveMessages).
AcceptedMoveIsAsAsked ==
    [][\A r \in Req :
          (/\ req[r].step = "waiting" /\ req'[r].step \notin {"waiting", "refused"}
           /\ at' # "gone") =>
              \A m \in {n \in Message : place[n] # None} :
                  \/ validity[place[m].folder] > 1
                  \/ place'[m] # place[m] <=>
                        \E c \in req[r].group : c.id = m /\ place[m] = [folder |-> c.folder,
                                                                     uid |-> c.uid]]_vars

\* A move that waits for the mail loop hears from it, through failed passes, backoff, stop
\* and restart (enqueueResult, drainQueue, teardown).
MoveIsAnswered == \A r \in Req : req[r].step = "waiting" ~> req[r].step # "waiting"

\* When users, clients and failures have been quiet for long enough, a whole pass runs:
\* with MirrorsTheServer, the rows end up as the server's.
Settles == <>[](settled = "yes")
=============================================================================
