--------------------------- MODULE MailMirrorProofs ---------------------------
(***************************************************************************)
(* Theorems of module MailMirror, for any messages, folders and requests.  *)
(* The inductive invariant says which messages a cursor, or the walk of a  *)
(* pass that will save one, has left behind; that a UID the mirror has     *)
(* noted means one message until its folder is renumbered; which queued    *)
(* task is whose; and, for the mirror, that what a cursor has left behind  *)
(* is where its row says or where a queued move will put it.  A second     *)
(* invariant says how much of a pass is done since anything else happened. *)
(***************************************************************************)
EXTENDS MailMirror, SequenceTheorems, FiniteSetTheorems, TLAPS

Spot == [folder : Folder, uid : Uid \ {0}]
Mirrored == [folder : Folder, uid : Uid, seen : BOOLEAN]
Cursor == [validity : Nat \ {0}, last : Uid]
Pass == [todo : SUBSET Folder, folder : Folder \cup {None}, validity : Nat, last : Uid,
         batch : SUBSET Uid, marked : SUBSET Uid, high : Uid, walk : SUBSET Uid, full : BOOLEAN]
Task == [folder : Folder, uids : SUBSET Uid, target : Folder \cup {None}, req : Req \cup {None}]
Candidate == [id : Message, folder : Folder, uid : Uid]
Call == [step : {"free", "collected", "moved", "waiting", "refused"},
         target : Folder \cup {None}, left : SUBSET Candidate, group : SUBSET Candidate,
         stopped : BOOLEAN]

Placed(m, f) == place[m] # None /\ place[m].folder = f

\* The server: no two messages have one UID of one folder, and none a UID yet to come.
Server ==
    /\ place \in [Message -> {None} \cup Spot]
    /\ flag \subseteq Message
    /\ next \in [Folder -> Uid \ {0}]
    /\ validity \in [Folder -> Nat \ {0}]
    /\ \A m \in Message, f \in Folder : Placed(m, f) => place[m].uid < next[f]
    /\ \A m, n \in Message : place[m] = place[n] /\ place[m] # None => m = n

\* The tables, the loop, its queue and the requests.
Tables ==
    /\ row \in [Message -> {None} \cup Mirrored]
    /\ synced \subseteq Other
    /\ cursor \in [Folder -> {None} \cup Cursor]
    /\ poisoned \subseteq Message /\ adrift \subseteq Message
LoopState ==
    /\ at \in {"drain", "wait", "gone", "folder", "fetch", "ingest", "save", "flags",
               "reconcile", "record"}
    /\ told \in BOOLEAN /\ due \in BOOLEAN /\ failing \in BOOLEAN
    /\ pass \in Pass
    /\ settled \in {"no", "fresh", "yes"}
Calls == queue \in Seq(Task) /\ req \in [Req -> Call]
Bounds ==
    /\ requests \in 0..MaxRequests /\ trouble \in 0..MaxTrouble
    /\ \A f \in Folder : validity[f] <= trouble + 1
Mirror == Tables /\ LoopState /\ Calls /\ Bounds

\* The requests that have moved their rows, the messages in them, and those of these that
\* are where the request found them.
Moving(r) == req[r].step \notin {"free", "collected"}
InPlace(c) == place[c.id] = [folder |-> c.folder, uid |-> c.uid]
Shifted(m) == \E r \in Req : Moving(r) /\ \E c \in req[r].left : c.id = m
Original(m) == \E r \in Req : Moving(r) /\ \E c \in req[r].left : c.id = m /\ InPlace(c)

\* A row says where its message is; if it does not, the message is in a residual state, or
\* its ingest has failed, or the row has moved and the message will.
Right(m) == row[m] # None /\ row[m].folder = place[m].folder /\ row[m].uid = place[m].uid
Excused(m) == m \in poisoned \cup adrift
Sure(m) == Excused(m) \/ Right(m) \/ Original(m)

\* A message that is recorded, or whose ingest failed twice, and is sure to be where its row
\* says; and that all of a folder are up to a UID.
Recorded(m) == row[m] # None \/ m \in poisoned
Accounted(m) == Recorded(m) /\ Sure(m)
UpTo(f, u) == \A m \in Message : Placed(m, f) /\ place[m].uid <= u => Accounted(m)

\* A cursor of the folder as it is numbered has nothing behind it that is not accounted for.
Cursors ==
    \A f \in Folder :
        cursor[f] # None =>
            /\ cursor[f].validity <= validity[f]
            /\ cursor[f].validity = validity[f] =>
                  cursor[f].last < next[f] /\ UpTo(f, cursor[f].last)

\* How far the walk of a pass is, and the UIDs it still has to look at.
Walking == at \in {"fetch", "ingest", "save"}
Reached == IF at = "fetch" THEN pass.last ELSE pass.high
Listed == IF at = "ingest" THEN pass.batch \cup pass.walk ELSE pass.walk

\* While the folder is not renumbered all behind the walk are accounted for; what is
\* before it is on its list or came later; and the batch is the start of the list.
Scanned(f, reached, listed) ==
    /\ reached < next[f] /\ UpTo(f, reached)
    /\ \A u \in listed : u < next[f]
    /\ \A m \in Message : Placed(m, f) =>
          Accounted(m) \/ place[m].uid \in listed \/ \A u \in listed : u < place[m].uid
Scan ==
    /\ Scanned(pass.folder, Reached, Listed)
    /\ at = "ingest" => \A u \in pass.batch, v \in pass.walk : u < v
Walk ==
    Walking =>
        /\ pass.folder \in Folder /\ pass.validity \in 1..validity[pass.folder]
        /\ pass.validity = validity[pass.folder] => Scan

\* What a request moves is recorded, and was not in its target.
Asked ==
    \A r \in Req :
        /\ req[r].group \subseteq req[r].left
        /\ req[r].step # "free" => req[r].target \in Folder
        /\ \A c \in req[r].left : row[c.id] # None /\ c.folder # req[r].target

\* A task of a request is the one its caller waits for, and asks for its group.
Awaited(task, asks) ==
    IF task.req = None THEN task.target = None
    ELSE /\ asks[task.req].step = "waiting" /\ task.target = asks[task.req].target
         /\ \A c \in asks[task.req].group : c.folder = task.folder
         /\ task.uids = {c.uid : c \in asks[task.req].group}
Queued ==
    /\ \A i \in 1..Len(queue) : Awaited(queue[i], req)
    /\ \A i, j \in 1..Len(queue) :
          queue[i].req = queue[j].req /\ queue[i].req # None => i = j

\* Message n is the one that has, or had, UID u of folder f.
Was(n, f, u) ==
    u < next[f] /\ \A m \in Message : Placed(m, f) /\ place[m].uid = u => m = n

\* That is so of a folder that was never renumbered, and of the UIDs in the rows and in
\* the requests.
Known(n, f, u) == validity[f] = 1 => Was(n, f, u)
Same ==
    /\ \A m \in Message :
          row[m] # None /\ row[m].uid # 0 => Known(m, row[m].folder, row[m].uid)
    /\ \A r \in Req : \A c \in req[r].left : Known(c.id, c.folder, c.uid)

\* A request that is free holds nothing, and the others hold a message once, with a UID it
\* had; and what has a row is in the mailbox.
Holding ==
    /\ \A r \in Req : req[r].step = "free" => req[r] = NoReq
    /\ \A r \in Req : \A c, d \in req[r].left : c.id = d.id => c = d
    /\ \A r \in Req : \A c \in req[r].left : c.uid # 0
    /\ \A m \in Message : row[m] # None => place[m] # None

\* The folders that are walked.  What is in another one has a row that says so.
Visited == synced \cup {Inbox}
Findable(m) ==
    place[m].folder \in Visited \/ (row[m] # None /\ row[m].folder = place[m].folder)
Rows ==
    \A m \in Message : place[m] # None /\ ~Excused(m) /\ ~Shifted(m) => Findable(m)

\* A row that a request has moved is where that request put it, and no other has moved it;
\* the message is where it was found, or where a pass or a revert will find it.
Alone(r, c) == \A q \in Req : Moving(q) /\ q # r => \A d \in req[q].left : d.id # c.id
Back(c) ==
    \/ InPlace(c) \/ c.id \in poisoned
    \/ place[c.id].folder \in Visited \cup {c.folder}
Moves ==
    \A r \in Req : Moving(r) =>
        \A c \in req[r].left : c.id \notin adrift =>
            /\ row[c.id].folder = req[r].target /\ row[c.id].uid = 0
            /\ Alone(r, c) /\ Back(c)

IInv ==
    /\ Server /\ Mirror /\ Cursors /\ Walk /\ Asked /\ Queued /\ Same
    /\ Holding /\ Rows /\ Moves
-----------------------------------------------------------------------------
\* None is no place of a message, no row and no cursor.
LEMMA Nothing == None \notin Spot /\ None \notin Mirrored /\ None \notin Cursor
<1>1. None \notin Spot
    BY MailAssumption DEF Spot, Uid
<1>2. None \notin Mirrored
    BY MailAssumption DEF Mirrored
<1>3. None \notin Cursor
    BY MailAssumption DEF Cursor, Uid
<1> QED
    BY <1>1, <1>2, <1>3

\* What a step may do to folder g: it goes on, and whatever comes into it comes to its end.
Runs(g) ==
    /\ validity'[g] = validity[g] /\ next[g] <= next'[g]
    /\ \A m \in Message :
          place'[m] # None /\ place'[m].folder = g =>
             place'[m] = place[m] \/ next[g] <= place'[m].uid

\* Every folder goes on or is made anew.
Evolves == \A g \in Folder : Runs(g) \/ validity'[g] = validity[g] + 1

\* The messages of ms have different UIDs.
Apart(ms) ==
    \A m, n \in ms : m # n => /\ place[m].uid \in Nat /\ place[n].uid \in Nat
                              /\ place[m].uid # place[n].uid

\* The messages of ms that are before message m.
Before(ms, m) == {n \in ms \ {m} : place[n].uid < place[m].uid}

\* The position of a message among those that are put together (PutAt) is less than their
\* number, and is its own.
LEMMA Rank ==
    ASSUME NEW ms \in SUBSET Message, Apart(ms)
    PROVE  /\ Cardinality(ms) \in Nat
           /\ \A m \in ms : /\ Cardinality(Before(ms, m)) \in Nat
                            /\ Cardinality(Before(ms, m)) < Cardinality(ms)
           /\ \A m, n \in ms : m # n => Cardinality(Before(ms, m)) # Cardinality(Before(ms, n))
<1>1. IsFiniteSet(ms)
    BY MailAssumption, FS_Subset
<1>2. Cardinality(ms) \in Nat
    BY <1>1, FS_CardinalityType
<1>3. ASSUME NEW m \in ms
      PROVE  /\ IsFiniteSet(Before(ms, m)) /\ Cardinality(Before(ms, m)) \in Nat
             /\ Cardinality(Before(ms, m)) < Cardinality(ms)
    <2>1. Before(ms, m) \in SUBSET ms /\ Before(ms, m) # ms
        BY DEF Before
    <2>2. IsFiniteSet(Before(ms, m))
        BY <1>1, <2>1, FS_Subset
    <2>3. Cardinality(Before(ms, m)) \in Nat
        BY <2>2, FS_CardinalityType
    <2>4. /\ Cardinality(Before(ms, m)) <= Cardinality(ms)
          /\ Cardinality(ms) # Cardinality(Before(ms, m))
        BY <1>1, <2>1, FS_Subset
    <2> QED
        BY <1>2, <2>2, <2>3, <2>4
<1>4. ASSUME NEW m \in ms, NEW n \in ms, m # n, place[m].uid < place[n].uid
      PROVE  Cardinality(Before(ms, m)) # Cardinality(Before(ms, n))
    <2>1. Before(ms, m) \in SUBSET Before(ms, n)
        <3> SUFFICES ASSUME NEW k \in Before(ms, m)
                     PROVE  k \in Before(ms, n)
            OBVIOUS
        <3>1. k \in ms /\ k # m /\ place[k].uid < place[m].uid
            BY DEF Before
        <3>2. place[k].uid \in Nat /\ place[m].uid \in Nat /\ place[n].uid \in Nat
            BY <1>4, <3>1 DEF Apart
        <3>3. place[k].uid < place[n].uid
            BY <1>4, <3>1, <3>2
        <3>4. k # n
            BY <3>2, <3>3
        <3> QED
            BY <3>1, <3>3, <3>4 DEF Before
    <2>2. m \in Before(ms, n) /\ m \notin Before(ms, m)
        BY <1>4 DEF Before
    <2> QED
        BY <1>3, <2>1, <2>2, FS_Subset
<1>5. ASSUME NEW m \in ms, NEW n \in ms, m # n
      PROVE  Cardinality(Before(ms, m)) # Cardinality(Before(ms, n))
    <2>1. /\ place[m].uid \in Nat /\ place[n].uid \in Nat
          /\ place[m].uid # place[n].uid
        BY <1>5 DEF Apart
    <2>2. place[m].uid < place[n].uid \/ place[n].uid < place[m].uid
        BY <2>1
    <2> QED
        BY <1>4, <1>5, <2>2
<1> QED
    BY <1>2, <1>3, <1>5

\* Messages put into a folder come behind all that was in it, and each has a UID of its own.
LEMMA Puts ==
    ASSUME Server, NEW ms \in SUBSET Message, NEW f \in Folder, Apart(ms),
           PutAt(ms, f), UNCHANGED validity, flag' \subseteq Message
    PROVE  /\ Server' /\ Evolves
           /\ \A m \in Message \ ms : place'[m] = place[m]
           /\ \A m \in ms : Placed(m, f)' /\ next[f] <= place'[m].uid
<1> DEFINE rank(m) == Cardinality(Before(ms, m))
<1>1. /\ Cardinality(ms) \in Nat
      /\ \A m \in ms : rank(m) \in Nat /\ rank(m) < Cardinality(ms)
      /\ \A m, n \in ms : m # n => rank(m) # rank(n)
    BY Rank
<1>2. /\ place' = [m \in Message |-> IF m \notin ms THEN place[m]
                                     ELSE [folder |-> f, uid |-> next[f] + rank(m)]]
      /\ next' = [next EXCEPT ![f] = @ + Cardinality(ms)]
    BY DEF PutAt, Before
<1> HIDE DEF rank
<1>3. next[f] \in Nat \ {0}
    BY DEF Server, Uid
<1>4. /\ next' \in [Folder -> Uid \ {0}]
      /\ next'[f] = next[f] + Cardinality(ms)
      /\ \A g \in Folder \ {f} : next'[g] = next[g]
    BY <1>1, <1>2, <1>3 DEF Server, Uid
<1>5. \A m \in Message \ ms : place'[m] = place[m]
    BY <1>2
<1>6. \A m \in ms : /\ place'[m] = [folder |-> f, uid |-> next[f] + rank(m)]
                    /\ place'[m] \in Spot /\ place'[m] # None
                    /\ place'[m].folder = f /\ place'[m].uid = next[f] + rank(m)
                    /\ next[f] <= place'[m].uid /\ place'[m].uid < next'[f]
    <2> SUFFICES ASSUME NEW m \in ms
                 PROVE  /\ place'[m] = [folder |-> f, uid |-> next[f] + rank(m)]
                        /\ place'[m] \in Spot /\ place'[m] # None
                        /\ place'[m].folder = f /\ place'[m].uid = next[f] + rank(m)
                        /\ next[f] <= place'[m].uid /\ place'[m].uid < next'[f]
        OBVIOUS
    <2>1. place'[m] = [folder |-> f, uid |-> next[f] + rank(m)]
        BY <1>2
    <2>2. next[f] + rank(m) \in Nat \ {0} /\ rank(m) \in Nat /\ rank(m) < Cardinality(ms)
        BY <1>1, <1>3
    <2>3. place'[m] \in Spot
        BY <2>1, <2>2 DEF Spot, Uid
    <2>4. place'[m] # None
        BY <2>3, Nothing
    <2>5. next[f] <= place'[m].uid /\ place'[m].uid < next'[f]
        BY <1>1, <1>3, <1>4, <2>1, <2>2
    <2> QED
        BY <2>1, <2>3, <2>4, <2>5
<1>7. place' \in [Message -> {None} \cup Spot]
    <2>1. \A m \in Message : place'[m] \in {None} \cup Spot
        BY <1>5, <1>6 DEF Server
    <2> QED
        BY <1>2, <2>1
<1>8. \A m \in Message, g \in Folder : Placed(m, g)' => place'[m].uid < next'[g]
    <2> SUFFICES ASSUME NEW m \in Message, NEW g \in Folder, Placed(m, g)'
                 PROVE  place'[m].uid < next'[g]
        OBVIOUS
    <2>1. CASE m \in ms
        BY <1>6, <2>1 DEF Placed
    <2>2. CASE m \notin ms
        <3>1. Placed(m, g) /\ place'[m].uid = place[m].uid /\ place[m].uid \in Nat
            BY <1>5, <2>2 DEF Placed, Server, Spot, Uid
        <3>2. place[m].uid < next[g] /\ next[g] \in Nat
            BY <3>1 DEF Server, Uid
        <3>3. next[g] <= next'[g] /\ next'[g] \in Nat
            BY <1>1, <1>3, <1>4, <3>2 DEF Uid
        <3> QED
            BY <3>1, <3>2, <3>3
    <2> QED
        BY <2>1, <2>2
<1>9. ASSUME NEW m \in Message, NEW n \in Message, place'[m] = place'[n], place'[m] # None
      PROVE  m = n
    <2>1. CASE m \in ms /\ n \in ms
        <3>1. next[f] + rank(m) = next[f] + rank(n)
            BY <1>6, <1>9, <2>1
        <3>2. rank(m) \in Nat /\ rank(n) \in Nat
            BY <1>1, <2>1
        <3>3. rank(m) = rank(n)
            BY <1>3, <3>1, <3>2
        <3> QED
            BY <1>1, <2>1, <3>3
    <2>2. ASSUME NEW k \in ms, NEW l \in Message \ ms
          PROVE  place'[k] # place'[l]
        <3> SUFFICES ASSUME place'[k] = place'[l] PROVE FALSE
            OBVIOUS
        <3>1. place[l] = place'[k] /\ place'[k].folder = f /\ place'[k] # None
            BY <1>5, <1>6
        <3>2. Placed(l, f)
            BY <3>1 DEF Placed
        <3>3. place[l].uid < next[f]
            BY <3>2 DEF Server
        <3>4. place'[k].uid \in Nat /\ next[f] <= place'[k].uid
            BY <1>6 DEF Spot, Uid
        <3> QED
            BY <1>3, <3>1, <3>3, <3>4
    <2>3. CASE m \notin ms /\ n \notin ms
        BY <1>5, <1>9, <2>3 DEF Server
    <2> QED
        BY <1>9, <2>1, <2>2, <2>3
<1>10. Server'
    BY <1>4, <1>7, <1>8, <1>9 DEF Server
<1>11. ASSUME NEW g \in Folder
       PROVE  Runs(g)
    <2>1. validity'[g] = validity[g]
        OBVIOUS
    <2>2. next[g] <= next'[g]
        BY <1>1, <1>3, <1>4 DEF Server, Uid
    <2>3. \A m \in Message :
              place'[m].folder = g => place'[m] = place[m] \/ next[g] <= place'[m].uid
        BY <1>5, <1>6
    <2> QED
        BY <2>1, <2>2, <2>3 DEF Runs
<1> QED
    BY <1>5, <1>6, <1>10, <1>11 DEF Evolves, Placed

\* The messages at some UIDs of a folder have different ones.
LEMMA AtUidsApart ==
    ASSUME Server, NEW f, NEW us
    PROVE  AtUids(f, us) \in SUBSET Message /\ Apart(AtUids(f, us))
<1>1. ASSUME NEW m \in AtUids(f, us), NEW n \in AtUids(f, us), m # n
      PROVE  place[m].uid \in Nat /\ place[n].uid \in Nat /\ place[m].uid # place[n].uid
    <2>1. /\ m \in Message /\ place[m] \in Spot /\ place[m].folder = f
          /\ n \in Message /\ place[n] \in Spot /\ place[n].folder = f
          /\ place[m] # None
        BY DEF AtUids, Server
    <2>2. place[m] # place[n]
        BY <1>1, <2>1 DEF Server
    <2>3. /\ place[m] = [folder |-> f, uid |-> place[m].uid]
          /\ place[n] = [folder |-> f, uid |-> place[n].uid]
        BY <2>1 DEF Spot
    <2>4. place[m].uid \in Nat /\ place[n].uid \in Nat
        BY <2>1 DEF Spot, Uid
    <2> QED
        BY <2>2, <2>3, <2>4
<1> QED
    BY <1>1 DEF Apart, AtUids

\* A step that leaves the server alone.
LEMMA ServerStays ==
    ASSUME Server, UNCHANGED serverVars
    PROVE  Server' /\ Evolves
<1>1. place' = place /\ flag' = flag /\ next' = next /\ validity' = validity
    BY DEF serverVars
<1>2. Server'
    BY <1>1 DEF Server, Placed
<1>3. \A g \in Folder : next[g] \in Nat
    BY DEF Server, Uid
<1> QED
    BY <1>1, <1>2, <1>3 DEF Evolves, Runs

\* A folder made anew: its messages are numbered in any order, the others stay.
LEMMA Renumbers ==
    ASSUME Server, NEW f \in Folder, Renumber(f)
    PROVE  Server' /\ Evolves
<1> DEFINE ms == AtUids(f, UidsOf(f))
<1>1. ms \in SUBSET Message /\ Cardinality(ms) \in Nat
    BY AtUidsApart, MailAssumption, FS_Subset, FS_CardinalityType
<1>2. \A m \in Message : m \in ms <=> Placed(m, f)
    BY DEF AtUids, UidsOf, Placed
<1>3. PICK new \in [ms -> 1..Cardinality(ms)] :
          /\ \A m, n \in ms : new[m] = new[n] => m = n
          /\ place' = [m \in Message |->
                          IF m \in ms THEN [folder |-> f, uid |-> new[m]] ELSE place[m]]
    BY DEF Renumber
<1>4. /\ validity' = [validity EXCEPT ![f] = @ + 1] /\ flag' = flag
      /\ next' = [next EXCEPT ![f] = Cardinality(ms) + 1]
    BY DEF Renumber
<1> HIDE DEF ms
<1>5. \A m \in ms : /\ place'[m] = [folder |-> f, uid |-> new[m]]
                    /\ place'[m].folder = f /\ place'[m].uid = new[m]
                    /\ new[m] \in Nat \ {0} /\ new[m] < Cardinality(ms) + 1
                    /\ place'[m] \in Spot /\ place'[m] # None
    <2> SUFFICES ASSUME NEW m \in ms
                 PROVE  /\ place'[m] = [folder |-> f, uid |-> new[m]]
                        /\ place'[m].folder = f /\ place'[m].uid = new[m]
                        /\ new[m] \in Nat \ {0} /\ new[m] < Cardinality(ms) + 1
                        /\ place'[m] \in Spot /\ place'[m] # None
        OBVIOUS
    <2>1. place'[m] = [folder |-> f, uid |-> new[m]]
        BY <1>1, <1>3
    <2>2. new[m] \in Nat \ {0} /\ new[m] < Cardinality(ms) + 1
        BY <1>1, <1>3
    <2> QED
        BY <2>1, <2>2, Nothing DEF Spot, Uid
<1>6. \A m \in Message \ ms : place'[m] = place[m]
    BY <1>3
<1>7. place' \in [Message -> {None} \cup Spot]
    BY <1>3, <1>5, <1>6 DEF Server
<1>8. /\ next' \in [Folder -> Uid \ {0}] /\ next'[f] = Cardinality(ms) + 1
      /\ validity' \in [Folder -> Nat \ {0}] /\ validity'[f] = validity[f] + 1
      /\ \A g \in Folder \ {f} : next'[g] = next[g] /\ validity'[g] = validity[g]
    BY <1>1, <1>4 DEF Server, Uid
<1>9. \A m \in Message, g \in Folder : Placed(m, g)' => place'[m].uid < next'[g]
    <2> SUFFICES ASSUME NEW m \in Message, NEW g \in Folder, Placed(m, g)'
                 PROVE  place'[m].uid < next'[g]
        OBVIOUS
    <2>1. CASE m \in ms
        BY <1>5, <1>8, <2>1 DEF Placed
    <2>2. CASE m \notin ms
        <3>1. Placed(m, g) /\ place'[m].uid = place[m].uid
            BY <1>6, <2>2 DEF Placed
        <3>2. g # f
            BY <1>2, <2>2, <3>1
        <3> QED
            BY <1>8, <3>1, <3>2 DEF Server
    <2> QED
        BY <2>1, <2>2
<1>10. ASSUME NEW m \in Message, NEW n \in Message, place'[m] = place'[n], place'[m] # None
       PROVE  m = n
    <2>1. CASE m \in ms /\ n \in ms
        BY <1>3, <1>5, <1>10, <2>1
    <2>2. ASSUME NEW k \in ms, NEW l \in Message \ ms
          PROVE  place'[k] # place'[l]
        BY <1>2, <1>5, <1>6 DEF Placed
    <2>3. CASE m \notin ms /\ n \notin ms
        BY <1>6, <1>10, <2>3 DEF Server
    <2> QED
        BY <1>10, <2>1, <2>2, <2>3
<1>11. Server'
    BY <1>4, <1>7, <1>8, <1>9, <1>10 DEF Server
<1>12. ASSUME NEW g \in Folder \ {f}
       PROVE  Runs(g)
    <2>1. \A m \in Message : place'[m].folder = g => place'[m] = place[m]
        BY <1>5, <1>6
    <2> QED
        BY <1>8, <2>1 DEF Runs, Server, Uid
<1> QED
    BY <1>8, <1>11, <1>12 DEF Evolves

\* What a queued task does on the server.
LEMMA ServerDoesIt ==
    ASSUME Server, NEW task \in Task, ServerDoes(task)
    PROVE  Server' /\ Evolves
<1>1. CASE task.target # None
    <2>1. ServerMoves(task) /\ task.target \in Folder
        BY <1>1 DEF ServerDoes, Task
    <2> QED
        BY <2>1, AtUidsApart, Puts DEF ServerMoves, Server
<1>2. CASE task.target = None
    <2>1. /\ UNCHANGED <<place, next, validity>>
          /\ flag' = flag \cup AtUids(task.folder, task.uids)
        BY <1>2 DEF ServerDoes, ServerFlags
    <2>2. flag' \subseteq Message
        BY <2>1, AtUidsApart DEF Server
    <2>3. Server'
        BY <2>1, <2>2 DEF Server, Placed
    <2> QED
        BY <2>1, <2>3 DEF Server, Evolves, Runs, Uid
<1> QED
    BY <1>1, <1>2

\* Whatever happens, the server keeps UIDs apart and a folder goes on or is made anew.
LEMMA StepServer ==
    ASSUME Server, queue \in Seq(Task), [Next]_vars
    PROVE  Server' /\ Evolves
<1>1. ASSUME NEW m \in Message, NEW f \in Folder, PutAt({m}, f),
             UNCHANGED <<flag, validity>>
      PROVE  Server' /\ Evolves
    BY <1>1, Puts DEF Apart, Server
<1>2. ASSUME NEW m \in Message, Arrive(m) PROVE Server' /\ Evolves
    BY <1>2, <1>1 DEF Arrive, Folder
<1>3. ASSUME NEW m \in Message, NEW f \in Folder, OtherClientMoves(m, f)
      PROVE  Server' /\ Evolves
    BY <1>3, <1>1 DEF OtherClientMoves
<1>4. ASSUME NEW m \in Message, OtherClientFlags(m) PROVE Server' /\ Evolves
    <2>1. /\ UNCHANGED <<place, next, validity>>
          /\ flag' \subseteq Message
        BY <1>4 DEF OtherClientFlags, Server
    <2> QED
        BY <2>1 DEF Server, Placed, Evolves, Runs, Uid
<1>5. ASSUME NEW f \in Folder, Renumber(f) PROVE Server' /\ Evolves
    BY <1>5, Renumbers
<1>6. ASSUME queue # <<>>, ServerDoes(Head(queue)) PROVE Server' /\ Evolves
    <2>1. Head(queue) \in Task
        BY <1>6, HeadTailProperties
    <2> QED
        BY <1>6, <2>1, ServerDoesIt
<1>7. CASE RunTask
    BY <1>7, <1>6 DEF RunTask, Shift
<1>8. CASE TaskAnswerLost
    BY <1>8, <1>6 DEF TaskAnswerLost, Shift
<1>9. CASE TaskRefused \/ BeginPass \/ Wake \/ Restart \/ Teardown
    BY <1>9, ServerStays DEF TaskRefused, BeginPass, Wake, Restart, Teardown
<1>10. CASE InPass
    <2>1. UNCHANGED serverVars
        BY <1>10 DEF InPass, OpenFolder, FetchNewer, IngestOne, MessageVanished, SkipPoison,
                     NextDescriptor, SaveCursor, FetchFlags, ReconcileFlags, EndPass
    <2> QED
        BY <2>1, ServerStays
<1>11. ASSUME NEW r \in Req, Request(r) PROVE Server' /\ Evolves
    BY <1>11, ServerStays DEF Request, ApplyOptimisticMove, QueueMove, RevertMove, RevertFails
<1>12. ASSUME NEW m \in Message, MarkRead(m) PROVE Server' /\ Evolves
    BY <1>12, ServerStays DEF MarkRead
<1>13. ASSUME NEW f \in Other, SetFolderSyncEnabled(f) PROVE Server' /\ Evolves
    BY <1>13, ServerStays DEF SetFolderSyncEnabled
<1>14. ASSUME NEW r \in Req, NEW t \in Folder, NEW ms \in SUBSET Message, Collect(r, t, ms)
       PROVE  Server' /\ Evolves
    BY <1>14, ServerStays DEF Collect
<1>15. CASE Stop \/ Crash \/ PassFails
    BY <1>15, ServerStays DEF Stop, Crash, PassFails
<1>16. CASE UNCHANGED vars
    BY <1>16, ServerStays DEF vars
<1> QED
    BY <1>2, <1>3, <1>4, <1>5, <1>7, <1>8, <1>9, <1>10, <1>11, <1>12, <1>13, <1>14, <1>15, <1>16
    DEF Next, Loop, Between, Environment
-----------------------------------------------------------------------------
\* The variables other than the server's, in the groups of Mirror.
tables == <<row, synced, cursor, poisoned, adrift>>
loopState == <<at, told, due, failing, pass, settled>>
calls == <<queue, req>>

\* An event of the mailbox changes no row, cursor, queue or request.
EventKeeps == UNCHANGED <<row, cursor, at, told, due, failing, pass, poisoned>> /\ UNCHANGED calls

\* Such events are arrivals, moves and flags of other clients, renumberings and settings.
LEMMA EventsKeep ==
    /\ \A m \in Message : Arrive(m) \/ OtherClientFlags(m) => EventKeeps
    /\ \A m \in Message, f \in Folder : OtherClientMoves(m, f) => EventKeeps
    /\ \A f \in Folder : Renumber(f) => EventKeeps
    /\ \A f \in Other : SetFolderSyncEnabled(f) => EventKeeps
BY DEF Arrive, OtherClientFlags, OtherClientMoves, Renumber, SetFolderSyncEnabled, Event,
       EventKeeps, loopVars, calls

\* The messages the requests hold, and those at some UIDs, are messages.
LEMMA HeldAreMessages ==
    ASSUME Calls
    PROVE  /\ Held \subseteq Message
           /\ \A r \in Req : /\ Ids(req[r].left) \subseteq Message
                              /\ Ids(req[r].group) \subseteq Message
<1>1. ASSUME NEW r \in Req
      PROVE  Ids(req[r].left) \subseteq Message /\ Ids(req[r].group) \subseteq Message
    <2>1. req[r] \in Call
        BY DEF Calls
    <2>2. req[r].left \subseteq Candidate /\ req[r].group \subseteq Candidate
        BY <2>1 DEF Call
    <2> QED
        BY <2>2 DEF Ids, Candidate
<1> QED
    BY <1>1 DEF Held

\* A message that is recorded stays so, and a row stays a row.
Remembers ==
    \A m \in Message : /\ row[m] # None => row'[m] # None
                       /\ Recorded(m) => Recorded(m)'

\* A row at another folder and UID.
LEMMA RowMoves ==
    ASSUME NEW x \in Mirrored, NEW f \in Folder, NEW u \in Uid
    PROVE  [x EXCEPT !.folder = f, !.uid = u] \in Mirrored
BY DEF Mirrored

\* The rows and cursors keep their types, and no row is lost.
LEMMA StepTables ==
    ASSUME IInv, [Next]_vars
    PROVE  Tables' /\ Remembers
<1>1. ASSUME UNCHANGED <<row, cursor>>, synced' \subseteq Other, adrift' \subseteq Message,
             poisoned \subseteq poisoned', poisoned' \subseteq Message
      PROVE  Tables' /\ Remembers
    BY <1>1 DEF IInv, Mirror, Tables, Remembers, Recorded
<1>2. Held \subseteq Message /\ synced \subseteq Other /\ adrift \subseteq Message
      /\ poisoned \subseteq Message
    BY HeldAreMessages DEF IInv, Mirror, Tables
<1>3. \A f, us : AtUids(f, us) \subseteq Message
    BY DEF AtUids
<1>4. ASSUME NEW m \in Message, Arrive(m) \/ OtherClientFlags(m)
      PROVE  Tables' /\ Remembers
    BY <1>1, <1>2, <1>4 DEF Arrive, OtherClientFlags, Event
<1>5. ASSUME NEW m \in Message, NEW f \in Folder, OtherClientMoves(m, f)
      PROVE  Tables' /\ Remembers
    BY <1>1, <1>2, <1>5 DEF OtherClientMoves, Event
<1>6. ASSUME NEW f \in Folder, Renumber(f) PROVE Tables' /\ Remembers
    BY <1>1, <1>2, <1>6 DEF Renumber, Event
<1>7. ASSUME NEW f \in Other, SetFolderSyncEnabled(f) PROVE Tables' /\ Remembers
    <2>1. synced' \subseteq Other
        BY <1>2, <1>7 DEF SetFolderSyncEnabled
    <2>2. adrift' \subseteq Message
        BY <1>2, <1>3, <1>7 DEF SetFolderSyncEnabled
    <2> QED
        BY <1>1, <1>2, <1>7, <2>1, <2>2 DEF SetFolderSyncEnabled, Event
<1>8. ASSUME queue # <<>>, Head(queue).target # None
      PROVE  Ids(req[Head(queue).req].group) \subseteq Message
    <2>1. queue \in Seq(Task) /\ Calls
        BY DEF IInv, Mirror, Calls
    <2>2. Head(queue) = queue[1] /\ 1 \in 1..Len(queue) /\ Head(queue) \in Task
        BY <1>8, <2>1, HeadTailProperties
    <2>3. Head(queue).req \in Req
        BY <1>8, <2>2 DEF IInv, Queued, Awaited, Task
    <2> QED
        BY <2>1, <2>3, HeldAreMessages
<1>9. CASE RunTask
    <2>1. adrift' \subseteq Message
        BY <1>2, <1>3, <1>8, <1>9 DEF RunTask, Shift, Misplaced, NotFound
    <2> QED
        BY <1>1, <1>2, <1>9, <2>1 DEF RunTask, Shift
<1>10. CASE TaskRefused
    BY <1>1, <1>2, <1>10 DEF TaskRefused, Shift
<1>11. CASE TaskAnswerLost
    <2>1. adrift' \subseteq Message
        BY <1>2, <1>3, <1>8, <1>11 DEF TaskAnswerLost, Shift, Misplaced
    <2> QED
        BY <1>1, <1>2, <1>11, <2>1 DEF TaskAnswerLost, Shift
<1>12. CASE BeginPass \/ Wake \/ Restart \/ Teardown \/ Stop \/ PassFails
    BY <1>1, <1>2, <1>12 DEF BeginPass, Wake, Restart, Teardown, Stop, PassFails, history
<1>13. CASE Crash
    <2>1. \A r \in Req : Ids(req[r].left) \subseteq Message
        BY HeldAreMessages DEF IInv, Mirror
    <2>2. adrift' \subseteq Message
        BY <1>2, <1>13, <2>1 DEF Crash
    <2> QED
        BY <1>1, <1>2, <1>13, <2>2 DEF Crash
<1>14. CASE FetchNewer \/ FetchFlags \/ EndPass
    BY <1>1, <1>2, <1>14 DEF FetchNewer, FetchFlags, EndPass, history
<1>15. ASSUME row' \in [Message -> {None} \cup Mirrored],
              \A m \in Message : row[m] # None => row'[m] # None,
              cursor' \in [Folder -> {None} \cup Cursor], synced' \subseteq Other,
              poisoned' = poisoned, adrift' \subseteq Message
       PROVE  Tables' /\ Remembers
    BY <1>2, <1>15 DEF Tables, Remembers, Recorded
<1>16. /\ Tables /\ LoopState /\ Calls
       /\ validity \in [Folder -> Nat \ {0}] /\ place \in [Message -> {None} \cup Spot]
    BY DEF IInv, Server, Mirror
<1>17. ASSUME NEW f \in Folder, OpenFolder(f) PROVE Tables' /\ Remembers
    <2>1. \A m \in Message : row'[m] = row[m] \/ /\ row[m] \in Mirrored
                                                 /\ row'[m] = [row[m] EXCEPT !.uid = 0]
        BY <1>16, <1>17 DEF OpenFolder, Tables
    <2>2. \A m \in Message : /\ row'[m] \in {None} \cup Mirrored
                             /\ row[m] # None => row'[m] # None
        <3> SUFFICES ASSUME NEW m \in Message
                     PROVE  /\ row'[m] \in {None} \cup Mirrored
                            /\ row[m] # None => row'[m] # None
            OBVIOUS
        <3>1. CASE row'[m] = row[m]
            BY <1>16, <3>1 DEF Tables
        <3>2. CASE row[m] \in Mirrored /\ row'[m] = [row[m] EXCEPT !.uid = 0]
            BY <3>2, Nothing DEF Mirrored, Uid
        <3> QED
            BY <2>1, <3>1, <3>2
    <2>3. row' \in [Message -> {None} \cup Mirrored]
        BY <1>17, <2>2 DEF OpenFolder
    <2>4. [validity |-> validity[f], last |-> 0] \in Cursor
        BY <1>16 DEF Cursor, Uid
    <2>5. cursor' \in [Folder -> {None} \cup Cursor]
        BY <1>16, <1>17, <2>4 DEF OpenFolder, Tables
    <2> QED
        BY <1>2, <1>15, <1>17, <2>2, <2>3, <2>5 DEF OpenFolder, history
<1>18. ASSUME NEW u \in pass.batch, IngestOne(u) PROVE Tables' /\ Remembers
    <2>1. PICK m \in AtUids(pass.folder, {u}) :
              /\ Ingest(m, u) /\ poisoned' = poisoned \ {m}
              /\ adrift' = IF m \in Held THEN adrift \cup {m} ELSE adrift \ {m}
        BY <1>18 DEF IngestOne
    <2>2. m \in Message /\ place[m] \in Spot /\ place[m].folder = pass.folder
        BY <1>16, <2>1 DEF AtUids
    <2>3. pass.folder \in Folder /\ u \in Uid
        BY <1>16, <2>2 DEF LoopState, Pass, Spot
    <2>4. [folder |-> pass.folder, uid |-> u, seen |-> u \in pass.marked] \in Mirrored
        BY <2>3 DEF Mirrored
    <2>5. row' = [row EXCEPT ![m] = [folder |-> pass.folder, uid |-> u,
                                     seen |-> u \in pass.marked]]
        BY <2>1 DEF Ingest
    <2>6. /\ row' \in [Message -> {None} \cup Mirrored]
          /\ \A n \in Message : row[n] # None => row'[n] # None
          /\ row'[m] # None
        BY <1>16, <2>2, <2>4, <2>5, Nothing DEF Tables
    <2>7. UNCHANGED <<cursor, synced>>
        BY <1>18 DEF IngestOne, NextDescriptor
    <2>8. Tables'
        BY <1>2, <1>16, <2>1, <2>2, <2>6, <2>7 DEF Tables
    <2>9. Remembers
        BY <2>1, <2>6 DEF Remembers, Recorded
    <2> QED
        BY <2>8, <2>9
<1>19. ASSUME NEW u \in pass.batch, MessageVanished(u) PROVE Tables' /\ Remembers
    BY <1>1, <1>2, <1>19 DEF MessageVanished, NextDescriptor, history
<1>20. ASSUME NEW u \in pass.batch, SkipPoison(u) PROVE Tables' /\ Remembers
    BY <1>1, <1>2, <1>3, <1>20 DEF SkipPoison, NextDescriptor
<1>21. CASE SaveCursor
    <2>1. pass.folder \in Folder /\ pass.validity \in Nat \ {0}
        BY <1>16, <1>21 DEF IInv, Walk, Walking, SaveCursor
    <2>2. [validity |-> pass.validity, last |-> pass.high] \in Cursor
        BY <1>16, <2>1 DEF Cursor, LoopState, Pass
    <2>3. cursor' \in [Folder -> {None} \cup Cursor]
        BY <1>16, <1>21, <2>1, <2>2 DEF SaveCursor, Tables
    <2> QED
        BY <1>2, <1>15, <1>16, <1>21, <2>3 DEF SaveCursor, history, Tables
<1>22. ASSUME row' \in [Message -> {None} \cup Mirrored],
              \A m \in Message : row[m] # None => row'[m] # None,
              UNCHANGED <<cursor, poisoned>>, synced' \subseteq Other, adrift' \subseteq Message
       PROVE  Tables' /\ Remembers
    BY <1>15, <1>16, <1>22 DEF Tables
<1>23. CASE ReconcileFlags
    <2>1. ASSUME NEW m \in Message
          PROVE  row'[m] = row[m] \/ (row[m] \in Mirrored /\ row'[m] \in Mirrored)
        <3>1. \/ row'[m] = row[m]
              \/ /\ row[m] # None
                 /\ row'[m] = [row[m] EXCEPT !.seen = row[m].uid \in pass.marked]
            BY <1>23 DEF ReconcileFlags
        <3>2. CASE row[m] # None /\ row'[m] = [row[m] EXCEPT !.seen = row[m].uid \in pass.marked]
            <4>1. row[m] \in Mirrored
                BY <1>16, <3>2 DEF Tables
            <4> DEFINE seen == row[m].uid \in pass.marked
            <4>2. seen \in BOOLEAN /\ row'[m] = [row[m] EXCEPT !.seen = seen]
                BY <3>2
            <4> HIDE DEF seen
            <4>3. row'[m] \in Mirrored
                BY <4>1, <4>2 DEF Mirrored
            <4> QED
                BY <4>1, <4>3
        <3> QED
            BY <3>1, <3>2
    <2>2. row' \in [Message -> {None} \cup Mirrored]
        BY <1>16, <1>23, <2>1 DEF ReconcileFlags, Tables
    <2> QED
        BY <1>2, <1>22, <1>23, <2>1, <2>2, Nothing DEF ReconcileFlags, history
<1>24. ASSUME NEW r \in Req, NEW t \in Folder, NEW ms \in SUBSET Message, Collect(r, t, ms)
       PROVE  Tables' /\ Remembers
    BY <1>1, <1>2, <1>24 DEF Collect, history
<1>25. \A r \in Req : /\ req[r].step # "free" => req[r].target \in Folder
                      /\ req[r].group \subseteq req[r].left
                      /\ \A c \in req[r].left : c \in Candidate /\ row[c.id] # None
    BY <1>16 DEF IInv, Asked, Calls, Call
<1>26. ASSUME NEW r \in Req, NEW filing \in BOOLEAN, ApplyOptimisticMove(r, filing)
       PROVE  Tables' /\ Remembers
    <2>1. req[r].target \in Folder
        BY <1>25, <1>26 DEF ApplyOptimisticMove
    <2>2. \A m \in Ids(req[r].left) : row[m] # None /\ m \in Message
        BY <1>25 DEF Ids, Candidate
    <2>3. \A m \in Message : 
              \/ row'[m] = row[m]
              \/ /\ row[m] \in Mirrored
                 /\ row'[m] = [row[m] EXCEPT !.folder = req[r].target, !.uid = 0]
        BY <1>16, <1>26, <2>2 DEF ApplyOptimisticMove, Tables
    <2>4. \A m \in Message : /\ row'[m] \in {None} \cup Mirrored
                             /\ row[m] # None => row'[m] # None
        <3> SUFFICES ASSUME NEW m \in Message
                     PROVE  /\ row'[m] \in {None} \cup Mirrored
                            /\ row[m] # None => row'[m] # None
            OBVIOUS
        <3>1. CASE row'[m] = row[m]
            BY <1>16, <3>1 DEF Tables
        <3>2. CASE /\ row[m] \in Mirrored
                   /\ row'[m] = [row[m] EXCEPT !.folder = req[r].target, !.uid = 0]
            <4>1. [row[m] EXCEPT !.folder = req[r].target, !.uid = 0] \in Mirrored
                BY <2>1, <3>2, RowMoves DEF Uid
            <4>2. row'[m] \in Mirrored
                BY <3>2, <4>1
            <4> QED
                BY <4>2, Nothing
        <3> QED
            BY <2>3, <3>1, <3>2
    <2>5. row' \in [Message -> {None} \cup Mirrored]
        BY <1>26, <2>4 DEF ApplyOptimisticMove
    <2>6. synced' \subseteq Other
        BY <1>2, <1>26, <2>1 DEF ApplyOptimisticMove, EnableTargetSync, Folder
    <2>7. adrift' \subseteq Message
        BY <1>2, <1>25, <1>26 DEF ApplyOptimisticMove, Ids, Candidate
    <2> QED
        BY <1>22, <1>26, <2>4, <2>5, <2>6, <2>7 DEF ApplyOptimisticMove
<1>27. ASSUME NEW r \in Req, NEW f \in Folder, QueueMove(r, f)
       PROVE  Tables' /\ Remembers
    BY <1>1, <1>2, <1>27 DEF QueueMove, history
<1>28. ASSUME NEW r \in Req, RevertMove(r) PROVE Tables' /\ Remembers
    <2>1. \A m \in Message : \/ row'[m] = row[m]
                             \/ \E c \in req[r].group :
                                   /\ c.id = m
                                   /\ row'[m] = [row[m] EXCEPT !.folder = c.folder, !.uid = c.uid]
        BY <1>28 DEF RevertMove, Ids
    <2>2. ASSUME NEW m \in Message, NEW c \in req[r].group, c.id = m,
                 row'[m] = [row[m] EXCEPT !.folder = c.folder, !.uid = c.uid]
          PROVE  row'[m] \in Mirrored
        <3>1. c \in Candidate /\ row[m] # None
            BY <1>25, <2>2
        <3>2. row[m] \in Mirrored
            BY <1>16, <3>1 DEF Tables
        <3> QED
            BY <2>2, <3>1, <3>2 DEF Mirrored, Candidate
    <2>3. \A m \in Message : /\ row'[m] \in {None} \cup Mirrored
                             /\ row[m] # None => row'[m] # None
        <3> SUFFICES ASSUME NEW m \in Message
                     PROVE  /\ row'[m] \in {None} \cup Mirrored
                            /\ row[m] # None => row'[m] # None
            OBVIOUS
        <3>1. CASE row'[m] = row[m]
            BY <1>16, <3>1 DEF Tables
        <3>2. CASE row'[m] # row[m]
            <4>1. row'[m] \in Mirrored
                BY <2>1, <2>2, <3>2
            <4> QED
                BY <4>1, Nothing
        <3> QED
            BY <3>1, <3>2
    <2>4. row' \in [Message -> {None} \cup Mirrored]
        BY <1>28, <2>3 DEF RevertMove
    <2> QED
        BY <1>2, <1>22, <1>28, <2>3, <2>4 DEF RevertMove
<1>29. ASSUME NEW r \in Req, RevertFails(r) PROVE Tables' /\ Remembers
    <2>1. Ids(req[r].group) \subseteq Message
        BY <1>16, HeldAreMessages
    <2> QED
        BY <1>1, <1>2, <1>29, <2>1 DEF RevertFails
<1>30. ASSUME NEW m \in Message, MarkRead(m) PROVE Tables' /\ Remembers
    <2>1. row[m] \in Mirrored /\ row' = [row EXCEPT ![m].seen = TRUE]
        BY <1>16, <1>30 DEF MarkRead, Tables
    <2>2. [row[m] EXCEPT !.seen = TRUE] \in Mirrored
        BY <2>1 DEF Mirrored
    <2>3. /\ row' \in [Message -> {None} \cup Mirrored]
          /\ \A n \in Message : row[n] # None => row'[n] # None
        BY <1>16, <2>1, <2>2, Nothing DEF Tables
    <2> QED
        BY <1>2, <1>22, <1>30, <2>3 DEF MarkRead
<1>31. CASE UNCHANGED vars
    BY <1>1, <1>2, <1>31 DEF vars, history
<1>32. CASE Between
    BY <1>9, <1>10, <1>11, <1>12, <1>32 DEF Between
<1>33. CASE InPass
    BY <1>14, <1>17, <1>18, <1>19, <1>20, <1>21, <1>23, <1>33 DEF InPass
<1>34. CASE Environment
    BY <1>4, <1>5, <1>6, <1>7, <1>12, <1>13, <1>24, <1>30, <1>34 DEF Environment
<1>35. ASSUME NEW r \in Req, Request(r) PROVE Tables' /\ Remembers
    BY <1>26, <1>27, <1>28, <1>29, <1>35 DEF Request
<1> QED
    BY <1>31, <1>32, <1>33, <1>34, <1>35 DEF Next, Loop

\* The pass that is not there has the type of a pass.
LEMMA NoPassIsPass == NoPass \in Pass
BY DEF NoPass, Pass, Uid

\* The UIDs of a folder are UIDs.
LEMMA UidsAreUids ==
    ASSUME Server, NEW f
    PROVE  UidsOf(f) \subseteq Uid
BY DEF UidsOf, Server, Spot

\* The loop and its pass keep their types.
LEMMA StepLoop ==
    ASSUME IInv, [Next]_vars
    PROVE  LoopState'
<1>1. LoopState /\ Tables /\ Calls /\ Server
    BY DEF IInv, Mirror
<1>2. ASSUME pass' = pass, at' = at, UNCHANGED <<told, due, failing>>,
             settled' \in {settled, "no"}
      PROVE  LoopState'
    BY <1>1, <1>2 DEF LoopState
<1>3. ASSUME at' = at, UNCHANGED <<due, failing, settled>>, pass' = pass, told' \in BOOLEAN
      PROVE  LoopState'
    BY <1>1, <1>3 DEF LoopState
<1>4. ASSUME pass' \in Pass, UNCHANGED <<told, due, failing, settled>>,
             at' \in {"folder", "fetch", "ingest", "save", "flags", "reconcile"}
      PROVE  LoopState'
    BY <1>1, <1>4 DEF LoopState
<1>5. ASSUME NEW m \in Message, Arrive(m) \/ OtherClientFlags(m) PROVE LoopState'
    BY <1>2, <1>5 DEF Arrive, OtherClientFlags, Event, loopVars
<1>6. ASSUME NEW m \in Message, NEW f \in Folder, OtherClientMoves(m, f) PROVE LoopState'
    BY <1>2, <1>6 DEF OtherClientMoves, Event, loopVars
<1>7. ASSUME NEW f \in Folder, Renumber(f) PROVE LoopState'
    BY <1>2, <1>7 DEF Renumber, Event, loopVars
<1>8. ASSUME NEW f \in Other, SetFolderSyncEnabled(f) PROVE LoopState'
    BY <1>2, <1>8 DEF SetFolderSyncEnabled, Event, loopVars
<1>9. CASE RunTask \/ TaskRefused \/ TaskAnswerLost
    BY <1>2, <1>9 DEF RunTask, TaskRefused, TaskAnswerLost, Shift, loopVars
<1>10. CASE Teardown
    BY <1>1, <1>10, NoPassIsPass DEF Teardown, LoopState, Unfinished
<1>11. CASE Wake \/ Restart
    BY <1>1, <1>11 DEF Wake, Restart, LoopState, history
<1>12. CASE Stop
    BY <1>3, <1>12 DEF Stop, history
<1>13. CASE Crash
    BY <1>1, <1>13, NoPassIsPass DEF Crash, LoopState
<1>14. CASE PassFails \/ EndPass
    BY <1>1, <1>14, NoPassIsPass DEF PassFails, EndPass, LoopState, Unfinished, history
<1>15. CASE BeginPass
    <2>1. {Inbox} \cup synced \subseteq Folder
        BY <1>1 DEF Tables, Folder
    <2>2. [NoPass EXCEPT !.todo = {Inbox} \cup synced] \in Pass
        BY <2>1, NoPassIsPass DEF Pass
    <2>3. pass' \in Pass
        BY <1>1, <1>15, <2>2 DEF BeginPass, LoopState
    <2> QED
        BY <1>1, <1>15, <2>3 DEF BeginPass, LoopState
<1>16. ASSUME NEW f \in Folder, OpenFolder(f) PROVE LoopState'
    <2>1. pass.todo \ {f} \subseteq Folder /\ validity[f] \in Nat
        BY <1>1 DEF LoopState, Pass, Server
    <2>2. cursor[f] # None => cursor[f].last \in Uid
        BY <1>1 DEF Tables, Cursor
    <2>3. PICK last \in Uid : pass' = [NoPass EXCEPT !.todo = pass.todo \ {f}, !.folder = f,
                                                     !.validity = validity[f], !.last = last]
        <3>1. 0 \in Uid
            BY DEF Uid
        <3> QED
            BY <1>16, <2>2, <3>1 DEF OpenFolder
    <2>4. pass' \in Pass
        BY <2>1, <2>3, NoPassIsPass DEF Pass
    <2> QED
        BY <1>4, <1>16, <2>4 DEF OpenFolder, history
<1>17. CASE FetchNewer
    <2> DEFINE pending == IF pass.walk # {} THEN pass.walk
                          ELSE {u \in UidsOf(pass.folder) : u > pass.last}
               batch == FirstOf(pending)
               rest == pending \ batch
               marked == Seen(pass.folder, batch)
               full == (Cardinality(batch) = BatchSize)
    <2>1. batch \subseteq Uid /\ rest \subseteq Uid /\ marked \subseteq Uid /\ full \in BOOLEAN
        <3>1. pending \subseteq Uid
            BY <1>1, UidsAreUids DEF LoopState, Pass
        <3> QED
            BY <3>1 DEF FirstOf, Seen
    <2>2. pass' = [pass EXCEPT !.batch = batch, !.marked = marked, !.high = pass.last,
                               !.walk = rest, !.full = full]
        BY <1>17 DEF FetchNewer
    <2> HIDE DEF pending, batch, rest, marked, full
    <2>3. pass' \in Pass
        BY <1>1, <2>1, <2>2 DEF LoopState, Pass
    <2> QED
        BY <1>4, <1>17, <2>3 DEF FetchNewer, history
<1>18. ASSUME NEW u \in pass.batch, NextDescriptor(u), settled' = settled PROVE LoopState'
    <2>1. pass \in Pass /\ u \in Uid
        BY <1>1 DEF LoopState, Pass
    <2>2. pass' \in Pass
        BY <1>18, <2>1 DEF NextDescriptor, Pass
    <2> QED
        BY <1>4, <1>18, <2>2 DEF NextDescriptor
<1>19. ASSUME NEW u \in pass.batch, IngestOne(u) \/ MessageVanished(u) \/ SkipPoison(u)
       PROVE  LoopState'
    BY <1>18, <1>19 DEF IngestOne, MessageVanished, SkipPoison, history
<1>20. CASE SaveCursor
    <2>1. pass' \in Pass
        BY <1>1, <1>20 DEF SaveCursor, LoopState, Pass
    <2> QED
        BY <1>4, <1>20, <2>1 DEF SaveCursor, history
<1>21. CASE FetchFlags
    <2>1. Seen(pass.folder, UidsOf(pass.folder)) \subseteq Uid /\ UidsOf(pass.folder) \subseteq Uid
        BY <1>1, UidsAreUids DEF Seen
    <2>2. pass' \in Pass
        BY <1>1, <1>21, <2>1 DEF FetchFlags, LoopState, Pass
    <2> QED
        BY <1>4, <1>21, <2>2 DEF FetchFlags, history
<1>22. CASE ReconcileFlags
    <2>1. pass.todo \subseteq Folder
        BY <1>1 DEF LoopState, Pass
    <2>2. pass' \in Pass
        BY <1>22, <2>1, NoPassIsPass DEF ReconcileFlags, Pass
    <2> QED
        BY <1>4, <1>22, <2>2 DEF ReconcileFlags, history
<1>23. ASSUME NEW r \in Req, Request(r) PROVE LoopState'
    BY <1>2, <1>23 DEF Request, ApplyOptimisticMove, QueueMove, RevertMove, RevertFails, loopVars,
                       history
<1>24. ASSUME NEW m \in Message, MarkRead(m) PROVE LoopState'
    BY <1>2, <1>24 DEF MarkRead, loopVars
<1>25. ASSUME NEW r \in Req, NEW t \in Folder, NEW ms \in SUBSET Message, Collect(r, t, ms)
       PROVE  LoopState'
    BY <1>2, <1>25 DEF Collect, loopVars, history
<1>26. CASE UNCHANGED vars
    BY <1>2, <1>26 DEF vars, loopVars, history
<1>27. CASE Between
    BY <1>9, <1>10, <1>11, <1>15, <1>27 DEF Between
<1>28. CASE InPass
    BY <1>14, <1>16, <1>17, <1>19, <1>20, <1>21, <1>22, <1>28 DEF InPass
<1>29. CASE Environment
    BY <1>5, <1>6, <1>7, <1>8, <1>12, <1>13, <1>14, <1>24, <1>25, <1>29 DEF Environment
<1> QED
    BY <1>23, <1>26, <1>27, <1>28, <1>29 DEF Next, Loop
-----------------------------------------------------------------------------
\* What is left of a request: no more than before, for the same target.
Shrinks(q) ==
    /\ req'[q] \in Call
    /\ req'[q].left \subseteq req[q].left /\ req'[q].group \subseteq req'[q].left
    /\ req'[q].step # "free" => req[q].step # "free" /\ req'[q].target = req[q].target
    /\ req'[q].left # {} => req'[q].target = req[q].target

\* The request that is not there has the type of a request, and nothing in it.
LEMMA NoReqIsCall == NoReq \in Call /\ NoReq.left = {} /\ NoReq.group = {} /\ NoReq.step = "free"
BY DEF NoReq, Call

\* A request whose record stays shrinks, in a sense.
LEMMA ShrinksIdle ==
    ASSUME Calls, Asked, NEW q \in Req, req'[q] = req[q]
    PROVE  Shrinks(q)
BY DEF Calls, Asked, Shrinks

\* A request that has returned, or has died with the process, is nothing.
LEMMA ShrinksToNothing ==
    ASSUME NEW q \in Req, req'[q] = NoReq
    PROVE  Shrinks(q)
BY NoReqIsCall DEF Shrinks

\* A change of a request's step and group, or that it is told of a stop.
LEMMA ShrinksOn ==
    ASSUME Calls, Asked, NEW q \in Req, req[q].step # "free",
           NEW left, left \subseteq req[q].left, NEW group, group \subseteq left,
           NEW step \in {"collected", "moved", "waiting", "refused"}, NEW stopped \in BOOLEAN,
           req'[q] = [req[q] EXCEPT !.step = step, !.left = left, !.group = group,
                                    !.stopped = stopped]
    PROVE  Shrinks(q)
<1>1. req[q] \in Call
    BY DEF Calls
<1>2. left \subseteq Candidate /\ group \subseteq Candidate
    BY <1>1 DEF Call
<1>3. req'[q] \in Call
    BY <1>1, <1>2 DEF Call
<1>4. /\ req'[q].left = left /\ req'[q].group = group /\ req'[q].target = req[q].target
    BY <1>1 DEF Call
<1> QED
    BY <1>3, <1>4 DEF Shrinks

\* The request that is answered shrinks, the others stay.
LEMMA Answers ==
    ASSUME Calls, Asked, NEW r \in Req \cup {None}, NEW step, Answer(r, step),
           r # None => req[r].step # "free"
    PROVE  /\ req' \in [Req -> Call]
           /\ \A q \in Req : Shrinks(q)
           /\ \A q \in Req \ {r} : req'[q] = req[q]
           /\ r # None => req'[r].step \in {"free", "moved", "refused"}
<1>1. CASE r = None
    <2>1. req' = req
        BY <1>1 DEF Answer
    <2> QED
        BY <1>1, <2>1, ShrinksIdle DEF Calls
<1>2. CASE r # None
    <2>1. r \in Req /\ req[r] \in Call
        BY <1>2 DEF Calls
    <2>2. /\ \A q \in Req \ {r} : req'[q] = req[q]
          /\ req'[r] = IF step = "refused" THEN [req[r] EXCEPT !.step = step]
                       ELSE DoneWithGroup(r)
          /\ req' = [req EXCEPT ![r] = req'[r]]
        BY <1>2, <2>1 DEF Answer, Calls
    <2> DEFINE left == req[r].left
               group == req[r].group
               stopped == req[r].stopped
               rest == left \ group
    <2>3. /\ group \subseteq left /\ rest \subseteq left /\ stopped \in BOOLEAN
          /\ {} \subseteq rest /\ req[r].step # "free"
        BY <1>2, <2>1 DEF Asked, Call
    <2>4. /\ req[r] = [req[r] EXCEPT !.left = left, !.group = group, !.stopped = stopped]
          /\ DoneWithGroup(r) = IF left = group THEN NoReq
                                ELSE [req[r] EXCEPT !.step = "moved", !.left = rest, !.group = {},
                                                    !.stopped = stopped]
        BY <2>1 DEF Call, DoneWithGroup
    <2>5. \/ req'[r] = [req[r] EXCEPT !.step = "refused", !.left = left, !.group = group,
                                      !.stopped = stopped]
          \/ req'[r] = NoReq
          \/ req'[r] = [req[r] EXCEPT !.step = "moved", !.left = rest, !.group = {},
                                      !.stopped = stopped]
        <3>1. CASE step = "refused"
            <4>1. req'[r] = [req[r] EXCEPT !.step = "refused"]
                BY <2>2, <3>1
            <4> QED
                BY <2>1, <4>1 DEF Call
        <3>2. CASE step # "refused"
            BY <2>2, <2>4, <3>2
        <3> QED
            BY <3>1, <3>2
    <2>6. Shrinks(r) /\ req'[r].step \in {"free", "moved", "refused"}
        <3> HIDE DEF left, group, stopped, rest
        <3>1. CASE req'[r] = [req[r] EXCEPT !.step = "refused", !.left = left, !.group = group,
                                            !.stopped = stopped]
            <4>1. Shrinks(r)
                BY <2>1, <2>3, <3>1, ShrinksOn DEF left
            <4> QED
                BY <2>1, <3>1, <4>1 DEF Call
        <3>2. CASE req'[r] = NoReq
            BY <2>1, <3>2, ShrinksToNothing, NoReqIsCall
        <3>3. CASE req'[r] = [req[r] EXCEPT !.step = "moved", !.left = rest, !.group = {},
                                            !.stopped = stopped]
            <4>1. Shrinks(r)
                BY <2>1, <2>3, <3>3, ShrinksOn DEF left
            <4> QED
                BY <2>1, <3>3, <4>1 DEF Call
        <3> QED
            BY <2>5, <3>1, <3>2, <3>3
    <2>7. \A q \in Req : Shrinks(q)
        BY <2>2, <2>6, ShrinksIdle
    <2>8. req' \in [Req -> Call]
        BY <2>1, <2>2, <2>6 DEF Calls, Shrinks
    <2> QED
        BY <1>2, <2>2, <2>6, <2>7, <2>8
<1> QED
    BY <1>1, <1>2

\* The task at the head of the queue, and the request that waits for it.
LEMMA HeadTask ==
    ASSUME Calls, Queued, queue # <<>>
    PROVE  /\ Head(queue) = queue[1] /\ Len(queue) \in Nat \ {0} /\ Head(queue) \in Task
           /\ Head(queue).req \in Req \cup {None} /\ Awaited(Head(queue), req)
           /\ Head(queue).req # None => req[Head(queue).req].step = "waiting"
           /\ Tail(queue) \in Seq(Task) /\ Len(Tail(queue)) = Len(queue) - 1
           /\ \A i \in 1..Len(Tail(queue)) : Tail(queue)[i] = queue[i + 1]
<1>1. queue \in Seq(Task)
    BY DEF Calls
<1>2. /\ Head(queue) = queue[1] /\ Len(queue) \in Nat \ {0} /\ Head(queue) \in Task
      /\ Tail(queue) \in Seq(Task) /\ Len(Tail(queue)) = Len(queue) - 1
      /\ \A i \in 1..Len(Tail(queue)) : Tail(queue)[i] = queue[i + 1]
    BY <1>1, HeadTailProperties
<1>3. Awaited(queue[1], req)
    BY <1>2 DEF Queued
<1> QED
    BY <1>2, <1>3 DEF Awaited, Task

\* A step makes no more of a request than it was, or is the collecting of a new one.
LEMMA StepRequests ==
    ASSUME IInv, [Next]_vars
    PROVE  /\ req' \in [Req -> Call]
           /\ \A q \in Req : \/ Shrinks(q)
                             \/ \E t \in Folder, ms \in SUBSET Message : Collect(q, t, ms)
<1> DEFINE Goal == /\ req' \in [Req -> Call]
                   /\ \A q \in Req : \/ Shrinks(q)
                                     \/ \E t \in Folder, ms \in SUBSET Message : Collect(q, t, ms)
<1>1. Calls /\ Asked /\ Queued /\ Tables /\ LoopState
    BY DEF IInv, Mirror
<1>2. ASSUME req' = req PROVE Goal
    BY <1>1, <1>2, ShrinksIdle DEF Calls
<1>3. ASSUME NEW r \in Req \cup {None}, NEW step, Answer(r, step),
             r # None => req[r].step # "free"
      PROVE  Goal
    BY <1>1, <1>3, Answers
<1>4. CASE RunTask \/ TaskRefused \/ TaskAnswerLost
    <2>1. queue # <<>> /\ \E step : Answer(Head(queue).req, step)
        BY <1>4 DEF RunTask, TaskRefused, TaskAnswerLost, Shift
    <2>2. /\ Head(queue).req \in Req \cup {None}
          /\ Head(queue).req # None => req[Head(queue).req].step # "free"
        BY <1>1, <2>1, HeadTask
    <2> QED
        BY <1>3, <2>1, <2>2
<1>5. ASSUME \A q \in Req : Shrinks(q), req' = [q \in Req |-> req'[q]]
      PROVE  Goal
    BY <1>5 DEF Shrinks
<1>6. CASE Teardown
    <2>1. /\ req' = [q \in Req |-> req'[q]]
          /\ \A q \in Req :
                \/ req'[q] = NoReq
                \/ /\ req[q].step # "free"
                   /\ \/ req'[q] = [req[q] EXCEPT !.stopped = TRUE]
                      \/ req'[q] = [req[q] EXCEPT !.stopped = TRUE, !.step = "refused"]
        <3>1. req' = [r \in Req |->
                         IF req[r].step = "free" THEN NoReq
                         ELSE [req[r] EXCEPT !.stopped = TRUE,
                                             !.step = IF r \in {queue[i].req : i \in DOMAIN queue}
                                                      THEN "refused" ELSE @]]
            BY <1>6 DEF Teardown, RejectQueue
        <3>2. \A q \in Req : req[q] \in Call
            BY <1>1 DEF Calls
        <3>3. \A q \in Req : [req[q] EXCEPT !.stopped = TRUE, !.step = req[q].step]
                                = [req[q] EXCEPT !.stopped = TRUE]
            BY <3>2 DEF Call
        <3> QED
            BY <3>1, <3>3
    <2>2. ASSUME NEW q \in Req, req[q].step # "free",
                 \/ req'[q] = [req[q] EXCEPT !.stopped = TRUE]
                 \/ req'[q] = [req[q] EXCEPT !.stopped = TRUE, !.step = "refused"]
          PROVE  Shrinks(q)
        <3>1. req[q] \in Call /\ req[q].group \subseteq req[q].left
            BY <1>1 DEF Calls, Asked
        <3>2. /\ req'[q] \in Call /\ req'[q].target = req[q].target
              /\ req'[q].left = req[q].left /\ req'[q].group = req[q].group
            BY <2>2, <3>1 DEF Call
        <3> QED
            BY <2>2, <3>1, <3>2 DEF Shrinks
    <2>3. \A q \in Req : Shrinks(q)
        BY <2>1, <2>2, ShrinksToNothing
    <2> QED
        BY <1>5, <2>1, <2>3
<1>7. CASE Crash
    <2>1. req' = [q \in Req |-> NoReq]
        BY <1>7 DEF Crash
    <2>2. \A q \in Req : Shrinks(q)
        BY <2>1, ShrinksToNothing
    <2> QED
        BY <1>5, <2>1, <2>2
<1>8. ASSUME NEW r \in Req, NEW t \in Folder, NEW ms \in SUBSET Message, Collect(r, t, ms)
      PROVE  Goal
    <2> DEFINE left == {[id |-> m, folder |-> row[m].folder, uid |-> row[m].uid] : m \in ms}
    <2>1. \A m \in ms : row[m] \in Mirrored /\ m \in Message
        BY <1>1, <1>8 DEF Collect, Movable, Tables
    <2>2. left \subseteq Candidate
        BY <2>1 DEF Mirrored, Candidate
    <2>3. req' = [req EXCEPT ![r] = [NoReq EXCEPT !.step = "collected", !.target = t,
                                                  !.left = left]]
        BY <1>8 DEF Collect
    <2> HIDE DEF left
    <2>4. [NoReq EXCEPT !.step = "collected", !.target = t, !.left = left] \in Call
        BY <2>2 DEF NoReq, Call
    <2>5. req' \in [Req -> Call] /\ \A q \in Req \ {r} : req'[q] = req[q]
        BY <1>1, <2>3, <2>4 DEF Calls
    <2>6. \A q \in Req \ {r} : Shrinks(q)
        BY <1>1, <2>5, ShrinksIdle
    <2> QED
        BY <1>8, <2>5, <2>6
<1>9. ASSUME NEW r \in Req, \A q \in Req \ {r} : req'[q] = req[q], Shrinks(r),
             req' = [q \in Req |-> req'[q]]
      PROVE  Goal
    BY <1>1, <1>5, <1>9, ShrinksIdle
<1>10. ASSUME NEW r \in Req, NEW filing \in BOOLEAN, ApplyOptimisticMove(r, filing)
       PROVE  Goal
    <2>1. req[r].step = "collected" /\ req' = [req EXCEPT ![r].step = "moved"]
        BY <1>10 DEF ApplyOptimisticMove
    <2>2. req[r] \in Call /\ req[r].group \subseteq req[r].left
        BY <1>1 DEF Calls, Asked
    <2>3. /\ req'[r] = [req[r] EXCEPT !.step = "moved"]
          /\ \A q \in Req \ {r} : req'[q] = req[q]
          /\ req' = [q \in Req |-> req'[q]]
        BY <1>1, <2>1 DEF Calls
    <2>4. Shrinks(r)
        BY <2>1, <2>2, <2>3 DEF Call, Shrinks
    <2> QED
        BY <1>9, <2>3, <2>4
<1>11. ASSUME NEW r \in Req, NEW f \in Folder, QueueMove(r, f)
       PROVE  Goal
    <2> DEFINE group == {c \in req[r].left : c.folder = f}
    <2>1. PICK step \in {"refused", "waiting"} :
              req' = [req EXCEPT ![r].group = group, ![r].step = step]
        BY <1>11 DEF QueueMove, GroupForQueue
    <2>2. req[r] \in Call /\ group \subseteq req[r].left /\ req[r].step # "free"
        BY <1>1, <1>11 DEF Calls, QueueMove
    <2> HIDE DEF group
    <2>3. /\ req'[r] = [req[r] EXCEPT !.group = group, !.step = step]
          /\ \A q \in Req \ {r} : req'[q] = req[q]
          /\ req' = [q \in Req |-> req'[q]]
        BY <1>1, <2>1 DEF Calls
    <2>4. Shrinks(r)
        <3>1. group \subseteq Candidate
            BY <2>2 DEF Call
        <3>2. /\ req'[r] \in Call /\ req'[r].target = req[r].target
              /\ req'[r].left = req[r].left /\ req'[r].group = group
            BY <2>2, <2>3, <3>1 DEF Call
        <3> QED
            BY <2>2, <3>2 DEF Shrinks
    <2> QED
        BY <1>9, <2>3, <2>4
<1>12. ASSUME NEW r \in Req, RevertMove(r) \/ RevertFails(r) PROVE Goal
    BY <1>3, <1>12 DEF RevertMove, RevertFails
<1>13. ASSUME NEW r \in Req, Request(r) PROVE Goal
    BY <1>10, <1>11, <1>12, <1>13 DEF Request
<1>14. ASSUME NEW m \in Message, MarkRead(m) PROVE Goal
    BY <1>2, <1>14 DEF MarkRead
<1>15. ASSUME EventKeeps PROVE Goal
    BY <1>2, <1>15 DEF EventKeeps, calls
<1>16. CASE BeginPass \/ Wake \/ Restart \/ Stop \/ PassFails
    BY <1>2, <1>16 DEF BeginPass, Wake, Restart, Stop, PassFails
<1>17. CASE InPass
    BY <1>2, <1>17 DEF InPass, OpenFolder, FetchNewer, IngestOne, MessageVanished, SkipPoison,
                       NextDescriptor, SaveCursor, FetchFlags, ReconcileFlags, EndPass
<1>18. CASE UNCHANGED vars
    BY <1>2, <1>18 DEF vars
<1>19. CASE Environment
    BY <1>7, <1>8, <1>14, <1>15, <1>16, <1>19, EventsKeep DEF Environment
<1>20. CASE Between
    BY <1>4, <1>6, <1>16, <1>20 DEF Between
<1> QED
    BY <1>13, <1>17, <1>18, <1>19, <1>20 DEF Next, Loop

\* What a new request asks for.
LEMMA Collects ==
    ASSUME Calls, Tables, NEW r \in Req, NEW t \in Folder, NEW ms \in SUBSET Message,
           Collect(r, t, ms)
    PROVE  /\ req'[r].step = "collected" /\ req'[r].target = t /\ req'[r].group = {}
           /\ UNCHANGED <<row, queue>> /\ \A q \in Req \ {r} : req'[q] = req[q]
           /\ req[r].step = "free"
           /\ \A c \in req'[r].left :
                 /\ c.id \in Message /\ row[c.id] # None /\ row[c.id].uid # 0
                 /\ c.folder = row[c.id].folder /\ c.uid = row[c.id].uid /\ c.folder # t
<1> DEFINE left == {[id |-> m, folder |-> row[m].folder, uid |-> row[m].uid] : m \in ms}
<1>1. req' = [req EXCEPT ![r] = [NoReq EXCEPT !.step = "collected", !.target = t,
                                              !.left = left]]
    BY DEF Collect
<1>2. \A c \in left :
          /\ c.id \in Message /\ row[c.id] # None /\ row[c.id].uid # 0
          /\ c.folder = row[c.id].folder /\ c.uid = row[c.id].uid /\ c.folder # t
    BY DEF Collect, Movable
<1> HIDE DEF left
<1>3. /\ req'[r] = [NoReq EXCEPT !.step = "collected", !.target = t, !.left = left]
      /\ \A q \in Req \ {r} : req'[q] = req[q]
    BY <1>1 DEF Calls
<1>4. /\ req'[r].step = "collected" /\ req'[r].target = t /\ req'[r].group = {}
      /\ req'[r].left = left
    BY <1>3 DEF NoReq
<1> QED
    BY <1>2, <1>3, <1>4 DEF Collect

\* Every step keeps what is said of the requests.
LEMMA StepAsked ==
    ASSUME IInv, [Next]_vars
    PROVE  Asked'
<1>1. Calls /\ Asked /\ Tables
    BY DEF IInv, Mirror
<1>2. Remembers
    BY StepTables
<1> SUFFICES ASSUME NEW r \in Req
             PROVE  /\ req'[r].group \subseteq req'[r].left
                    /\ req'[r].step # "free" => req'[r].target \in Folder
                    /\ \A c \in req'[r].left : row'[c.id] # None /\ c.folder # req'[r].target
    BY DEF Asked
<1>3. Shrinks(r) \/ \E t \in Folder, ms \in SUBSET Message : Collect(r, t, ms)
    BY StepRequests
<1>4. CASE Shrinks(r)
    <2>1. req[r] \in Call
        BY <1>1 DEF Calls
    <2>2. ASSUME NEW c \in req'[r].left
          PROVE  row'[c.id] # None /\ c.folder # req'[r].target
        <3>1. c \in req[r].left /\ req'[r].target = req[r].target
            BY <1>4, <2>2 DEF Shrinks
        <3>2. c.id \in Message
            BY <2>1, <3>1 DEF Call, Candidate
        <3> QED
            BY <1>1, <1>2, <3>1, <3>2 DEF Asked, Remembers
    <2> QED
        BY <1>1, <1>4, <2>2 DEF Shrinks, Asked
<1>5. ASSUME NEW t \in Folder, NEW ms \in SUBSET Message, Collect(r, t, ms)
      PROVE  /\ req'[r].group \subseteq req'[r].left
             /\ req'[r].step # "free" => req'[r].target \in Folder
             /\ \A c \in req'[r].left : row'[c.id] # None /\ c.folder # req'[r].target
    BY <1>1, <1>5, Collects
<1> QED
    BY <1>3, <1>4, <1>5

\* The queue keeps its type, and each of its tasks its caller.
LEMMA StepQueue ==
    ASSUME IInv, [Next]_vars
    PROVE  queue' \in Seq(Task) /\ Queued'
<1> DEFINE Goal == queue' \in Seq(Task) /\ Queued'
<1>1. Calls /\ Asked /\ Queued /\ Tables /\ LoopState /\ queue \in Seq(Task)
    BY DEF IInv, Mirror, Calls
<1>2. \A i \in 1..Len(queue) :
          /\ queue[i] \in Task /\ queue[i].req \in Req \cup {None} /\ Awaited(queue[i], req)
          /\ queue[i].req # None => req[queue[i].req].step = "waiting"
    <2> SUFFICES ASSUME NEW i \in 1..Len(queue)
                 PROVE  /\ queue[i] \in Task /\ queue[i].req \in Req \cup {None}
                        /\ Awaited(queue[i], req)
                        /\ queue[i].req # None => req[queue[i].req].step = "waiting"
        OBVIOUS
    <2>1. queue[i] \in Task
        BY <1>1, ElementOfSeq
    <2>2. Awaited(queue[i], req)
        BY <1>1 DEF Queued
    <2>3. queue[i].req \in Req \cup {None}
        BY <2>1 DEF Task
    <2>4. queue[i].req # None => req[queue[i].req].step = "waiting"
        BY <2>2 DEF Awaited
    <2> QED
        BY <2>1, <2>2, <2>3, <2>4
<1>3. ASSUME NEW task, Awaited(task, req), task.req # None => req'[task.req] = req[task.req]
      PROVE  Awaited(task, req')
    BY <1>3 DEF Awaited
<1>4. ASSUME queue' = queue, \A q \in Req : req[q].step = "waiting" => req'[q] = req[q]
      PROVE  Goal
    <2>1. ASSUME NEW i \in 1..Len(queue) PROVE Awaited(queue[i], req')
        <3>1. queue[i].req # None => req'[queue[i].req] = req[queue[i].req]
            BY <1>2, <1>4
        <3>2. Awaited(queue[i], req)
            BY <1>2
        <3> QED
            BY <1>3, <3>1, <3>2
    <2> QED
        BY <1>1, <1>4, <2>1 DEF Queued
<1>5. ASSUME queue' = <<>> PROVE Goal
    BY <1>5 DEF Queued
<1>6. ASSUME NEW step, Shift, Answer(Head(queue).req, step) PROVE Goal
    <2> DEFINE r == Head(queue).req
    <2>1. /\ queue # <<>> /\ queue' = Tail(queue)
        BY <1>6 DEF Shift
    <2>2. /\ r = queue[1].req /\ Len(queue) \in Nat \ {0} /\ r \in Req \cup {None}
          /\ r # None => req[r].step = "waiting"
          /\ queue' \in Seq(Task) /\ Len(queue') = Len(queue) - 1
          /\ \A i \in 1..Len(queue') : queue'[i] = queue[i + 1]
        BY <1>1, <2>1, HeadTask
    <2>3. \A q \in Req \ {r} : req'[q] = req[q]
        BY <1>1, <1>6, <2>2, Answers
    <2> HIDE DEF r
    <2>4. ASSUME NEW i \in 1..Len(queue') PROVE Awaited(queue'[i], req')
        <3>1. queue'[i] = queue[i + 1] /\ i + 1 \in 1..Len(queue) /\ i + 1 # 1
              /\ 1 \in 1..Len(queue)
            BY <2>2
        <3>2. queue[i + 1].req # None => queue[i + 1].req # r
            BY <1>1, <2>2, <3>1 DEF Queued
        <3>3. queue[i + 1].req \in Req \cup {None} /\ Awaited(queue[i + 1], req)
            BY <1>2, <3>1
        <3>4. queue[i + 1].req # None => req'[queue[i + 1].req] = req[queue[i + 1].req]
            BY <2>3, <3>2, <3>3
        <3>5. Awaited(queue[i + 1], req')
            BY <1>3, <3>3, <3>4
        <3> QED
            BY <3>1, <3>5
    <2>5. ASSUME NEW i \in 1..Len(queue'), NEW j \in 1..Len(queue'),
                 queue'[i].req = queue'[j].req, queue'[i].req # None
          PROVE  i = j
        <3>1. i + 1 \in 1..Len(queue) /\ j + 1 \in 1..Len(queue)
            BY <2>2
        <3>2. i + 1 = j + 1
            BY <1>1, <2>2, <2>5, <3>1 DEF Queued
        <3> QED
            BY <3>2
    <2> QED
        BY <2>2, <2>4, <2>5 DEF Queued
<1>7. ASSUME NEW task \in Task, queue' = Append(queue, task), Awaited(task, req'),
             \A q \in Req : req[q].step = "waiting" => req'[q] = req[q],
             task.req # None => req[task.req].step # "waiting"
      PROVE  Goal
    <2>1. /\ queue' \in Seq(Task) /\ Len(queue') = Len(queue) + 1 /\ Len(queue) \in Nat
          /\ \A i \in 1..Len(queue) : queue'[i] = queue[i]
          /\ queue'[Len(queue) + 1] = task
        BY <1>1, <1>7, AppendProperties, LenProperties
    <2>2. ASSUME NEW i \in 1..Len(queue') PROVE Awaited(queue'[i], req')
        <3>1. CASE i \in 1..Len(queue)
            <4>1. /\ queue[i].req # None => req'[queue[i].req] = req[queue[i].req]
                  /\ Awaited(queue[i], req)
                BY <1>2, <1>7, <3>1
            <4>2. Awaited(queue[i], req')
                BY <1>3, <4>1
            <4> QED
                BY <2>1, <3>1, <4>2
        <3>2. CASE i = Len(queue) + 1
            BY <1>7, <2>1, <3>2
        <3> QED
            BY <2>1, <3>1, <3>2
    <2>3. ASSUME NEW i \in 1..Len(queue'), NEW j \in 1..Len(queue'),
                 queue'[i].req = queue'[j].req, queue'[i].req # None
          PROVE  i = j
        <3>1. CASE i \in 1..Len(queue) /\ j \in 1..Len(queue)
            BY <1>1, <2>1, <2>3, <3>1 DEF Queued
        <3>2. ASSUME NEW k \in 1..Len(queue), queue[k].req # None
              PROVE  queue[k].req # task.req
            <4>1. req[queue[k].req].step = "waiting"
                BY <1>2, <3>2
            <4> QED
                BY <1>7, <3>2, <4>1
        <3> QED
            BY <2>1, <2>3, <3>1, <3>2
    <2> QED
        BY <2>1, <2>2, <2>3 DEF Queued
<1>8. CASE RunTask \/ TaskRefused \/ TaskAnswerLost
    BY <1>6, <1>8 DEF RunTask, TaskRefused, TaskAnswerLost
<1>9. CASE Teardown \/ Crash
    BY <1>5, <1>9 DEF Teardown, RejectQueue, Crash
<1>10. ASSUME NEW r \in Req, NEW t \in Folder, NEW ms \in SUBSET Message, Collect(r, t, ms)
       PROVE  Goal
    <2>1. \A q \in Req : req[q].step = "waiting" => req'[q] = req[q]
        BY <1>1, <1>10, Collects
    <2> QED
        BY <1>4, <1>10, <2>1 DEF Collect
<1>11. ASSUME NEW r \in Req, NEW filing \in BOOLEAN, ApplyOptimisticMove(r, filing)
       PROVE  Goal
    <2>1. \A q \in Req : req[q].step = "waiting" => req'[q] = req[q]
        BY <1>1, <1>11 DEF ApplyOptimisticMove, Calls
    <2> QED
        BY <1>4, <1>11, <2>1 DEF ApplyOptimisticMove
<1>12. ASSUME NEW r \in Req, NEW f \in Folder, QueueMove(r, f)
       PROVE  Goal
    <2> DEFINE group == {c \in req[r].left : c.folder = f}
               task == [folder |-> f, uids |-> {c.uid : c \in group},
                        target |-> req[r].target, req |-> r]
    <2>1. /\ req[r].step = "moved" /\ \A q \in Req \ {r} : req'[q] = req[q]
          /\ req[r] \in Call /\ req[r].target \in Folder
        BY <1>1, <1>12 DEF QueueMove, Calls, Asked
    <2>2. \A q \in Req : req[q].step = "waiting" => req'[q] = req[q]
        BY <2>1
    <2>3. CASE Unavailable(r)
        BY <1>4, <1>12, <2>2, <2>3 DEF QueueMove
    <2>4. CASE ~Unavailable(r)
        <3>1. queue' = Append(queue, task)
            BY <1>12, <2>4 DEF QueueMove, GroupForQueue
        <3>2. req' = [req EXCEPT ![r].group = group, ![r].step = "waiting"]
            BY <1>12, <2>4 DEF QueueMove, GroupForQueue
        <3>3. {c.uid : c \in group} \subseteq Uid
            BY <2>1 DEF Call, Candidate
        <3>4. task \in Task /\ task.req = r
            BY <2>1, <3>3 DEF Task
        <3>5. req'[r].step = "waiting" /\ req'[r].target = req[r].target /\ req'[r].group = group
            BY <1>1, <2>1, <3>2 DEF Calls, Call
        <3>6. r # None
            BY MailAssumption
        <3>7. Awaited(task, req')
            BY <3>5, <3>6 DEF Awaited
        <3> HIDE DEF task, group
        <3> QED
            BY <1>7, <2>1, <2>2, <3>1, <3>4, <3>7
    <2> QED
        BY <2>3, <2>4
<1>13. ASSUME NEW r \in Req, RevertMove(r) \/ RevertFails(r) PROVE Goal
    <2>1. req[r].step = "refused" /\ Answer(r, "done") /\ queue' = queue
        BY <1>13 DEF RevertMove, RevertFails
    <2>2. \A q \in Req \ {r} : req'[q] = req[q]
        BY <1>1, <2>1, Answers
    <2> QED
        BY <1>4, <2>1, <2>2
<1>14. ASSUME NEW r \in Req, Request(r) PROVE Goal
    BY <1>11, <1>12, <1>13, <1>14 DEF Request
<1>15. ASSUME NEW m \in Message, MarkRead(m) PROVE Goal
    <2> DEFINE task == [folder |-> row[m].folder, uids |-> {row[m].uid}, target |-> None,
                        req |-> None]
    <2>1. row[m] \in Mirrored /\ req' = req /\ (queue' = queue \/ queue' = Append(queue, task))
        BY <1>1, <1>15 DEF MarkRead, Tables
    <2>2. task \in Task /\ Awaited(task, req') /\ task.req = None
        BY <2>1 DEF Task, Mirrored, Awaited
    <2> HIDE DEF task
    <2> QED
        BY <1>4, <1>7, <2>1, <2>2
<1>16. ASSUME EventKeeps PROVE Goal
    BY <1>4, <1>16 DEF EventKeeps, calls
<1>17. CASE BeginPass \/ Wake \/ Restart \/ Stop \/ PassFails
    BY <1>4, <1>17 DEF BeginPass, Wake, Restart, Stop, PassFails
<1>18. CASE InPass
    BY <1>4, <1>18 DEF InPass, OpenFolder, FetchNewer, IngestOne, MessageVanished, SkipPoison,
                       NextDescriptor, SaveCursor, FetchFlags, ReconcileFlags, EndPass
<1>19. CASE UNCHANGED vars
    BY <1>4, <1>19 DEF vars
<1>20. CASE Environment
    BY <1>9, <1>10, <1>15, <1>16, <1>17, <1>20, EventsKeep DEF Environment
<1>21. CASE Between
    BY <1>8, <1>9, <1>17, <1>21 DEF Between
<1> QED
    BY <1>14, <1>18, <1>19, <1>20, <1>21 DEF Next, Loop

\* The bounds, and that every renumbering has been counted as trouble.
LEMMA StepBounds ==
    ASSUME IInv, [Next]_vars
    PROVE  Bounds'
<1>1. /\ requests \in 0..MaxRequests /\ trouble \in 0..MaxTrouble
      /\ \A f \in Folder : validity[f] \in Nat /\ validity[f] <= trouble + 1
      /\ MaxRequests \in Nat /\ MaxTrouble \in Nat
    BY MailAssumption DEF IInv, Mirror, Bounds, Server
<1>2. ASSUME validity' = validity, Trouble \/ trouble' = trouble,
             requests' = requests \/ (requests < MaxRequests /\ requests' = requests + 1)
      PROVE  Bounds'
    <2>1. /\ trouble' \in 0..MaxTrouble /\ trouble <= trouble'
          /\ requests' \in 0..MaxRequests
        BY <1>1, <1>2 DEF Trouble
    <2>2. \A f \in Folder : validity'[f] <= trouble' + 1
        BY <1>1, <1>2, <2>1
    <2> QED
        BY <2>1, <2>2 DEF Bounds
<1>3. ASSUME NEW m \in Message,
             Arrive(m) \/ OtherClientFlags(m) \/ \E f \in Folder : OtherClientMoves(m, f)
      PROVE  Bounds'
    BY <1>2, <1>3 DEF Arrive, OtherClientFlags, OtherClientMoves, Event
<1>4. ASSUME NEW f \in Folder, Renumber(f) PROVE Bounds'
    <2>1. /\ Trouble /\ requests' = requests
          /\ validity' = [validity EXCEPT ![f] = @ + 1]
        BY <1>4 DEF Renumber, Event
    <2>2. trouble' = trouble + 1 /\ trouble' \in 0..MaxTrouble
        BY <1>1, <2>1 DEF Trouble
    <2>3. \A g \in Folder : validity'[g] = IF g = f THEN validity[g] + 1 ELSE validity[g]
        BY <2>1 DEF IInv, Server
    <2>4. \A g \in Folder : validity'[g] <= trouble' + 1
        BY <1>1, <2>2, <2>3
    <2> QED
        BY <1>1, <2>1, <2>2, <2>4 DEF Bounds
<1>5. ASSUME NEW f \in Other, SetFolderSyncEnabled(f) PROVE Bounds'
    BY <1>2, <1>5 DEF SetFolderSyncEnabled, Event, serverVars
<1>6. ASSUME NEW task, ServerDoes(task) PROVE validity' = validity
    BY <1>6 DEF ServerDoes, ServerMoves, ServerFlags
<1>7. CASE RunTask \/ TaskRefused \/ TaskAnswerLost
    BY <1>2, <1>6, <1>7 DEF RunTask, TaskRefused, TaskAnswerLost, Shift, serverVars
<1>8. CASE Teardown \/ Wake \/ Restart \/ BeginPass
    BY <1>2, <1>8 DEF Teardown, Wake, Restart, BeginPass, bounds, serverVars
<1>9. CASE Stop \/ Crash \/ PassFails
    BY <1>2, <1>9 DEF Stop, Crash, PassFails, serverVars
<1>10. CASE \/ \E f \in Folder : OpenFolder(f)
            \/ FetchNewer \/ SaveCursor \/ FetchFlags \/ ReconcileFlags \/ EndPass
    BY <1>2, <1>10 DEF OpenFolder, FetchNewer, SaveCursor, FetchFlags, ReconcileFlags, EndPass,
                       bounds, serverVars
<1>11. ASSUME NEW u \in pass.batch, IngestOne(u) \/ MessageVanished(u) \/ SkipPoison(u)
       PROVE  Bounds'
    BY <1>2, <1>11 DEF IngestOne, MessageVanished, SkipPoison, NextDescriptor, serverVars
<1>12. ASSUME NEW r \in Req, Request(r) PROVE Bounds'
    BY <1>2, <1>12 DEF Request, ApplyOptimisticMove, QueueMove, RevertMove, RevertFails, bounds,
                       serverVars
<1>13. ASSUME NEW m \in Message, MarkRead(m) PROVE Bounds'
    BY <1>2, <1>13 DEF MarkRead, serverVars
<1>14. ASSUME NEW r \in Req, NEW t \in Folder, NEW ms \in SUBSET Message, Collect(r, t, ms)
       PROVE  Bounds'
    BY <1>2, <1>14 DEF Collect, serverVars
<1>15. CASE UNCHANGED vars
    BY <1>2, <1>15 DEF vars, bounds, serverVars
<1>16. CASE InPass
    BY <1>10, <1>11, <1>16 DEF InPass
<1>17. CASE Environment
    BY <1>3, <1>4, <1>5, <1>9, <1>13, <1>14, <1>17 DEF Environment
<1> QED
    BY <1>7, <1>8, <1>12, <1>15, <1>16, <1>17 DEF Next, Loop, Between

\* Every step keeps the types of the tables, the loop, the queue and the requests.
LEMMA StepMirror ==
    ASSUME IInv, [Next]_vars
    PROVE  Mirror'
BY StepTables, StepLoop, StepRequests, StepQueue, StepBounds DEF Mirror, Calls
-----------------------------------------------------------------------------
\* A step that drops the UIDs of a folder, because it has been made anew.
Resets(f) == OpenFolder(f) /\ cursor[f] # None /\ cursor[f].validity # validity[f]

\* What is sure to be where its row says stays so, while the server leaves it there.
Steady ==
    \A m \in Message :
        place[m] # None /\ place'[m] = place[m] /\ Sure(m) =>
           Sure(m)' \/ Resets(place[m].folder)
Kept == Steady /\ Rows' /\ Moves'

\* The parts of the invariant that speak of one message, row or candidate.
LEMMA Facts ==
    ASSUME IInv
    PROVE  /\ \A m \in Message : place[m] # None =>
                 /\ place[m] = [folder |-> place[m].folder, uid |-> place[m].uid]
                 /\ place[m].folder \in Folder /\ place[m].uid \in Nat \ {0}
           /\ \A m \in Message : row[m] # None => row[m] \in Mirrored /\ place[m] # None
           /\ \A r \in Req : req[r] \in Call /\ req[r].group \subseteq req[r].left
           /\ \A r \in Req : \A c \in req[r].left :
                 c \in Candidate /\ c.id \in Message /\ c.uid # 0
                 /\ row[c.id] # None /\ place[c.id] # None
           /\ \A r \in Req : \A c, d \in req[r].left : c.id = d.id => c = d
<1>1. Server /\ Tables /\ Calls /\ Asked /\ Holding
    BY DEF IInv, Mirror
<1>2. \A m \in Message : place[m] # None =>
          /\ place[m] = [folder |-> place[m].folder, uid |-> place[m].uid]
          /\ place[m].folder \in Folder /\ place[m].uid \in Nat \ {0}
    BY <1>1 DEF Server, Spot, Uid
<1>3. \A m \in Message : row[m] # None => row[m] \in Mirrored /\ place[m] # None
    BY <1>1 DEF Tables, Holding
<1>4. \A r \in Req : req[r] \in Call /\ req[r].group \subseteq req[r].left
    BY <1>1 DEF Calls, Asked
<1>5. ASSUME NEW r \in Req, NEW c \in req[r].left
      PROVE  c \in Candidate /\ c.id \in Message /\ c.uid # 0
             /\ row[c.id] # None /\ place[c.id] # None
    <2>1. c \in Candidate /\ c.id \in Message
        BY <1>4 DEF Call, Candidate
    <2>2. row[c.id] # None /\ c.uid # 0
        BY <1>1 DEF Asked, Holding
    <2> QED
        BY <1>3, <2>1, <2>2
<1>6. \A r \in Req : \A c, d \in req[r].left : c.id = d.id => c = d
    BY <1>1 DEF Holding
<1> QED
    BY <1>2, <1>3, <1>4, <1>5, <1>6

\* A step that moves no message, no row and no request.
SameSpot(m) ==
    \/ row'[m] = row[m]
    \/ /\ row[m] # None /\ row'[m] # None
       /\ row'[m].folder = row[m].folder /\ row'[m].uid = row[m].uid
SameMove(q) ==
    /\ Moving(q)' <=> Moving(q)
    /\ Moving(q) => req'[q].left = req[q].left /\ req'[q].target = req[q].target
Grows == synced \subseteq synced' /\ poisoned \subseteq poisoned' /\ adrift \subseteq adrift'
Calm ==
    /\ place' = place /\ Grows
    /\ \A m \in Message : SameSpot(m)
    /\ \A q \in Req : SameMove(q)

\* Such a step keeps what the rows say.
LEMMA CalmKept ==
    ASSUME IInv, Calm
    PROVE  Kept
<1>1. Rows /\ Moves /\ place' = place /\ Grows /\ Visited \subseteq Visited'
    BY DEF IInv, Calm, Grows, Visited
<1>2. \A m \in Message : Shifted(m)' <=> Shifted(m)
    BY DEF Calm, SameMove, Shifted
<1>3. \A m \in Message : Excused(m) => Excused(m)'
    BY <1>1 DEF Grows, Excused
<1>4. ASSUME NEW m \in Message, Sure(m) PROVE Sure(m)'
    <2>1. CASE Right(m)
        BY <1>1, <2>1 DEF Calm, SameSpot, Right, Sure
    <2>2. CASE Original(m)
        BY <1>1, <2>2 DEF Calm, SameMove, Original, InPlace, Sure
    <2> QED
        BY <1>3, <1>4, <2>1, <2>2 DEF Sure
<1>5. ASSUME NEW m \in Message, place'[m] # None, ~Excused(m)', ~Shifted(m)'
      PROVE  Findable(m)'
    <2>1. Findable(m)
        BY <1>1, <1>2, <1>3, <1>5 DEF Rows
    <2> QED
        BY <1>1, <2>1 DEF Calm, SameSpot, Findable
<1>6. ASSUME NEW r \in Req, Moving(r)', NEW c \in req'[r].left, c.id \notin adrift'
      PROVE  /\ row'[c.id].folder = req'[r].target /\ row'[c.id].uid = 0
             /\ Alone(r, c)' /\ Back(c)'
    <2>1. Moving(r) /\ c \in req[r].left /\ req'[r].target = req[r].target
        BY <1>6 DEF Calm, SameMove
    <2>2. /\ row[c.id].folder = req[r].target /\ row[c.id].uid = 0
          /\ Alone(r, c) /\ Back(c)
        BY <1>1, <1>6, <2>1 DEF Moves, Grows
    <2>3. c.id \in Message
        BY <2>1, Facts
    <2>4. row'[c.id].folder = req'[r].target /\ row'[c.id].uid = 0
        BY <2>1, <2>2, <2>3 DEF Calm, SameSpot
    <2>5. Alone(r, c)'
        BY <2>2 DEF Alone, Calm, SameMove
    <2>6. Back(c)'
        BY <1>1, <2>2 DEF Back, InPlace, Grows
    <2> QED
        BY <2>4, <2>5, <2>6
<1>7. Steady
    BY <1>4 DEF Steady
<1>8. Rows' /\ Moves'
    BY <1>5, <1>6 DEF Rows, Moves
<1> QED
    BY <1>7, <1>8 DEF Kept

\* The request that is answered that its group is done holds the rest, as long as there is any.
LEMMA AnswersDone ==
    ASSUME Calls, NEW r \in Req, Answer(r, "done")
    PROVE  /\ \A q \in Req \ {r} : req'[q] = req[q]
           /\ req'[r].left = req[r].left \ req[r].group
           /\ Moving(r)' => req'[r].target = req[r].target
           /\ req'[r].left # {} => Moving(r)'
<1>1. r # None /\ req[r] \in Call /\ req \in [Req -> Call]
    BY MailAssumption DEF Calls
<1>2. req'[r] = DoneWithGroup(r) /\ \A q \in Req \ {r} : req'[q] = req[q]
    BY <1>1 DEF Answer
<1>3. CASE req[r].left = req[r].group
    BY <1>2, <1>3, NoReqIsCall DEF DoneWithGroup, Moving
<1>4. CASE req[r].left # req[r].group
    <2>1. req'[r] = [req[r] EXCEPT !.step = "moved", !.left = req[r].left \ req[r].group,
                                   !.group = {}]
        BY <1>1, <1>2, <1>4 DEF DoneWithGroup
    <2>2. /\ req'[r].step = "moved" /\ req'[r].left = req[r].left \ req[r].group
          /\ req'[r].target = req[r].target
        BY <1>1, <2>1 DEF Call
    <2> QED
        BY <1>2, <2>2 DEF Moving
<1> QED
    BY <1>3, <1>4

\* A queued task moves what it finds at its UIDs, and nothing else; those of its group that
\* are where the request found them are there.
LEMMA TaskMoves ==
    ASSUME IInv, queue # <<>>, NEW task, task = Head(queue), ServerDoes(task),
           NEW ms, ms = AtUids(task.folder, task.uids)
    PROVE  \/ task.target = None /\ task.req = None /\ place' = place
           \/ /\ task.target \in Folder /\ task.target # None /\ task.req \in Req
              /\ req[task.req].step = "waiting" /\ req[task.req].target = task.target
              /\ \A c \in req[task.req].group : InPlace(c) => c.id \in ms
              /\ \A m \in ms : /\ m \in Message /\ place'[m] # None /\ place'[m] # place[m]
                               /\ place'[m].folder = task.target
              /\ \A m \in Message \ ms : place'[m] = place[m]
<1>1. Server /\ Calls /\ Asked /\ Queued
    BY DEF IInv, Mirror
<1>2. /\ task \in Task /\ task.req \in Req \cup {None} /\ Awaited(task, req)
      /\ task.req # None => req[task.req].step = "waiting"
    BY <1>1, HeadTask
<1>3. CASE task.req = None
    BY <1>2, <1>3 DEF Awaited, ServerDoes, ServerFlags
<1>4. CASE task.req # None
    <2>1. /\ task.req \in Req /\ req[task.req].step = "waiting"
          /\ task.target = req[task.req].target /\ task.target \in Folder /\ task.target # None
          /\ \A c \in req[task.req].group : c.folder = task.folder
          /\ task.uids = {c.uid : c \in req[task.req].group}
        <3>1. task.req \in Req /\ req[task.req].step = "waiting"
            BY <1>2, <1>4
        <3>2. /\ task.target = req[task.req].target
              /\ \A c \in req[task.req].group : c.folder = task.folder
              /\ task.uids = {c.uid : c \in req[task.req].group}
            BY <1>2, <1>4 DEF Awaited
        <3>3. req[task.req].target \in Folder
            BY <1>1, <3>1 DEF Asked
        <3> QED
            BY <3>1, <3>2, <3>3, MailAssumption
    <2>2. PutAt(ms, task.target) /\ UNCHANGED <<flag, validity>>
        BY <2>1 DEF ServerDoes, ServerMoves
    <2>3. /\ \A m \in Message \ ms : place'[m] = place[m]
          /\ \A m \in ms : Placed(m, task.target)' /\ next[task.target] <= place'[m].uid
          /\ Server' /\ ms \in SUBSET Message
        BY <1>1, <2>1, <2>2, AtUidsApart, Puts DEF Server
    <2>4. ASSUME NEW m \in ms
          PROVE  m \in Message /\ place'[m] # None /\ place'[m] # place[m]
                 /\ place'[m].folder = task.target
        <3>1. m \in Message /\ place'[m] # None /\ place'[m].folder = task.target
            BY <2>3 DEF Placed
        <3>2. SUFFICES ASSUME place'[m] = place[m] PROVE FALSE
            BY <3>1
        <3>3. Placed(m, task.target) /\ next[task.target] <= place[m].uid
            BY <2>3, <3>1, <3>2 DEF Placed
        <3>4. /\ place[m].uid < next[task.target] /\ place[m].uid \in Nat
              /\ next[task.target] \in Nat
            BY <1>1, <2>1, <3>1, <3>3, Facts DEF Server, Placed, Uid
        <3> QED
            BY <3>3, <3>4
    <2>5. ASSUME NEW c \in req[task.req].group, InPlace(c)
          PROVE  c.id \in ms
        <3>1. c.id \in Message /\ place[c.id] # None
            BY <2>1, Facts
        <3>2. place[c.id].folder = task.folder /\ place[c.id].uid \in task.uids
            BY <2>1, <2>5 DEF InPlace
        <3> QED
            BY <3>1, <3>2 DEF AtUids
    <2> QED
        BY <2>1, <2>3, <2>4, <2>5
<1> QED
    BY <1>3, <1>4

\* A task that is run: what it moves are the rows' messages, or are adrift.
LEMMA RunTaskKept ==
    ASSUME IInv, RunTask
    PROVE  Kept
<1>1. PICK task, ms :
          /\ task = Head(queue) /\ queue # <<>> /\ ServerDoes(task)
          /\ ms = AtUids(task.folder, task.uids) /\ Answer(task.req, "done")
          /\ adrift' = adrift \cup Misplaced(task) \cup NotFound(task)
          /\ UNCHANGED <<row, synced, poisoned>>
    BY DEF RunTask, Shift
<1>2. CASE task.target = None /\ task.req = None /\ place' = place
    <2>1. req' = req /\ adrift' = adrift
        BY <1>1, <1>2 DEF Answer, Misplaced, NotFound
    <2> QED
        BY <1>1, <1>2, <2>1, CalmKept DEF Calm, Grows, SameSpot, SameMove, Moving
<1>3. CASE /\ task.target \in Folder /\ task.target # None /\ task.req \in Req
           /\ req[task.req].step = "waiting" /\ req[task.req].target = task.target
           /\ \A c \in req[task.req].group : InPlace(c) => c.id \in ms
           /\ \A m \in ms : /\ m \in Message /\ place'[m] # None /\ place'[m] # place[m]
                            /\ place'[m].folder = task.target
           /\ \A m \in Message \ ms : place'[m] = place[m]
    <2>1. PICK r \in Req : r = task.req
        BY <1>3
    <2>2. /\ \A q \in Req \ {r} : req'[q] = req[q]
          /\ req'[r].left = req[r].left \ req[r].group
          /\ Moving(r)' => req'[r].target = req[r].target
          /\ req'[r].left # {} => Moving(r)'
        BY <1>1, <2>1, AnswersDone DEF IInv, Mirror
    <2>3. Moving(r) /\ \A q \in Req : Moving(q)' => Moving(q)
        BY <1>3, <2>1, <2>2 DEF Moving
    <2>4. \A q \in Req : \A c \in req'[q].left : c \in req[q].left
        BY <2>2
    <2>5. \A q \in Req : \A c \in req[q].left :
              c \in req[r].group \/ (c \in req'[q].left /\ (Moving(q) => Moving(q)'))
        BY <2>2 DEF Moving
    <2>6. \A m \in ms : m \in adrift' \/ \E c \in req[r].group : c.id = m
        BY <1>1, <1>3, <2>1 DEF Misplaced, Ids
    <2>7. ASSUME NEW c \in req[r].group, c.id \notin ms
          PROVE  c.id \in adrift' \/ place[c.id].folder \in Visited
        <3>1. c.id \in Message /\ place[c.id] # None
            BY <2>1, Facts
        <3> QED
            BY <1>1, <1>3, <2>1, <2>7, <3>1 DEF NotFound, Ids, Visited
    <2>8. \A m \in Message : Excused(m) => Excused(m)'
        BY <1>1 DEF Excused
    <2>9. ASSUME NEW m \in Message, place'[m] = place[m], Sure(m) PROVE Sure(m)'
        <3>1. m \notin ms
            BY <1>3, <2>9
        <3>2. CASE Right(m)
            BY <1>1, <2>9, <3>2 DEF Right, Sure
        <3>3. ASSUME NEW q \in Req, Moving(q), NEW c \in req[q].left, c.id = m, InPlace(c)
              PROVE  Sure(m)'
            <4>1. c \notin req[r].group
                BY <1>3, <2>1, <3>1, <3>3
            <4>2. c \in req'[q].left /\ Moving(q)' /\ InPlace(c)'
                BY <2>5, <2>9, <3>3, <4>1 DEF InPlace
            <4> QED
                BY <3>3, <4>2 DEF Original, Sure
        <3> QED
            BY <2>8, <2>9, <3>2, <3>3 DEF Sure, Original
    <2>10. ASSUME NEW m \in Message, place'[m] # None, ~Excused(m)', ~Shifted(m)'
           PROVE  Findable(m)'
        <3>1. m \notin adrift' /\ ~Excused(m) /\ m \notin adrift
            BY <2>8, <2>10 DEF Excused
        <3>2. CASE m \in ms
            <4>1. PICK c \in req[r].group : c.id = m
                BY <2>6, <3>1, <3>2
            <4>2. c \in req[r].left /\ row[m] # None
                BY <4>1, Facts
            <4>3. row[m].folder = task.target
                BY <1>3, <2>1, <2>3, <3>1, <4>1, <4>2 DEF IInv, Moves
            <4> QED
                BY <1>1, <1>3, <3>2, <4>2, <4>3 DEF Findable
        <3>3. CASE m \notin ms
            <4>1. place'[m] = place[m]
                BY <1>3, <3>3
            <4>2. CASE Shifted(m)
                <5>1. PICK c \in req[r].group : c.id = m
                    BY <2>5, <2>10, <4>2 DEF Shifted
                <5>2. place[m].folder \in Visited
                    BY <2>7, <3>1, <3>3, <5>1
                <5> QED
                    BY <1>1, <4>1, <5>2 DEF Findable, Visited
            <4>3. CASE ~Shifted(m)
                <5>1. Findable(m)
                    BY <2>10, <3>1, <4>1, <4>3 DEF IInv, Rows
                <5> QED
                    BY <1>1, <4>1, <5>1 DEF Findable, Visited
            <4> QED
                BY <4>2, <4>3
        <3> QED
            BY <3>2, <3>3
    <2>11. ASSUME NEW q \in Req, Moving(q)', NEW d \in req'[q].left, d.id \notin adrift'
           PROVE  /\ row'[d.id].folder = req'[q].target /\ row'[d.id].uid = 0
                  /\ Alone(q, d)' /\ Back(d)'
        <3>1. Moving(q) /\ d \in req[q].left /\ req'[q].target = req[q].target
              /\ d.id \notin adrift
            BY <1>1, <2>2, <2>3, <2>4, <2>11
        <3>2. /\ row[d.id].folder = req[q].target /\ row[d.id].uid = 0
              /\ Alone(q, d) /\ Back(d)
            BY <3>1 DEF IInv, Moves
        <3>3. Alone(q, d)'
            BY <2>3, <2>4, <3>2 DEF Alone
        <3>4. d.id \notin ms
            <4>1. SUFFICES ASSUME d.id \in ms PROVE FALSE
                OBVIOUS
            <4>2. PICK c \in req[r].group : c.id = d.id
                BY <2>6, <2>11, <4>1
            <4>3. c \in req[r].left
                BY <4>2, Facts
            <4>4. CASE q = r
                BY <2>2, <2>11, <3>1, <4>2, <4>3, <4>4, Facts
            <4>5. CASE q # r
                BY <2>3, <3>2, <4>2, <4>3, <4>5 DEF Alone
            <4> QED
                BY <4>4, <4>5
        <3>5. place'[d.id] = place[d.id]
            BY <1>3, <3>1, <3>4, Facts
        <3>6. Back(d)'
            BY <1>1, <3>2, <3>5 DEF Back, InPlace, Visited
        <3> QED
            BY <1>1, <3>1, <3>2, <3>3, <3>6
    <2>12. Steady
        BY <2>9 DEF Steady
    <2>13. Rows' /\ Moves'
        BY <2>10, <2>11 DEF Rows, Moves
    <2> QED
        BY <2>12, <2>13 DEF Kept
<1> QED
    BY <1>1, <1>2, <1>3, TaskMoves

\* A task whose answer is lost: its group is still held, and is adrift unless it is now
\* where a pass looks.
LEMMA TaskAnswerLostKept ==
    ASSUME IInv, TaskAnswerLost
    PROVE  Kept
<1>1. PICK task, ms :
          /\ task = Head(queue) /\ queue # <<>> /\ ServerDoes(task)
          /\ ms = AtUids(task.folder, task.uids) /\ Answer(task.req, "refused")
          /\ adrift' = adrift \cup Misplaced(task)
                       \cup (IF task.target \in synced \cup {None, Inbox} THEN {}
                             ELSE Ids(req[task.req].group))
          /\ UNCHANGED <<row, synced, poisoned>>
    BY DEF TaskAnswerLost, Shift
<1>2. CASE task.target = None /\ task.req = None /\ place' = place
    <2>1. req' = req /\ adrift' = adrift
        BY <1>1, <1>2 DEF Answer, Misplaced
    <2> QED
        BY <1>1, <1>2, <2>1, CalmKept DEF Calm, Grows, SameSpot, SameMove, Moving
<1>3. CASE /\ task.target \in Folder /\ task.target # None /\ task.req \in Req
           /\ req[task.req].step = "waiting" /\ req[task.req].target = task.target
           /\ \A c \in req[task.req].group : InPlace(c) => c.id \in ms
           /\ \A m \in ms : /\ m \in Message /\ place'[m] # None /\ place'[m] # place[m]
                            /\ place'[m].folder = task.target
           /\ \A m \in Message \ ms : place'[m] = place[m]
    <2>1. PICK r \in Req : r = task.req
        BY <1>3
    <2>2. /\ \A q \in Req \ {r} : req'[q] = req[q]
          /\ req'[r] = [req[r] EXCEPT !.step = "refused"] /\ req[r] \in Call
        BY <1>1, <2>1, MailAssumption DEF Answer, IInv, Mirror, Calls
    <2>3. \A q \in Req : SameMove(q) /\ req'[q].left = req[q].left
        BY <1>3, <2>1, <2>2 DEF Call, SameMove, Moving
    <2>4. \A m \in ms :
              \/ m \in adrift'
              \/ task.target \in Visited /\ \E c \in req[r].group : c.id = m
        BY <1>1, <1>3, <2>1 DEF Misplaced, Ids, Visited
    <2>5. \A m \in Message : Excused(m) => Excused(m)'
        BY <1>1 DEF Excused
    <2>6. ASSUME NEW m \in Message, place'[m] = place[m], Sure(m) PROVE Sure(m)'
        <3>1. CASE Right(m)
            BY <1>1, <2>6, <3>1 DEF Right, Sure
        <3>2. CASE Original(m)
            BY <2>3, <2>6, <3>2 DEF Original, SameMove, InPlace, Sure
        <3> QED
            BY <2>5, <2>6, <3>1, <3>2 DEF Sure
    <2>7. ASSUME NEW m \in Message, place'[m] # None, ~Excused(m)', ~Shifted(m)'
          PROVE  Findable(m)'
        <3>1. ~Excused(m) /\ m \notin adrift' /\ ~Shifted(m)
            BY <2>3, <2>5, <2>7 DEF Excused, Shifted, SameMove
        <3>2. m \notin ms
            <4>1. ASSUME NEW c \in req[r].group PROVE Shifted(c.id)
                BY <1>3, <2>1, <4>1, Facts DEF Shifted, Moving
            <4> QED
                BY <2>4, <3>1, <4>1
        <3>3. place'[m] = place[m]
            BY <1>3, <3>2
        <3>4. Findable(m)
            BY <2>7, <3>1, <3>3 DEF IInv, Rows
        <3> QED
            BY <1>1, <3>3, <3>4 DEF Findable, Visited
    <2>8. ASSUME NEW q \in Req, Moving(q)', NEW d \in req'[q].left, d.id \notin adrift'
          PROVE  /\ row'[d.id].folder = req'[q].target /\ row'[d.id].uid = 0
                 /\ Alone(q, d)' /\ Back(d)'
        <3>1. Moving(q) /\ d \in req[q].left /\ req'[q].target = req[q].target
              /\ d.id \notin adrift
            BY <1>1, <2>3, <2>8 DEF SameMove
        <3>2. /\ row[d.id].folder = req[q].target /\ row[d.id].uid = 0
              /\ Alone(q, d) /\ Back(d)
            BY <3>1 DEF IInv, Moves
        <3>3. Alone(q, d)'
            BY <2>3, <3>2 DEF Alone, SameMove
        <3>4. Back(d)'
            <4>1. CASE d.id \in ms
                BY <1>1, <1>3, <2>4, <2>8, <4>1 DEF Back, Visited
            <4>2. CASE d.id \notin ms
                <5>1. place'[d.id] = place[d.id]
                    BY <1>3, <3>1, <4>2, Facts
                <5> QED
                    BY <1>1, <3>2, <5>1 DEF Back, InPlace, Visited
            <4> QED
                BY <4>1, <4>2
        <3> QED
            BY <1>1, <3>1, <3>2, <3>3, <3>4
    <2>9. Steady
        BY <2>6 DEF Steady
    <2>10. Rows' /\ Moves'
        BY <2>7, <2>8 DEF Rows, Moves
    <2> QED
        BY <2>9, <2>10 DEF Kept
<1> QED
    BY <1>1, <1>2, <1>3, TaskMoves

\* A message that arrives is where a pass looks; one that another client moves is adrift.
LEMMA ArrivalKept ==
    ASSUME IInv, NEW m \in Message, NEW f \in Folder, PutAt({m}, f),
           UNCHANGED <<validity, flag, row, synced, req, poisoned>>, adrift \subseteq adrift',
           m \in adrift' \/ (row[m] = None /\ f \in Visited)
    PROVE  Kept
<1>1. /\ \A n \in Message \ {m} : place'[n] = place[n]
      /\ place'[m] # None /\ place'[m].folder = f
    <2>1. {m} \in SUBSET Message /\ Apart({m}) /\ Server /\ flag' \subseteq Message
        BY DEF Apart, IInv, Server
    <2>2. /\ \A n \in Message \ {m} : place'[n] = place[n]
          /\ Placed(m, f)'
        BY <2>1, Puts
    <2> QED
        BY <2>2 DEF Placed
<1>2. \A n \in Message : Excused(n) => Excused(n)'
    BY DEF Excused
<1>3. \A q \in Req : SameMove(q) /\ req'[q].left = req[q].left
    BY DEF SameMove, Moving
<1>4. ASSUME NEW n \in Message, place'[n] = place[n], Sure(n) PROVE Sure(n)'
    <2>1. CASE Right(n)
        BY <1>4, <2>1 DEF Right, Sure
    <2>2. CASE Original(n)
        BY <1>3, <1>4, <2>2 DEF Original, InPlace, SameMove, Sure
    <2> QED
        BY <1>2, <1>4, <2>1, <2>2 DEF Sure
<1>5. ASSUME NEW n \in Message, place'[n] # None, ~Excused(n)', ~Shifted(n)'
      PROVE  Findable(n)'
    <2>1. CASE n = m
        BY <1>1, <1>5, <2>1 DEF Excused, Findable, Visited
    <2>2. CASE n # m
        <3>1. place'[n] = place[n] /\ ~Excused(n) /\ ~Shifted(n)
            BY <1>1, <1>2, <1>3, <1>5, <2>2 DEF Shifted, SameMove
        <3>2. Findable(n)
            BY <1>5, <3>1 DEF IInv, Rows
        <3> QED
            BY <3>1, <3>2 DEF Findable, Visited
    <2> QED
        BY <2>1, <2>2
<1>6. ASSUME NEW q \in Req, Moving(q)', NEW d \in req'[q].left, d.id \notin adrift'
      PROVE  /\ row'[d.id].folder = req'[q].target /\ row'[d.id].uid = 0
             /\ Alone(q, d)' /\ Back(d)'
    <2>1. /\ Moving(q) /\ d \in req[q].left /\ req'[q].target = req[q].target
          /\ d.id \in Message /\ row[d.id] # None
        BY <1>3, <1>6, Facts DEF SameMove
    <2>2. /\ row[d.id].folder = req[q].target /\ row[d.id].uid = 0
          /\ Alone(q, d) /\ Back(d)
        BY <1>6, <2>1 DEF IInv, Moves
    <2>3. Alone(q, d)'
        BY <1>3, <2>2 DEF Alone, SameMove
    <2>4. place'[d.id] = place[d.id]
        BY <1>1, <1>6, <2>1
    <2>5. Back(d)'
        BY <2>2, <2>4 DEF Back, InPlace, Visited
    <2> QED
        BY <2>1, <2>2, <2>3, <2>5
<1>7. Steady
    BY <1>4 DEF Steady
<1>8. Rows' /\ Moves'
    BY <1>5, <1>6 DEF Rows, Moves
<1> QED
    BY <1>7, <1>8 DEF Kept

\* A folder that is made anew, or switched: what a request holds is adrift if it was there,
\* and so is what the folder's rows do not tell of.
LEMMA FolderKept ==
    ASSUME IInv, NEW f \in Folder,
           UNCHANGED <<row, req, poisoned>>, adrift \subseteq adrift',
           \A m \in Message :
              /\ place[m] = None => place'[m] = None
              /\ place[m] # None => place'[m] # None /\ place'[m].folder = place[m].folder
              /\ place[m] # None /\ place[m].folder # f => place'[m] = place[m],
           \A m \in Held : place[m].folder = f => m \in adrift',
           Visited \ {f} \subseteq Visited',
           f \notin Visited \/ f \in Visited' \/
              \A m \in Message : place[m] # None /\ place[m].folder = f =>
                 m \in adrift' \/ (row[m] # None /\ row[m].folder = f)
    PROVE  Kept
<1>1. \A n \in Message : Excused(n) => Excused(n)'
    BY DEF Excused
<1>2. \A q \in Req : SameMove(q) /\ req'[q].left = req[q].left
    BY DEF SameMove, Moving
<1>3. \A q \in Req : \A c \in req[q].left : c.id \in Held
    BY DEF Held, Ids
<1>4. ASSUME NEW n \in Message, place'[n] = place[n], Sure(n) PROVE Sure(n)'
    <2>1. CASE Right(n)
        BY <1>4, <2>1 DEF Right, Sure
    <2>2. CASE Original(n)
        BY <1>2, <1>4, <2>2 DEF Original, InPlace, SameMove, Sure
    <2> QED
        BY <1>1, <1>4, <2>1, <2>2 DEF Sure
<1>5. ASSUME NEW n \in Message, place'[n] # None, ~Excused(n)', ~Shifted(n)'
      PROVE  Findable(n)'
    <2>1. place[n] # None /\ place'[n].folder = place[n].folder
        BY <1>5
    <2>2. ~Excused(n) /\ ~Shifted(n) /\ n \notin adrift'
        BY <1>1, <1>2, <1>5 DEF Shifted, SameMove, Excused
    <2>3. Findable(n)
        BY <2>1, <2>2 DEF IInv, Rows
    <2> QED
        BY <2>1, <2>2, <2>3 DEF Findable
<1>6. ASSUME NEW q \in Req, Moving(q)', NEW d \in req'[q].left, d.id \notin adrift'
      PROVE  /\ row'[d.id].folder = req'[q].target /\ row'[d.id].uid = 0
             /\ Alone(q, d)' /\ Back(d)'
    <2>1. /\ Moving(q) /\ d \in req[q].left /\ req'[q].target = req[q].target
          /\ d.id \in Message /\ place[d.id] # None /\ place[d.id].folder # f
        BY <1>2, <1>3, <1>6, Facts DEF SameMove
    <2>2. /\ row[d.id].folder = req[q].target /\ row[d.id].uid = 0
          /\ Alone(q, d) /\ Back(d)
        BY <1>6, <2>1 DEF IInv, Moves
    <2>3. Alone(q, d)'
        BY <1>2, <2>2 DEF Alone, SameMove
    <2>4. place'[d.id] = place[d.id]
        BY <2>1
    <2>5. Back(d)'
        BY <2>1, <2>2, <2>4 DEF Back, InPlace
    <2> QED
        BY <2>1, <2>2, <2>3, <2>5
<1>7. Steady
    BY <1>4 DEF Steady
<1>8. Rows' /\ Moves'
    BY <1>5, <1>6 DEF Rows, Moves
<1> QED
    BY <1>7, <1>8 DEF Kept

\* What the mailbox's events keep.
LEMMA EventKept ==
    ASSUME IInv, \/ \E m \in Message : Arrive(m) \/ \E f \in Folder : OtherClientMoves(m, f)
                 \/ \E f \in Folder : Renumber(f)
                 \/ \E f \in Other : SetFolderSyncEnabled(f)
    PROVE  Kept
<1>1. ASSUME NEW m \in Message, Arrive(m) PROVE Kept
    <2>1. Inbox \in Folder /\ Inbox \in Visited
        BY DEF Folder, Visited
    <2> QED
        BY <1>1, <2>1, ArrivalKept DEF Arrive, Event
<1>2. ASSUME NEW m \in Message, NEW f \in Folder, OtherClientMoves(m, f) PROVE Kept
    BY <1>2, ArrivalKept DEF OtherClientMoves, Event
<1>3. ASSUME NEW f \in Folder, Renumber(f) PROVE Kept
    <2>1. PICK ms, new :
              /\ ms = AtUids(f, UidsOf(f))
              /\ place' = [m \in Message |->
                              IF m \in ms THEN [folder |-> f, uid |-> new[m]] ELSE place[m]]
        BY <1>3 DEF Renumber
    <2>2. /\ UNCHANGED <<row, req, poisoned, synced>> /\ adrift' = adrift \cup Held
        BY <1>3 DEF Renumber, Event
    <2>3. \A m \in Message : m \in ms <=> place[m] # None /\ place[m].folder = f
        BY <2>1 DEF AtUids, UidsOf
    <2>4. ASSUME NEW m \in Message
          PROVE  /\ place[m] = None => place'[m] = None
                 /\ place[m] # None => place'[m] # None /\ place'[m].folder = place[m].folder
                 /\ place[m] # None /\ place[m].folder # f => place'[m] = place[m]
        <3>1. CASE m \in ms
            <4>1. place'[m] = [folder |-> f, uid |-> new[m]]
                BY <2>1, <3>1
            <4>2. place'[m] # None
                <5>1. PICK k \in [ms -> 1..Cardinality(ms)] :
                          place' = [n \in Message |->
                              IF n \in ms THEN [folder |-> f, uid |-> k[n]] ELSE place[n]]
                    BY <1>3, <2>1 DEF Renumber
                <5>2. k[m] \in Uid
                    BY <3>1, <5>1 DEF Uid
                <5> QED
                    BY <3>1, <5>1, <5>2, MailAssumption
            <4> QED
                BY <2>3, <3>1, <4>1, <4>2
        <3>2. CASE m \notin ms
            BY <2>1, <2>3, <3>2
        <3> QED
            BY <3>1, <3>2
    <2> QED
        BY <2>2, <2>4, FolderKept DEF Visited
<1>4. ASSUME NEW f \in Other, SetFolderSyncEnabled(f) PROVE Kept
    <2>1. /\ f \in Folder /\ UNCHANGED <<place, row, req, poisoned>>
          /\ adrift \subseteq adrift' /\ Visited \ {f} \subseteq Visited'
        BY <1>4 DEF SetFolderSyncEnabled, Event, serverVars, Visited, Folder
    <2>2. CASE f \in synced
        <3>1. \A m \in Message :
                  place[m] # None /\ place[m].folder = f =>
                     m \in adrift' \/ (row[m] # None /\ row[m].folder = f /\ m \notin Held)
            BY <1>4, <2>2 DEF SetFolderSyncEnabled, AtUids, UidsOf
        <3>2. \A m \in Held : m \in Message /\ place[m] # None
            BY Facts DEF Held, Ids
        <3> QED
            BY <2>1, <3>1, <3>2, FolderKept
    <2>3. CASE f \notin synced
        BY <1>4, <2>1, <2>3, CalmKept
        DEF SetFolderSyncEnabled, Calm, Grows, SameSpot, SameMove, Moving
    <2> QED
        BY <2>2, <2>3
<1> QED
    BY <1>1, <1>2, <1>3, <1>4

\* Opening a folder drops UIDs only where it has been made anew.
LEMMA OpenFolderKept ==
    ASSUME IInv, NEW f \in Folder, OpenFolder(f)
    PROVE  Kept
<1>1. /\ place' = place /\ UNCHANGED <<synced, req, poisoned, adrift>>
      /\ \A m \in Message :
            \/ row'[m] = row[m]
            \/ /\ row[m] # None /\ row[m].folder = f
               /\ cursor[f] # None /\ cursor[f].validity # validity[f]
               /\ row'[m] = [row[m] EXCEPT !.uid = 0]
    BY DEF OpenFolder, serverVars, history
<1>2. \A m \in Message :
          /\ row'[m] = row[m] \/ (/\ row[m] # None /\ row[m].folder = f /\ Resets(f)
                                  /\ row'[m] # None /\ row'[m].uid = 0)
          /\ row[m] # None => row'[m] # None /\ row'[m].folder = row[m].folder
    <2> SUFFICES ASSUME NEW m \in Message, row'[m] # row[m]
                 PROVE  /\ row[m] # None /\ row[m].folder = f /\ Resets(f)
                        /\ row'[m] # None /\ row'[m].uid = 0 /\ row'[m].folder = row[m].folder
        OBVIOUS
    <2>1. row[m] \in Mirrored /\ row'[m] = [row[m] EXCEPT !.uid = 0] /\ row[m].folder = f
        BY <1>1, Facts
    <2>2. row'[m] \in Mirrored /\ row'[m].uid = 0 /\ row'[m].folder = row[m].folder
        BY <2>1 DEF Mirrored, Uid
    <2> QED
        BY <1>1, <2>1, <2>2, Nothing DEF Resets
<1>3. \A q \in Req : SameMove(q) /\ req'[q] = req[q]
    BY <1>1 DEF SameMove, Moving
<1>4. ASSUME NEW m \in Message, place[m] # None, Sure(m)
      PROVE  Sure(m)' \/ Resets(place[m].folder)
    <2>1. CASE Right(m)
        BY <1>1, <1>2, <2>1 DEF Right, Sure
    <2>2. CASE Original(m)
        BY <1>1, <1>3, <2>2 DEF Original, InPlace, SameMove, Sure
    <2> QED
        BY <1>1, <1>4, <2>1, <2>2 DEF Sure, Excused
<1>5. ASSUME NEW m \in Message, place'[m] # None, ~Excused(m)', ~Shifted(m)'
      PROVE  Findable(m)'
    <2>1. ~Excused(m) /\ ~Shifted(m) /\ place[m] # None
        BY <1>1, <1>3, <1>5 DEF Shifted, SameMove, Excused
    <2>2. Findable(m)
        BY <2>1 DEF IInv, Rows
    <2> QED
        BY <1>1, <1>2, <2>2 DEF Findable, Visited
<1>6. ASSUME NEW q \in Req, Moving(q)', NEW d \in req'[q].left, d.id \notin adrift'
      PROVE  /\ row'[d.id].folder = req'[q].target /\ row'[d.id].uid = 0
             /\ Alone(q, d)' /\ Back(d)'
    <2>1. /\ Moving(q) /\ d \in req[q].left /\ req'[q].target = req[q].target
          /\ d.id \in Message /\ row[d.id] # None
        BY <1>3, <1>6, Facts DEF SameMove
    <2>2. /\ row[d.id].folder = req[q].target /\ row[d.id].uid = 0
          /\ Alone(q, d) /\ Back(d)
        BY <1>1, <1>6, <2>1 DEF IInv, Moves
    <2>3. Alone(q, d)' /\ Back(d)'
        BY <1>1, <1>3, <2>2 DEF Alone, SameMove, Back, InPlace, Visited
    <2> QED
        BY <1>2, <2>1, <2>2, <2>3
<1>7. Steady
    BY <1>1, <1>4 DEF Steady
<1>8. Rows' /\ Moves'
    BY <1>5, <1>6 DEF Rows, Moves
<1> QED
    BY <1>7, <1>8 DEF Kept

\* A sighting puts the row where the message is.
LEMMA Sights ==
    ASSUME IInv, NEW u \in pass.batch, IngestOne(u)
    PROVE  \E m \in Message :
              /\ m \in AtUids(pass.folder, {u}) /\ place[m] # None
              /\ row'[m] # None /\ row'[m].folder = place[m].folder
              /\ row'[m].uid = place[m].uid /\ row'[m].seen = (u \in pass.marked)
              /\ \A n \in Message \ {m} : row'[n] = row[n]
              /\ poisoned' = poisoned \ {m}
              /\ adrift' = IF m \in Held THEN adrift \cup {m} ELSE adrift \ {m}
              /\ UNCHANGED <<serverVars, synced, req, settled>>
<1>1. PICK m \in AtUids(pass.folder, {u}) :
          /\ Ingest(m, u) /\ poisoned' = poisoned \ {m}
          /\ adrift' = IF m \in Held THEN adrift \cup {m} ELSE adrift \ {m}
    BY DEF IngestOne
<1>2. /\ m \in Message /\ place[m] # None /\ place[m].folder = pass.folder
      /\ place[m].uid = u
    BY <1>1 DEF AtUids
<1>3. /\ row'[m] = [folder |-> pass.folder, uid |-> u, seen |-> u \in pass.marked]
      /\ \A n \in Message \ {m} : row'[n] = row[n]
    BY <1>1, <1>2 DEF Ingest, IInv, Mirror, Tables
<1>4. row'[m] # None
    <2>1. pass.folder \in Folder /\ u \in Uid
        BY <1>2, Facts DEF Uid
    <2>2. row'[m] \in Mirrored
        BY <1>3, <2>1 DEF Mirrored
    <2> QED
        BY <2>2, Nothing
<1>5. UNCHANGED <<serverVars, synced, req, settled>>
    BY DEF IngestOne, NextDescriptor
<1>6. /\ row'[m].folder = place[m].folder /\ row'[m].uid = place[m].uid
      /\ row'[m].seen = (u \in pass.marked)
    BY <1>2, <1>3
<1> QED
    BY <1>1, <1>2, <1>3, <1>4, <1>5, <1>6

LEMMA IngestKept ==
    ASSUME IInv, NEW u \in pass.batch, IngestOne(u)
    PROVE  Kept
<1>1. PICK m \in Message :
          /\ place[m] # None /\ row'[m] # None /\ row'[m].folder = place[m].folder
          /\ row'[m].uid = place[m].uid
          /\ \A n \in Message \ {m} : row'[n] = row[n]
          /\ poisoned' = poisoned \ {m}
          /\ adrift' = IF m \in Held THEN adrift \cup {m} ELSE adrift \ {m}
          /\ UNCHANGED <<place, synced, req>>
    BY Sights DEF serverVars
<1>2. \A q \in Req : SameMove(q) /\ req'[q] = req[q]
    BY <1>1 DEF SameMove, Moving
<1>3. \A n \in Message \ {m} : Excused(n)' <=> Excused(n)
    BY <1>1 DEF Excused
<1>4. ASSUME NEW n \in Message, Sure(n) PROVE Sure(n)'
    <2>1. CASE n = m
        BY <1>1, <2>1 DEF Sure, Right
    <2>2. CASE n # m
        <3>1. CASE Right(n)
            BY <1>1, <2>2, <3>1 DEF Right, Sure
        <3>2. CASE Original(n)
            BY <1>1, <1>2, <3>2 DEF Original, InPlace, SameMove, Sure
        <3> QED
            BY <1>3, <1>4, <2>2, <3>1, <3>2 DEF Sure
    <2> QED
        BY <2>1, <2>2
<1>5. ASSUME NEW n \in Message, place'[n] # None, ~Excused(n)', ~Shifted(n)'
      PROVE  Findable(n)'
    <2>1. CASE n = m
        BY <1>1, <2>1 DEF Findable
    <2>2. CASE n # m
        <3>1. ~Excused(n) /\ ~Shifted(n) /\ place[n] # None
            BY <1>1, <1>2, <1>3, <1>5, <2>2 DEF Shifted, SameMove
        <3>2. Findable(n)
            BY <3>1 DEF IInv, Rows
        <3> QED
            BY <1>1, <2>2, <3>2 DEF Findable, Visited
    <2> QED
        BY <2>1, <2>2
<1>6. ASSUME NEW q \in Req, Moving(q)', NEW d \in req'[q].left, d.id \notin adrift'
      PROVE  /\ row'[d.id].folder = req'[q].target /\ row'[d.id].uid = 0
             /\ Alone(q, d)' /\ Back(d)'
    <2>1. /\ Moving(q) /\ d \in req[q].left /\ req'[q].target = req[q].target
          /\ d.id \in Message /\ d.id \in Held
        BY <1>2, <1>6, Facts DEF SameMove, Held, Ids
    <2>2. d.id # m /\ d.id \notin adrift
        BY <1>1, <1>6, <2>1
    <2>3. /\ row[d.id].folder = req[q].target /\ row[d.id].uid = 0
          /\ Alone(q, d) /\ Back(d)
        BY <2>1, <2>2 DEF IInv, Moves
    <2>4. Alone(q, d)'
        BY <1>2, <2>3 DEF Alone, SameMove
    <2>5. Back(d)'
        BY <1>1, <2>2, <2>3 DEF Back, InPlace, Visited
    <2> QED
        BY <1>1, <2>1, <2>2, <2>3, <2>4, <2>5
<1>7. Steady
    BY <1>4 DEF Steady
<1>8. Rows' /\ Moves'
    BY <1>5, <1>6 DEF Rows, Moves
<1> QED
    BY <1>7, <1>8 DEF Kept

\* A request that moves its rows: each was where the request found it, or is adrift.
LEMMA ApplyKept ==
    ASSUME IInv, NEW r \in Req, NEW filing \in BOOLEAN, ApplyOptimisticMove(r, filing)
    PROVE  Kept
<1> DEFINE stale(c) == row[c.id].folder # c.folder \/ row[c.id].uid # c.uid
           ours(m) == \E c \in req[r].left : c.id = m
<1>1. /\ req[r].step = "collected" /\ UNCHANGED <<place, poisoned>>
      /\ Visited \subseteq Visited' /\ adrift \subseteq adrift'
      /\ \A c \in req[r].left : stale(c) => c.id \in adrift'
    <2>1. /\ req[r].step = "collected" /\ UNCHANGED <<place, poisoned>>
          /\ synced' = synced \/ synced' = synced \cup {req[r].target}
          /\ adrift' = adrift \cup Ids({c \in req[r].left : stale(c)})
        BY Zenon DEF ApplyOptimisticMove, serverVars, EnableTargetSync
    <2>2. \A c \in req[r].left : stale(c) => c.id \in adrift'
        BY <2>1 DEF Ids
    <2>3. Visited \subseteq Visited'
        BY <2>1 DEF Visited
    <2> QED
        BY <2>1, <2>2, <2>3
<1>2. /\ \A q \in Req \ {r} : req'[q] = req[q]
      /\ req'[r].step = "moved" /\ req'[r].left = req[r].left /\ req'[r].target = req[r].target
    <2>1. req \in [Req -> Call]
        BY DEF IInv, Mirror, Calls
    <2>2. req' = [req EXCEPT ![r].step = "moved"]
        BY Zenon DEF ApplyOptimisticMove
    <2> QED
        BY <2>1, <2>2 DEF Call
<1>3. /\ Moving(r)' /\ ~Moving(r)
      /\ \A q \in Req : Moving(q) => q # r /\ Moving(q)'
      /\ \A q \in Req : q # r /\ Moving(q)' => Moving(q)
      /\ \A q \in Req : req'[q].left = req[q].left /\ req'[q].target = req[q].target
    BY <1>1, <1>2 DEF Moving
<1>4. \A m \in Message :
          /\ ~ours(m) => row'[m] = row[m]
          /\ ours(m) => row'[m].folder = req[r].target /\ row'[m].uid = 0
    <2> SUFFICES ASSUME NEW m \in Message
                 PROVE  /\ ~ours(m) => row'[m] = row[m]
                        /\ ours(m) => row'[m].folder = req[r].target /\ row'[m].uid = 0
        OBVIOUS
    <2>0. row' = [n \in Message |->
                     IF n \in Ids(req[r].left)
                     THEN [row[n] EXCEPT !.folder = req[r].target, !.uid = 0] ELSE row[n]]
        BY Zenon DEF ApplyOptimisticMove
    <2>1. CASE ~ours(m)
        BY <2>0, <2>1, Zenon DEF Ids
    <2>2. CASE ours(m)
        <3>1. row'[m] = [row[m] EXCEPT !.folder = req[r].target, !.uid = 0]
            BY <2>0, <2>2, Zenon DEF Ids
        <3>2. row[m] \in Mirrored
            BY <2>2, Facts
        <3> QED
            BY <2>2, <3>1, <3>2 DEF Mirrored
    <2> QED
        BY <2>1, <2>2
<1>5. ASSUME NEW c \in req[r].left, c.id \notin adrift'
      PROVE  /\ row[c.id].folder = c.folder /\ row[c.id].uid = c.uid /\ c.uid # 0
             /\ row[c.id] # None /\ place[c.id] # None /\ c.id \in Message
             /\ c.id \notin adrift /\ ~Shifted(c.id)
    <2>1. /\ row[c.id].folder = c.folder /\ row[c.id].uid = c.uid /\ c.uid # 0
          /\ row[c.id] # None /\ place[c.id] # None /\ c.id \in Message /\ c.id \notin adrift
        BY <1>1, <1>5, Facts
    <2>2. ASSUME NEW q \in Req, Moving(q), NEW d \in req[q].left, d.id = c.id
          PROVE  FALSE
        BY <2>1, <2>2 DEF IInv, Moves
    <2> QED
        BY <2>1, <2>2 DEF Shifted
<1> HIDE DEF stale, ours
<1>6. ASSUME NEW m \in Message, Sure(m) PROVE Sure(m)'
    <2>1. CASE Excused(m)
        BY <1>1, <2>1 DEF Sure, Excused
    <2>2. CASE Right(m) /\ ~ours(m)
        BY <1>1, <1>4, <2>2 DEF Right, Sure
    <2>3. CASE Right(m) /\ ours(m)
        <3>1. PICK c \in req[r].left : c.id = m
            BY <2>3 DEF ours
        <3>2. CASE m \in adrift'
            BY <3>2 DEF Sure, Excused
        <3>3. CASE m \notin adrift'
            <4>1. place[m].folder = c.folder /\ place[m].uid = c.uid /\ place[m] # None
                BY <1>5, <2>3, <3>1, <3>3 DEF Right
            <4>2. InPlace(c)'
                BY <1>1, <3>1, <4>1, Facts DEF InPlace
            <4> QED
                BY <1>3, <3>1, <4>2 DEF Original, Sure
        <3> QED
            BY <3>2, <3>3
    <2>4. CASE Original(m)
        BY <1>1, <1>3, <2>4 DEF Original, InPlace, Sure
    <2> QED
        BY <1>6, <2>1, <2>2, <2>3, <2>4 DEF Sure
<1>7. ASSUME NEW m \in Message, place'[m] # None, ~Excused(m)', ~Shifted(m)'
      PROVE  Findable(m)'
    <2>1. ~Excused(m) /\ ~Shifted(m) /\ ~ours(m) /\ place[m] # None
        BY <1>1, <1>3, <1>7 DEF Shifted, Excused, ours
    <2>2. Findable(m)
        BY <2>1 DEF IInv, Rows
    <2> QED
        BY <1>1, <1>4, <2>1, <2>2 DEF Findable
<1>8. ASSUME NEW q \in Req, Moving(q)', NEW d \in req'[q].left, d.id \notin adrift'
      PROVE  /\ row'[d.id].folder = req'[q].target /\ row'[d.id].uid = 0
             /\ Alone(q, d)' /\ Back(d)'
    <2>1. d \in req[q].left /\ d.id \in Message
        BY <1>3, <1>8, Facts
    <2>2. CASE q = r
        <3>1. /\ row[d.id].folder = d.folder /\ row[d.id] # None /\ place[d.id] # None
              /\ d.id \notin adrift /\ ~Shifted(d.id)
            BY <1>5, <1>8, <2>1, <2>2
        <3>2. row'[d.id].folder = req'[q].target /\ row'[d.id].uid = 0
            BY <1>3, <1>4, <2>1, <2>2 DEF ours
        <3>3. Alone(q, d)'
            BY <1>3, <2>2, <3>1 DEF Alone, Shifted
        <3>4. d.id \in poisoned \/ Findable(d.id)
            BY <2>1, <3>1 DEF IInv, Rows, Excused
        <3>5. Back(d)'
            BY <1>1, <3>1, <3>4 DEF Findable, Back
        <3> QED
            BY <3>2, <3>3, <3>5
    <2>3. CASE q # r
        <3>1. Moving(q) /\ d.id \notin adrift
            BY <1>1, <1>3, <1>8, <2>3
        <3>2. /\ row[d.id].folder = req[q].target /\ row[d.id].uid = 0
              /\ Alone(q, d) /\ Back(d)
            BY <2>1, <3>1 DEF IInv, Moves
        <3>3. ASSUME NEW c \in req[r].left PROVE c.id # d.id
            BY <1>5, <1>8, <2>1, <3>1, <3>3 DEF Shifted
        <3>4. row'[d.id] = row[d.id]
            BY <1>4, <2>1, <3>3 DEF ours
        <3>5. Alone(q, d)'
            BY <1>3, <3>2, <3>3 DEF Alone
        <3>6. Back(d)'
            BY <1>1, <3>2 DEF Back, InPlace
        <3> QED
            BY <1>3, <3>2, <3>4, <3>5, <3>6
    <2> QED
        BY <2>2, <2>3
<1>9. Steady
    BY <1>6 DEF Steady
<1>10. Rows' /\ Moves'
    BY <1>7, <1>8 DEF Rows, Moves
<1> QED
    BY <1>9, <1>10 DEF Kept

\* A request that puts its rows back: each message is there, or where a pass looks.
LEMMA RevertKept ==
    ASSUME IInv, NEW r \in Req, RevertMove(r)
    PROVE  Kept
<1> DEFINE ours(m) == \E c \in req[r].group : c.id = m
<1>1. /\ Moving(r) /\ UNCHANGED <<place, synced, poisoned, adrift>> /\ Answer(r, "done")
    <2>1. /\ req[r].step = "refused" /\ UNCHANGED <<place, synced, poisoned, adrift>>
          /\ Answer(r, "done")
        BY Zenon DEF RevertMove, serverVars
    <2> QED
        BY <2>1 DEF Moving
<1>2. /\ \A q \in Req \ {r} : req'[q] = req[q]
      /\ req'[r].left = req[r].left \ req[r].group
      /\ Moving(r)' => req'[r].target = req[r].target
      /\ req'[r].left # {} => Moving(r)'
    BY <1>1, AnswersDone DEF IInv, Mirror
<1>3. \A q \in Req : /\ Moving(q)' => Moving(q) /\ req'[q].target = req[q].target
                     /\ \A c \in req'[q].left : c \in req[q].left
    BY <1>1, <1>2 DEF Moving
<1>4. \A q \in Req : \A c \in req[q].left :
          c \in req[r].group \/ (c \in req'[q].left /\ (Moving(q) => Moving(q)'))
    BY <1>2 DEF Moving
<1>5. ASSUME NEW c \in req[r].group
      PROVE  /\ c \in req[r].left /\ c.id \in Message /\ place[c.id] # None
             /\ row'[c.id] # None /\ row'[c.id].folder = c.folder /\ row'[c.id].uid = c.uid
    <2>1. c \in req[r].left /\ c \in Candidate /\ row[c.id] \in Mirrored /\ c.id \in Message
          /\ place[c.id] # None
        BY Facts
    <2>2. \A d \in req[r].group : d.id = c.id => d = c
        BY <2>1, Facts
    <2>3. c = CHOOSE d \in req[r].group : d.id = c.id
        BY <2>2
    <2>4. row' = [m \in Message |->
                     IF m \in Ids(req[r].group)
                     THEN LET d == CHOOSE x \in req[r].group : x.id = m
                          IN [row[m] EXCEPT !.folder = d.folder, !.uid = d.uid]
                     ELSE row[m]]
        BY Zenon DEF RevertMove
    <2>5. c.id \in Ids(req[r].group)
        BY DEF Ids
    <2>6. row'[c.id] = [row[c.id] EXCEPT !.folder = c.folder, !.uid = c.uid]
        BY <2>1, <2>3, <2>4, <2>5, Zenon
    <2>7. row'[c.id] \in Mirrored /\ row'[c.id].folder = c.folder /\ row'[c.id].uid = c.uid
        BY <2>1, <2>6 DEF Mirrored, Candidate
    <2> QED
        BY <2>1, <2>7, Nothing
<1>6. ASSUME NEW m \in Message, ~ours(m)
      PROVE  row'[m] = row[m]
    <2>1. m \notin Ids(req[r].group)
        BY <1>6 DEF Ids
    <2> QED
        BY <2>1, Zenon DEF RevertMove
<1> HIDE DEF ours
<1>7. \A m \in Message : Excused(m)' <=> Excused(m)
    BY <1>1 DEF Excused
<1>8. ASSUME NEW m \in Message, ours(m), m \notin adrift
      PROVE  \E c \in req[r].group :
                /\ c.id = m /\ row[m].uid = 0 /\ Back(c) /\ Alone(r, c)
    BY <1>1, <1>5, <1>8 DEF ours, IInv, Moves
<1>9. ASSUME NEW m \in Message, Sure(m) PROVE Sure(m)'
    <2>1. CASE Excused(m)
        BY <1>7, <2>1 DEF Sure
    <2>2. CASE ~Excused(m) /\ ~ours(m)
        <3>1. CASE Right(m)
            BY <1>1, <1>6, <2>2, <3>1 DEF Right, Sure
        <3>2. ASSUME NEW q \in Req, Moving(q), NEW d \in req[q].left, d.id = m, InPlace(d)
              PROVE  Sure(m)'
            <4>1. d \in req'[q].left /\ Moving(q)'
                BY <1>4, <2>2, <3>2 DEF ours
            <4> QED
                BY <1>1, <3>2, <4>1 DEF Original, InPlace, Sure
        <3> QED
            BY <1>9, <2>2, <3>1, <3>2 DEF Sure, Original
    <2>3. CASE ~Excused(m) /\ ours(m)
        <3>1. PICK c \in req[r].group : c.id = m /\ row[m].uid = 0 /\ Back(c) /\ Alone(r, c)
            BY <1>8, <2>3 DEF Excused
        <3>2. place[m] # None /\ place[m].uid # 0
            BY <1>5, <3>1, Facts
        <3>3. ~Right(m)
            BY <3>1, <3>2 DEF Right
        <3>4. PICK q \in Req : Moving(q) /\ \E d \in req[q].left : d.id = m /\ InPlace(d)
            BY <1>9, <2>3, <3>3 DEF Sure, Original
        <3>5. PICK d \in req[q].left : d.id = m /\ InPlace(d)
            BY <3>4
        <3>6. q = r
            BY <3>1, <3>4, <3>5 DEF Alone
        <3>7. d = c
            BY <1>5, <3>1, <3>5, <3>6, Facts
        <3>8. place[m].folder = c.folder /\ place[m].uid = c.uid
            BY <3>5, <3>7 DEF InPlace
        <3> QED
            BY <1>1, <1>5, <3>1, <3>8 DEF Right, Sure
    <2> QED
        BY <2>1, <2>2, <2>3
<1>10. ASSUME NEW m \in Message, place'[m] # None, ~Excused(m)', ~Shifted(m)'
       PROVE  Findable(m)'
    <2>1. ~Excused(m) /\ m \notin adrift /\ m \notin poisoned /\ place[m] # None
        BY <1>1, <1>10 DEF Excused
    <2>2. CASE ours(m)
        <3>1. PICK c \in req[r].group : c.id = m /\ Back(c)
            BY <1>8, <2>1, <2>2
        <3> QED
            BY <1>1, <1>5, <2>1, <3>1 DEF Back, InPlace, Findable, Visited
    <2>3. CASE ~ours(m)
        <3>1. ~Shifted(m)
            BY <1>4, <1>10, <2>3 DEF Shifted, ours
        <3>2. Findable(m)
            BY <2>1, <3>1 DEF IInv, Rows
        <3> QED
            BY <1>1, <1>6, <2>3, <3>2 DEF Findable, Visited
    <2> QED
        BY <2>2, <2>3
<1>11. ASSUME NEW q \in Req, Moving(q)', NEW d \in req'[q].left, d.id \notin adrift'
       PROVE  /\ row'[d.id].folder = req'[q].target /\ row'[d.id].uid = 0
              /\ Alone(q, d)' /\ Back(d)'
    <2>1. /\ Moving(q) /\ d \in req[q].left /\ req'[q].target = req[q].target
          /\ d.id \notin adrift /\ d.id \in Message
        BY <1>1, <1>3, <1>11, Facts
    <2>2. /\ row[d.id].folder = req[q].target /\ row[d.id].uid = 0
          /\ Alone(q, d) /\ Back(d)
        BY <2>1 DEF IInv, Moves
    <2>3. Alone(q, d)'
        BY <1>3, <2>2 DEF Alone
    <2>4. ~ours(d.id)
        <3>1. SUFFICES ASSUME NEW c \in req[r].group, c.id = d.id PROVE FALSE
            BY DEF ours
        <3>2. CASE q = r
            BY <1>2, <1>5, <1>11, <2>1, <3>1, <3>2, Facts
        <3>3. CASE q # r
            BY <1>1, <1>5, <2>2, <3>1, <3>3 DEF Alone
        <3> QED
            BY <3>2, <3>3
    <2>5. row'[d.id] = row[d.id]
        BY <1>6, <2>1, <2>4
    <2>6. Back(d)'
        BY <1>1, <2>2 DEF Back, InPlace, Visited
    <2> QED
        BY <2>1, <2>2, <2>3, <2>5, <2>6
<1>12. Steady
    BY <1>9 DEF Steady
<1>13. Rows' /\ Moves'
    BY <1>10, <1>11 DEF Rows, Moves
<1> QED
    BY <1>12, <1>13 DEF Kept

\* Requests that end or lose a group with their rows where they are leave it adrift.
LEMMA AbandonedKept ==
    ASSUME IInv, UNCHANGED <<place, row, synced, poisoned>>, adrift \subseteq adrift',
           \A q \in Req : /\ Moving(q)' => Moving(q) /\ req'[q].target = req[q].target
                          /\ \A c \in req'[q].left : c \in req[q].left,
           \A q \in Req : Moving(q) =>
              \A c \in req[q].left : c.id \in adrift' \/ (Moving(q)' /\ c \in req'[q].left)
    PROVE  Kept
<1>1. \A m \in Message : Excused(m) => Excused(m)'
    BY DEF Excused
<1>2. ASSUME NEW m \in Message, Sure(m) PROVE Sure(m)'
    <2>1. CASE Right(m)
        BY <2>1 DEF Right, Sure
    <2>2. CASE Original(m)
        BY <2>2 DEF Original, InPlace, Sure, Excused
    <2> QED
        BY <1>1, <1>2, <2>1, <2>2 DEF Sure
<1>3. ASSUME NEW m \in Message, place'[m] # None, ~Excused(m)', ~Shifted(m)'
      PROVE  Findable(m)'
    <2>1. ~Excused(m) /\ ~Shifted(m)
        BY <1>1, <1>3 DEF Shifted, Excused
    <2>2. Findable(m)
        BY <1>3, <2>1 DEF IInv, Rows
    <2> QED
        BY <2>2 DEF Findable, Visited
<1>4. ASSUME NEW q \in Req, Moving(q)', NEW d \in req'[q].left, d.id \notin adrift'
      PROVE  /\ row'[d.id].folder = req'[q].target /\ row'[d.id].uid = 0
             /\ Alone(q, d)' /\ Back(d)'
    <2>1. /\ Moving(q) /\ d \in req[q].left /\ req'[q].target = req[q].target
          /\ d.id \notin adrift
        BY <1>4
    <2>2. /\ row[d.id].folder = req[q].target /\ row[d.id].uid = 0
          /\ Alone(q, d) /\ Back(d)
        BY <2>1 DEF IInv, Moves
    <2>3. Alone(q, d)'
        BY <2>2 DEF Alone
    <2>4. Back(d)'
        BY <2>2 DEF Back, InPlace, Visited
    <2> QED
        BY <2>1, <2>2, <2>3, <2>4
<1>5. Steady
    BY <1>2 DEF Steady
<1>6. Rows' /\ Moves'
    BY <1>3, <1>4 DEF Rows, Moves
<1> QED
    BY <1>5, <1>6 DEF Kept

\* The steps that move no message, no row and no request.
LEMMA CalmSteps ==
    ASSUME IInv,
           \/ \E m \in Message : OtherClientFlags(m) \/ MarkRead(m)
           \/ TaskRefused \/ BeginPass \/ Wake \/ Restart \/ Teardown
           \/ FetchNewer \/ SaveCursor \/ FetchFlags \/ ReconcileFlags \/ EndPass
           \/ \E u \in pass.batch : MessageVanished(u) \/ SkipPoison(u)
           \/ Stop \/ PassFails
           \/ \E r \in Req, t \in Folder, ms \in SUBSET Message : Collect(r, t, ms)
           \/ \E r \in Req, f \in Folder : QueueMove(r, f)
           \/ UNCHANGED vars
    PROVE  Calm
<1>1. Tables /\ Calls /\ Queued
    BY DEF IInv, Mirror
<1>2. ASSUME UNCHANGED <<place, row, req, synced, adrift>>, poisoned \subseteq poisoned'
      PROVE  Calm
    BY <1>2 DEF Calm, Grows, SameSpot, SameMove, Moving
<1>3. ASSUME UNCHANGED <<place, req, synced, adrift, poisoned>>, \A m \in Message : SameSpot(m)
      PROVE  Calm
    BY <1>3 DEF Calm, Grows, SameMove, Moving
<1>4. ASSUME UNCHANGED <<place, row, synced, adrift, poisoned>>, \A q \in Req : SameMove(q)
      PROVE  Calm
    BY <1>4 DEF Calm, Grows, SameSpot
<1>5. ASSUME NEW m \in Message, OtherClientFlags(m) PROVE Calm
    BY <1>2, <1>5 DEF OtherClientFlags, Event
<1>6. ASSUME NEW m \in Message, MarkRead(m) PROVE Calm
    <2>1. row[m] \in Mirrored /\ row' = [row EXCEPT ![m].seen = TRUE]
        BY <1>1, <1>6 DEF MarkRead, Tables
    <2>2. row'[m] \in Mirrored /\ row'[m].folder = row[m].folder /\ row'[m].uid = row[m].uid
        BY <1>1, <2>1 DEF Tables, Mirrored
    <2>3. \A n \in Message : SameSpot(n)
        BY <1>1, <2>1, <2>2, Nothing DEF SameSpot, Tables
    <2> QED
        BY <1>3, <1>6, <2>3 DEF MarkRead, serverVars
<1>7. CASE TaskRefused
    <2>1. PICK r : r = Head(queue).req /\ Answer(r, "refused") /\ queue # <<>>
        BY <1>7 DEF TaskRefused, Shift
    <2>2. r \in Req \cup {None} /\ (r # None => req[r].step = "waiting")
        BY <1>1, <2>1, HeadTask
    <2>3. ASSUME r # None PROVE \A q \in Req : SameMove(q)
        <3>1. r \in Req /\ req[r] \in Call
            BY <1>1, <2>2, <2>3 DEF Calls
        <3>2. req'[r] = [req[r] EXCEPT !.step = "refused"] /\ \A q \in Req \ {r} : req'[q] = req[q]
            BY <1>1, <2>1, <2>3, <3>1 DEF Answer, Calls
        <3> QED
            BY <2>2, <2>3, <3>1, <3>2 DEF Call, SameMove, Moving
    <2>4. ASSUME r = None PROVE \A q \in Req : SameMove(q)
        BY <2>1, <2>4 DEF Answer, SameMove, Moving
    <2> QED
        BY <1>4, <1>7, <2>3, <2>4 DEF TaskRefused, Shift, serverVars
<1>8. CASE Teardown
    <2>1. req' = [r \in Req |->
                     IF req[r].step = "free" THEN NoReq
                     ELSE [req[r] EXCEPT !.stopped = TRUE,
                                         !.step = IF r \in {queue[i].req : i \in DOMAIN queue}
                                                  THEN "refused" ELSE @]]
        BY <1>8, Zenon DEF Teardown, RejectQueue
    <2>2. ASSUME NEW r \in Req, r \in {queue[i].req : i \in DOMAIN queue}
          PROVE  req[r].step = "waiting"
        <3>1. PICK i \in 1..Len(queue) : r = queue[i].req
            BY <1>1, <2>2, LenProperties DEF Calls
        <3>2. r # None
            BY MailAssumption
        <3> QED
            BY <1>1, <3>1, <3>2 DEF Queued, Awaited
    <2>3. ASSUME NEW r \in Req PROVE SameMove(r)
        <3>1. req[r] \in Call
            BY <1>1 DEF Calls
        <3>2. CASE req[r].step = "free"
            <4>1. req'[r] = NoReq
                BY <2>1, <3>2, Zenon
            <4> QED
                BY <3>2, <4>1, NoReqIsCall DEF SameMove, Moving
        <3>3. CASE req[r].step # "free"
            <4> DEFINE step == IF r \in {queue[i].req : i \in DOMAIN queue} THEN "refused"
                               ELSE req[r].step
            <4>1. step = req[r].step \/ (step = "refused" /\ req[r].step = "waiting")
                BY <2>2
            <4>2. req'[r] = [req[r] EXCEPT !.stopped = TRUE, !.step = step]
                BY <2>1, <3>3, Zenon
            <4> HIDE DEF step
            <4> QED
                BY <3>1, <3>3, <4>1, <4>2 DEF Call, SameMove, Moving
        <3> QED
            BY <3>2, <3>3
    <2> QED
        BY <1>4, <1>8, <2>3 DEF Teardown, serverVars
<1>9. CASE BeginPass \/ Wake \/ Restart \/ FetchNewer \/ SaveCursor \/ FetchFlags \/ EndPass
           \/ Stop \/ PassFails
    BY <1>2, <1>9 DEF BeginPass, Wake, Restart, FetchNewer, SaveCursor, FetchFlags, EndPass, Stop,
                      PassFails, serverVars, history
<1>10. CASE ReconcileFlags
    <2>1. ASSUME NEW m \in Message PROVE SameSpot(m)
        <3>1. \/ row'[m] = row[m]
              \/ /\ row[m] # None
                 /\ row'[m] = [row[m] EXCEPT !.seen = row[m].uid \in pass.marked]
            BY <1>10 DEF ReconcileFlags
        <3>2. CASE /\ row[m] # None
                   /\ row'[m] = [row[m] EXCEPT !.seen = row[m].uid \in pass.marked]
            <4> DEFINE seen == row[m].uid \in pass.marked
            <4>1. row[m] \in Mirrored /\ seen \in BOOLEAN
                  /\ row'[m] = [row[m] EXCEPT !.seen = seen]
                BY <1>1, <3>2 DEF Tables
            <4> HIDE DEF seen
            <4>2. row'[m] \in Mirrored /\ row'[m].folder = row[m].folder
                  /\ row'[m].uid = row[m].uid
                BY <4>1 DEF Mirrored
            <4> QED
                BY <3>2, <4>2, Nothing DEF SameSpot
        <3> QED
            BY <3>1, <3>2 DEF SameSpot
    <2> QED
        BY <1>3, <1>10, <2>1 DEF ReconcileFlags, serverVars, history
<1>11. ASSUME NEW u \in pass.batch, MessageVanished(u) \/ SkipPoison(u) PROVE Calm
    <2>1. UNCHANGED <<place, row, req, synced, adrift>>
        BY <1>11, Zenon DEF MessageVanished, SkipPoison, NextDescriptor, serverVars, history
    <2>2. poisoned \subseteq poisoned'
        BY <1>11 DEF MessageVanished, SkipPoison, history
    <2> QED
        BY <1>2, <2>1, <2>2
<1>12. ASSUME NEW r \in Req, NEW t \in Folder, NEW ms \in SUBSET Message, Collect(r, t, ms)
       PROVE  Calm
    <2>1. /\ req'[r].step = "collected" /\ req[r].step = "free"
          /\ \A q \in Req \ {r} : req'[q] = req[q]
        BY <1>1, <1>12, Collects
    <2>2. \A q \in Req : SameMove(q)
        BY <2>1 DEF SameMove, Moving
    <2>3. UNCHANGED <<place, row, synced, adrift, poisoned>>
        BY <1>12, Zenon DEF Collect, serverVars, history
    <2> QED
        BY <1>4, <2>2, <2>3
<1>13. ASSUME NEW r \in Req, NEW f \in Folder, QueueMove(r, f) PROVE Calm
    <2> DEFINE group == {c \in req[r].left : c.folder = f}
    <2>1. PICK step \in {"refused", "waiting"} :
              req' = [req EXCEPT ![r].group = group, ![r].step = step]
        BY <1>13 DEF QueueMove, GroupForQueue
    <2>2. req[r] \in Call /\ req[r].step = "moved" /\ group \subseteq Candidate
        BY <1>1, <1>13 DEF Calls, Call, QueueMove
    <2> HIDE DEF group
    <2>3. /\ req'[r] = [req[r] EXCEPT !.group = group, !.step = step]
          /\ \A q \in Req \ {r} : req'[q] = req[q]
        BY <1>1, <2>1 DEF Calls
    <2>4. /\ req'[r].left = req[r].left /\ req'[r].target = req[r].target
          /\ req'[r].step = step
        BY <2>2, <2>3 DEF Call
    <2>5. \A q \in Req : SameMove(q)
        BY <2>2, <2>3, <2>4 DEF SameMove, Moving
    <2> QED
        BY <1>4, <1>13, <2>5 DEF QueueMove, serverVars, history
<1>14. CASE UNCHANGED vars
    BY <1>2, <1>14 DEF vars, serverVars, history
<1> QED
    BY <1>5, <1>6, <1>7, <1>8, <1>9, <1>10, <1>11, <1>12, <1>13, <1>14

\* Every step keeps what the rows say, and what the requests hold.
LEMMA StepKept ==
    ASSUME IInv, [Next]_vars
    PROVE  Kept
<1>1. Calls
    BY DEF IInv, Mirror
<1>2. ASSUME NEW f \in Folder, OpenFolder(f) PROVE Kept
    BY <1>2, OpenFolderKept
<1>3. ASSUME NEW u \in pass.batch, IngestOne(u) PROVE Kept
    BY <1>3, IngestKept
<1>4. ASSUME NEW r \in Req, RevertFails(r) PROVE Kept
    <2>1. /\ Answer(r, "done") /\ adrift' = adrift \cup Ids(req[r].group)
          /\ Moving(r) /\ UNCHANGED <<place, row, synced, poisoned>>
        BY <1>4 DEF RevertFails, Moving, serverVars
    <2>2. /\ \A q \in Req \ {r} : req'[q] = req[q]
          /\ req'[r].left = req[r].left \ req[r].group
          /\ Moving(r)' => req'[r].target = req[r].target
          /\ req'[r].left # {} => Moving(r)'
        BY <1>1, <2>1, AnswersDone
    <2>3. \A q \in Req : /\ Moving(q)' => Moving(q) /\ req'[q].target = req[q].target
                         /\ \A c \in req'[q].left : c \in req[q].left
        BY <2>1, <2>2 DEF Moving
    <2>4. \A q \in Req : Moving(q) =>
              \A c \in req[q].left : c.id \in adrift' \/ (Moving(q)' /\ c \in req'[q].left)
        BY <2>1, <2>2 DEF Moving, Ids
    <2> QED
        BY <2>1, <2>3, <2>4, AbandonedKept
<1>5. CASE Crash
    <2>1. /\ adrift' = adrift \cup UNION {Ids(req[q].left) : q \in {p \in Req : req[p].step # "collected"}}
          /\ req' = [q \in Req |-> NoReq] /\ UNCHANGED <<place, row, synced, poisoned>>
        BY <1>5 DEF Crash, serverVars
    <2>2. \A q \in Req : ~Moving(q)' /\ req'[q].left = {}
        BY <2>1, NoReqIsCall DEF Moving
    <2>3. \A q \in Req : Moving(q) => \A c \in req[q].left : c.id \in adrift'
        BY <2>1 DEF Moving, Ids
    <2> QED
        BY <2>1, <2>2, <2>3, AbandonedKept
<1>6. ASSUME NEW r \in Req, Request(r) PROVE Kept
    BY <1>4, <1>6, ApplyKept, RevertKept, CalmSteps, CalmKept DEF Request
<1>7. CASE Between
    BY <1>7, RunTaskKept, TaskAnswerLostKept, CalmSteps, CalmKept DEF Between
<1>8. CASE InPass
    BY <1>2, <1>3, <1>8, CalmSteps, CalmKept DEF InPass
<1>9. CASE Environment
    <2>1. CASE \/ \E m \in Message : Arrive(m) \/ \E f \in Folder : OtherClientMoves(m, f)
               \/ \E f \in Folder : Renumber(f)
               \/ \E f \in Other : SetFolderSyncEnabled(f)
        BY <2>1, EventKept
    <2>2. CASE \/ \E m \in Message : OtherClientFlags(m) \/ MarkRead(m)
               \/ \E r \in Req, t \in Folder, ms \in SUBSET Message : Collect(r, t, ms)
               \/ Stop \/ PassFails
        BY <2>2, CalmSteps, CalmKept
    <2> QED
        BY <1>5, <1>9, <2>1, <2>2 DEF Environment
<1>10. CASE UNCHANGED vars
    BY <1>10, CalmSteps, CalmKept
<1> QED
    BY <1>6, <1>7, <1>8, <1>9, <1>10 DEF Next, Loop

\* A request is free when there is nothing left of it.
LEMMA StepFree ==
    ASSUME IInv, [Next]_vars, NEW q \in Req, req'[q].step = "free"
    PROVE  req'[q] = NoReq
<1>1. Calls /\ Asked /\ Queued /\ Tables /\ (req[q].step = "free" => req[q] = NoReq)
      /\ req \in [Req -> Call]
    BY DEF IInv, Mirror, Holding, Calls
<1>2. ASSUME req'[q] = req[q] PROVE req'[q] = NoReq
    BY <1>1, <1>2
<1>3. ASSUME NEW r \in Req \cup {None}, NEW step \in {"done", "refused"}, Answer(r, step)
      PROVE  req'[q] = NoReq
    <2>1. CASE r = None \/ q # r
        BY <1>1, <1>2, <1>3, <2>1 DEF Answer
    <2>2. CASE r # None /\ q = r /\ step = "refused"
        <3>1. req' = [req EXCEPT ![r] = [req[r] EXCEPT !.step = "refused"]] /\ req[r] \in Call
            BY <1>1, <1>3, <2>2 DEF Answer
        <3>2. req'[r].step = "refused"
            BY <1>1, <2>2, <3>1 DEF Call
        <3> QED
            BY <2>2, <3>2
    <2>3. CASE r # None /\ q = r /\ step = "done"
        <3>1. req'[r] = DoneWithGroup(r) /\ req[r] \in Call
            BY <1>1, <1>3, <2>3 DEF Answer
        <3>2. CASE req[r].left = req[r].group
            BY <2>3, <3>1, <3>2 DEF DoneWithGroup
        <3>3. CASE req[r].left # req[r].group
            <4>1. req'[r] = [req[r] EXCEPT !.step = "moved", !.left = req[r].left \ req[r].group,
                                           !.group = {}]
                BY <3>1, <3>3 DEF DoneWithGroup
            <4>2. req'[r].step = "moved"
                BY <3>1, <4>1 DEF Call
            <4> QED
                BY <2>3, <4>2
        <3> QED
            BY <3>2, <3>3
    <2> QED
        BY <1>3, <2>1, <2>2, <2>3
<1>4. CASE RunTask \/ TaskRefused \/ TaskAnswerLost
    <2>1. queue # <<>> /\ \E step \in {"done", "refused"} : Answer(Head(queue).req, step)
        BY <1>4 DEF RunTask, TaskRefused, TaskAnswerLost, Shift
    <2>2. Head(queue).req \in Req \cup {None}
        BY <1>1, <2>1, HeadTask
    <2> QED
        BY <1>3, <2>1, <2>2
<1>5. CASE Teardown
    <2>1. req' = [r \in Req |->
                     IF req[r].step = "free" THEN NoReq
                     ELSE [req[r] EXCEPT !.stopped = TRUE,
                                         !.step = IF r \in {queue[i].req : i \in DOMAIN queue}
                                                  THEN "refused" ELSE @]]
        BY <1>5, Zenon DEF Teardown, RejectQueue
    <2>2. CASE req[q].step = "free"
        BY <2>1, <2>2, Zenon
    <2>3. CASE req[q].step # "free"
        <3>1. PICK step \in {req[q].step, "refused"} :
                  req'[q] = [req[q] EXCEPT !.stopped = TRUE, !.step = step]
            BY <2>1, <2>3, Zenon
        <3>2. req'[q].step = step /\ req[q] \in Call
            BY <1>1, <3>1 DEF Call
        <3> QED
            BY <2>3, <3>1, <3>2
    <2> QED
        BY <2>2, <2>3
<1>6. CASE Crash
    BY <1>6 DEF Crash
<1>7. ASSUME NEW r \in Req, NEW t \in Folder, NEW ms \in SUBSET Message, Collect(r, t, ms)
      PROVE  req'[q] = NoReq
    <2>1. req'[r].step = "collected" /\ \A p \in Req \ {r} : req'[p] = req[p]
        BY <1>1, <1>7, Collects
    <2> QED
        BY <1>2, <2>1
<1>8. ASSUME NEW r \in Req, NEW filing \in BOOLEAN, ApplyOptimisticMove(r, filing)
      PROVE  req'[q] = NoReq
    <2>1. req' = [req EXCEPT ![r].step = "moved"]
        BY <1>8, Zenon DEF ApplyOptimisticMove
    <2>2. req'[r].step = "moved" /\ \A p \in Req \ {r} : req'[p] = req[p]
        BY <1>1, <2>1 DEF Call
    <2> QED
        BY <1>2, <2>2
<1>9. ASSUME NEW r \in Req, NEW f \in Folder, QueueMove(r, f) PROVE req'[q] = NoReq
    <2> DEFINE group == {c \in req[r].left : c.folder = f}
    <2>1. PICK step \in {"refused", "waiting"} :
              req' = [req EXCEPT ![r].group = group, ![r].step = step]
        BY <1>9 DEF QueueMove, GroupForQueue
    <2>2. req[r] \in Call /\ group \subseteq Candidate
        BY <1>1 DEF Call
    <2> HIDE DEF group
    <2>3. req'[r].step = step /\ \A p \in Req \ {r} : req'[p] = req[p]
        BY <1>1, <2>1, <2>2 DEF Call
    <2> QED
        BY <1>2, <2>3
<1>10. ASSUME NEW r \in Req, Request(r) PROVE req'[q] = NoReq
    BY <1>3, <1>8, <1>9, <1>10 DEF Request, RevertMove, RevertFails
<1>11. ASSUME EventKeeps PROVE req'[q] = NoReq
    BY <1>2, <1>11 DEF EventKeeps, calls
<1>12. CASE \/ BeginPass \/ Wake \/ Restart \/ Stop \/ PassFails
            \/ \E m \in Message : MarkRead(m)
    BY <1>2, <1>12 DEF BeginPass, Wake, Restart, Stop, PassFails, MarkRead
<1>13. CASE InPass
    BY <1>2, <1>13 DEF InPass, OpenFolder, FetchNewer, IngestOne, MessageVanished, SkipPoison,
                       NextDescriptor, SaveCursor, FetchFlags, ReconcileFlags, EndPass
<1>14. CASE UNCHANGED vars
    BY <1>2, <1>14 DEF vars
<1>15. CASE Environment
    BY <1>6, <1>7, <1>11, <1>12, <1>15, EventsKeep DEF Environment
<1>16. CASE Between
    BY <1>4, <1>5, <1>12, <1>16 DEF Between
<1> QED
    BY <1>10, <1>13, <1>14, <1>15, <1>16 DEF Next, Loop

\* What is in the mailbox stays in it, and a row is made of what is.
LEMMA StepPresent ==
    ASSUME IInv, [Next]_vars, NEW m \in Message
    PROVE  /\ place[m] # None => place'[m] # None
           /\ row'[m] # None => row[m] # None \/ place[m] # None
<1> DEFINE Goal == /\ place[m] # None => place'[m] # None
                   /\ row'[m] # None => row[m] # None \/ place[m] # None
<1>1. ASSUME Calm PROVE Goal
    BY <1>1 DEF Calm, SameSpot
<1>2. ASSUME NEW n \in Message, NEW f \in Folder, PutAt({n}, f),
             UNCHANGED <<validity, flag, row>>
      PROVE  Goal
    <2>1. {n} \in SUBSET Message /\ Apart({n}) /\ Server /\ flag' \subseteq Message
        BY <1>2 DEF Apart, IInv, Server
    <2>2. /\ \A k \in Message \ {n} : place'[k] = place[k]
          /\ Placed(n, f)'
        BY <1>2, <2>1, Puts
    <2> QED
        BY <1>2, <2>2 DEF Placed
<1>3. ASSUME NEW n \in Message, Arrive(n) PROVE Goal
    BY <1>2, <1>3 DEF Arrive, Folder
<1>4. ASSUME NEW n \in Message, NEW f \in Folder, OtherClientMoves(n, f) PROVE Goal
    BY <1>2, <1>4 DEF OtherClientMoves
<1>5. ASSUME NEW f \in Folder, Renumber(f) PROVE Goal
    <2> DEFINE ms == AtUids(f, UidsOf(f))
    <2>1. PICK new \in [ms -> 1..Cardinality(ms)] :
              place' = [n \in Message |->
                           IF n \in ms THEN [folder |-> f, uid |-> new[n]] ELSE place[n]]
        BY <1>5 DEF Renumber
    <2>2. ms \subseteq Message /\ Cardinality(ms) \in Nat
        <3>1. IsFiniteSet(ms)
            BY MailAssumption, FS_Subset DEF AtUids
        <3> QED
            BY <3>1, FS_CardinalityType DEF AtUids
    <2> HIDE DEF ms
    <2>3. \A n \in ms : new[n] \in Uid
        BY <2>1, <2>2 DEF Uid
    <2>4. UNCHANGED row
        BY <1>5 DEF Renumber
    <2> QED
        BY <2>1, <2>2, <2>3, <2>4, MailAssumption
<1>6. ASSUME NEW f \in Other, SetFolderSyncEnabled(f) PROVE Goal
    BY <1>6 DEF SetFolderSyncEnabled, serverVars
<1>7. CASE RunTask \/ TaskAnswerLost
    <2>1. queue # <<>> /\ ServerDoes(Head(queue)) /\ UNCHANGED row
        BY <1>7 DEF RunTask, TaskAnswerLost, Shift
    <2> QED
        BY <2>1, TaskMoves
<1>8. ASSUME NEW f \in Folder, OpenFolder(f) PROVE Goal
    BY <1>8 DEF OpenFolder, serverVars
<1>9. ASSUME NEW u \in pass.batch, IngestOne(u) PROVE Goal
    BY <1>9, Sights DEF serverVars
<1>10. ASSUME NEW r \in Req, \/ \E filing \in BOOLEAN : ApplyOptimisticMove(r, filing)
                             \/ RevertMove(r)
       PROVE  Goal
    <2>1. place' = place
        BY <1>10, Zenon DEF ApplyOptimisticMove, RevertMove, serverVars
    <2>2. row'[m] = row[m] \/ m \in Ids(req[r].left)
        <3>1. Ids(req[r].group) \subseteq Ids(req[r].left)
            BY Facts DEF Ids
        <3>2. row'[m] = row[m] \/ m \in Ids(req[r].left) \/ m \in Ids(req[r].group)
            BY <1>10, Zenon DEF ApplyOptimisticMove, RevertMove
        <3> QED
            BY <3>1, <3>2
    <2>3. m \in Ids(req[r].left) => row[m] # None
        BY Facts DEF Ids
    <2> QED
        BY <2>1, <2>2, <2>3
<1>11. CASE Crash \/ \E r \in Req : RevertFails(r)
    BY <1>11 DEF Crash, RevertFails, serverVars
<1>12. ASSUME NEW r \in Req, Request(r) PROVE Goal
    BY <1>1, <1>10, <1>11, <1>12, CalmSteps DEF Request
<1>13. CASE Between
    BY <1>1, <1>7, <1>13, CalmSteps DEF Between
<1>14. CASE InPass
    BY <1>1, <1>8, <1>9, <1>14, CalmSteps DEF InPass
<1>15. CASE Environment
    BY <1>1, <1>3, <1>4, <1>5, <1>6, <1>11, <1>15, CalmSteps DEF Environment
<1>16. CASE UNCHANGED vars
    BY <1>1, <1>16, CalmSteps
<1> QED
    BY <1>12, <1>13, <1>14, <1>15, <1>16 DEF Next, Loop

\* Every step keeps what is said of what the requests hold.
LEMMA StepHolding ==
    ASSUME IInv, [Next]_vars
    PROVE  Holding'
<1>1. ASSUME NEW r \in Req
      PROVE  /\ \A c, d \in req'[r].left : c.id = d.id => c = d
             /\ \A c \in req'[r].left : c.uid # 0
    <2>1. req' \in [Req -> Call] /\ Calls /\ Tables
        BY StepRequests DEF IInv, Mirror
    <2>2. CASE Shrinks(r)
        BY <2>2, Facts DEF Shrinks
    <2>3. ASSUME NEW t \in Folder, NEW ms \in SUBSET Message, Collect(r, t, ms)
          PROVE  /\ \A c, d \in req'[r].left : c.id = d.id => c = d
                 /\ \A c \in req'[r].left : c.uid # 0
        <3>1. \A c \in req'[r].left :
                  /\ c = [id |-> c.id, folder |-> row[c.id].folder, uid |-> row[c.id].uid]
                  /\ c.uid # 0
            <4>1. \A c \in req'[r].left : c \in Candidate
                BY <2>1 DEF Call
            <4>2. \A c \in req'[r].left :
                      row[c.id].uid # 0 /\ c.folder = row[c.id].folder /\ c.uid = row[c.id].uid
                BY <2>1, <2>3, Collects
            <4> QED
                BY <4>1, <4>2 DEF Candidate
        <3> QED
            BY <3>1
    <2> QED
        BY <2>2, <2>3, StepRequests
<1>2. \A m \in Message : row'[m] # None => place'[m] # None
    BY StepPresent, Facts
<1> QED
    BY <1>1, <1>2, StepFree DEF Holding

\* What is accounted for stays so, if the server leaves it in folder f.
Keeps(f) ==
    \A m \in Message :
        Placed(m, f) /\ place'[m] = place[m] /\ Accounted(m) => Accounted(m)'

\* It does stay so, unless the UIDs of the folder are dropped.
LEMMA StepKeeps ==
    ASSUME IInv, [Next]_vars, NEW f \in Folder
    PROVE  Keeps(f) \/ Resets(f)
<1>1. Remembers /\ Steady
    BY StepTables, StepKept DEF Kept
<1> SUFFICES ASSUME NEW m \in Message, Placed(m, f), place'[m] = place[m], Accounted(m),
                    ~Resets(f)
             PROVE  Accounted(m)'
    BY DEF Keeps
<1>2. Sure(m)'
    BY <1>1 DEF Steady, Placed, Accounted
<1>3. Recorded(m)'
    BY <1>1 DEF Remembers, Accounted
<1> QED
    BY <1>2, <1>3 DEF Accounted

-----------------------------------------------------------------------------
\* What is recorded up to a UID, after the step.
UpToNext(f, u) ==
    \A m \in Message :
        place'[m] # None /\ place'[m].folder = f /\ place'[m].uid <= u => Accounted(m)'

\* What is recorded up to a UID stays so while the folder goes on.
LEMMA UpToStays ==
    ASSUME Server, Server', NEW f \in Folder, Keeps(f), Runs(f), NEW u \in Nat, u < next[f],
           UpTo(f, u)
    PROVE  UpToNext(f, u) /\ u < next'[f]
<1> SUFFICES ASSUME NEW m \in Message, place'[m] # None, place'[m].folder = f,
                    place'[m].uid <= u
             PROVE  Accounted(m)'
    BY DEF UpToNext, Runs, Server, Uid
<1>1. next[f] \in Nat /\ place'[m].uid \in Nat
    BY DEF Server, Spot, Uid
<1>2. place'[m] = place[m]
    BY <1>1 DEF Runs
<1>3. Accounted(m) /\ Placed(m, f)
    BY <1>2 DEF UpTo, Placed
<1> QED
    BY <1>2, <1>3 DEF Keeps

\* What is said of a cursor is so after the step.
CursorNext(f) ==
    cursor'[f] # None =>
        /\ cursor'[f].validity <= validity'[f]
        /\ cursor'[f].validity = validity'[f] =>
              cursor'[f].last < next'[f] /\ UpToNext(f, cursor'[f].last)

\* A cursor that is not written.
LEMMA CursorStays ==
    ASSUME IInv, Server', Evolves, NEW f \in Folder, Keeps(f), cursor'[f] = cursor[f]
    PROVE  CursorNext(f)
<1> SUFFICES ASSUME cursor[f] # None PROVE CursorNext(f)
    BY DEF CursorNext
<1>1. /\ cursor[f].validity \in Nat /\ cursor[f].last \in Nat /\ validity[f] \in Nat
      /\ validity'[f] \in Nat
    BY DEF IInv, Server, Mirror, Tables, Cursor, Uid
<1>2. /\ cursor[f].validity <= validity[f]
      /\ cursor[f].validity = validity[f] =>
            cursor[f].last < next[f] /\ UpTo(f, cursor[f].last)
    BY DEF IInv, Cursors
<1>3. CASE validity'[f] = validity[f] + 1
    BY <1>1, <1>2, <1>3 DEF CursorNext
<1>4. CASE Runs(f)
    <2>1. validity'[f] = validity[f]
        BY <1>4 DEF Runs
    <2>2. ASSUME cursor[f].validity = validity[f]
          PROVE  UpToNext(f, cursor[f].last) /\ cursor[f].last < next'[f]
        BY <1>1, <1>2, <1>4, <2>2, UpToStays DEF IInv
    <2> QED
        BY <1>2, <2>1, <2>2 DEF CursorNext
<1> QED
    BY <1>3, <1>4 DEF Evolves

\* No cursor leaves anything unrecorded behind it.
LEMMA StepCursors ==
    ASSUME IInv, [Next]_vars
    PROVE  Cursors'
<1>1. Server' /\ Evolves /\ Mirror'
    BY StepServer, StepMirror DEF IInv, Mirror, Calls
<1> SUFFICES \A f \in Folder : CursorNext(f)
    BY DEF Cursors, CursorNext, UpTo, UpToNext, Placed
<1> SUFFICES ASSUME NEW f \in Folder PROVE CursorNext(f)
    OBVIOUS
<1>3. Server /\ Tables /\ LoopState /\ Walk
    BY DEF IInv, Mirror
<1>2. ASSUME cursor'[f] = cursor[f] PROVE CursorNext(f)
    <2>1. ASSUME Resets(f) PROVE FALSE
        <3>1. cursor' = [cursor EXCEPT ![f] = [validity |-> validity[f], last |-> 0]]
            BY <2>1 DEF Resets, OpenFolder
        <3>2. cursor'[f] = [validity |-> validity[f], last |-> 0]
            BY <1>3, <3>1 DEF Tables
        <3> QED
            BY <1>2, <2>1, <3>2 DEF Resets
    <2> QED
        BY <1>1, <1>2, <2>1, StepKeeps, CursorStays
<1>4. ASSUME NEW g \in Folder, OpenFolder(g) PROVE CursorNext(f)
    <2>1. CASE cursor'[f] = cursor[f]
        BY <1>2, <2>1
    <2>2. CASE cursor'[f] # cursor[f]
        <3>1. /\ g = f /\ cursor'[f] = [validity |-> validity[f], last |-> 0]
              /\ UNCHANGED serverVars
            BY <1>3, <1>4, <2>2 DEF OpenFolder, Tables
        <3>2. /\ validity'[f] = validity[f] /\ validity[f] \in Nat /\ next'[f] = next[f]
              /\ next[f] \in Nat \ {0} /\ place' = place
            BY <1>3, <3>1 DEF serverVars, Server, Uid
        <3>3. \A m \in Message : place[m] # None => place[m].uid \in Nat \ {0}
            BY <1>3 DEF Server, Spot, Uid
        <3>4. UpToNext(f, 0)
            BY <3>2, <3>3 DEF UpToNext
        <3> QED
            BY <3>1, <3>2, <3>4 DEF CursorNext
    <2> QED
        BY <2>1, <2>2
<1>5. CASE SaveCursor
    <2>1. CASE f # pass.folder
        BY <1>2, <1>3, <1>5, <2>1 DEF SaveCursor, Tables
    <2>2. CASE f = pass.folder
        <3>1. /\ cursor'[f] = [validity |-> pass.validity, last |-> pass.high]
              /\ UNCHANGED <<row, poisoned>> /\ UNCHANGED serverVars /\ at = "save"
            BY <1>3, <1>5, <2>2 DEF SaveCursor, Tables, history
        <3>2. /\ pass.validity \in 1..validity[f]
              /\ pass.validity = validity[f] => Scan
            BY <1>3, <2>2, <3>1 DEF Walk, Walking
        <3>3. pass.validity = validity[f] => pass.high < next[f] /\ UpTo(f, pass.high)
            BY <2>2, <3>1, <3>2 DEF Scan, Scanned, Reached
        <3>4. validity'[f] = validity[f] /\ validity[f] \in Nat /\ next' = next /\ place' = place
            BY <1>3, <3>1 DEF serverVars, Server
        <3>5. Keeps(f)
            BY <3>1, StepKeeps DEF Resets, OpenFolder
        <3>6. UpTo(f, pass.high) => UpToNext(f, pass.high)
            BY <3>4, <3>5 DEF UpTo, UpToNext, Placed, Keeps
        <3> QED
            BY <3>1, <3>2, <3>3, <3>4, <3>6 DEF CursorNext
    <2> QED
        BY <2>1, <2>2
<1>6. ASSUME EventKeeps PROVE CursorNext(f)
    BY <1>2, <1>6 DEF EventKeeps
<1>7. CASE Between
    BY <1>2, <1>7 DEF Between, RunTask, TaskRefused, TaskAnswerLost, Shift, BeginPass, Wake,
                      Restart, Teardown
<1>8. CASE FetchNewer \/ FetchFlags \/ ReconcileFlags \/ EndPass
    BY <1>2, <1>8 DEF FetchNewer, FetchFlags, ReconcileFlags, EndPass
<1>9. ASSUME NEW u \in pass.batch, IngestOne(u) \/ MessageVanished(u) \/ SkipPoison(u)
      PROVE  CursorNext(f)
    BY <1>2, <1>9 DEF IngestOne, MessageVanished, SkipPoison, NextDescriptor
<1>10. ASSUME NEW r \in Req, Request(r) PROVE CursorNext(f)
    BY <1>2, <1>10 DEF Request, ApplyOptimisticMove, QueueMove, RevertMove, RevertFails
<1>11. ASSUME \/ \E m \in Message : MarkRead(m)
              \/ \E r \in Req, t \in Folder, ms \in SUBSET Message : Collect(r, t, ms)
              \/ Stop \/ Crash \/ PassFails
       PROVE  CursorNext(f)
    BY <1>2, <1>11 DEF MarkRead, Collect, Stop, Crash, PassFails
<1>12. CASE UNCHANGED vars
    BY <1>2, <1>12 DEF vars
<1>13. CASE Environment
    BY <1>6, <1>11, <1>13, EventsKeep DEF Environment
<1>14. CASE InPass
    BY <1>4, <1>5, <1>8, <1>9, <1>14 DEF InPass
<1> QED
    BY <1>7, <1>10, <1>12, <1>13, <1>14 DEF Next, Loop
-----------------------------------------------------------------------------
\* A batch is the start of the list it is taken from.
LEMMA FirstComesFirst ==
    ASSUME NEW us, us \subseteq Nat, NEW b \in FirstOf(us), NEW w \in us \ FirstOf(us)
    PROVE  b < w
<1> DEFINE below(u) == {v \in us : v < u}
<1>1. b \in Nat /\ w \in Nat /\ b # w /\ w \in us
    BY DEF FirstOf
<1>2. \A u \in us : u \in FirstOf(us) <=> Cardinality(below(u)) < BatchSize
    BY DEF FirstOf
<1>3. \A u \in us : IsFiniteSet(below(u)) /\ Cardinality(below(u)) \in Nat
    <2> SUFFICES ASSUME NEW u \in us
                 PROVE  IsFiniteSet(below(u)) /\ Cardinality(below(u)) \in Nat
        OBVIOUS
    <2>1. u \in Nat /\ IsFiniteSet(0..(u - 1))
        BY FS_Interval
    <2>2. below(u) \subseteq 0..(u - 1)
        <3> SUFFICES ASSUME NEW v \in us, v < u PROVE v \in 0..(u - 1)
            OBVIOUS
        <3>1. v \in Nat
            OBVIOUS
        <3> QED
            BY <2>1, <3>1
    <2> QED
        BY <2>1, <2>2, FS_Subset, FS_CardinalityType
<1>4. CASE w < b
    <2>1. below(w) \subseteq below(b)
        <3> SUFFICES ASSUME NEW v \in us, v < w PROVE v < b
            OBVIOUS
        <3>1. v \in Nat
            OBVIOUS
        <3> QED
            BY <1>1, <1>4, <3>1
    <2>2. Cardinality(below(w)) <= Cardinality(below(b))
        BY <1>3, <2>1, FS_Subset DEF FirstOf
    <2>3. Cardinality(below(b)) < BatchSize
        BY <1>2 DEF FirstOf
    <2>4. Cardinality(below(w)) < BatchSize
        BY <1>1, <1>3, <2>2, <2>3, MailAssumption DEF FirstOf
    <2> QED
        BY <1>1, <1>2, <2>4
<1> QED
    BY <1>1, <1>4

\* How far a walk is, after the step.
ScannedNext(f, reached, listed) ==
    /\ reached < next'[f] /\ UpToNext(f, reached)
    /\ \A u \in listed : u < next'[f]
    /\ \A m \in Message : place'[m] # None /\ place'[m].folder = f =>
          Accounted(m)' \/ place'[m].uid \in listed \/ \A u \in listed : u < place'[m].uid

\* It is as far as it was while the folder goes on.
LEMMA ScannedStays ==
    ASSUME Server, Server', NEW f \in Folder, Keeps(f), Runs(f), NEW reached \in Nat,
           NEW listed, listed \subseteq Nat, Scanned(f, reached, listed)
    PROVE  ScannedNext(f, reached, listed)
<1>1. UpToNext(f, reached) /\ reached < next'[f]
    BY UpToStays DEF Scanned
<1>2. next[f] \in Nat /\ next'[f] \in Nat /\ next[f] <= next'[f]
    BY DEF Server, Runs, Uid
<1>3. \A u \in listed : u < next[f] /\ u \in Nat
    BY DEF Scanned
<1>4. \A u \in listed : u < next'[f]
    BY <1>2, <1>3
<1>5. ASSUME NEW m \in Message, place'[m] # None, place'[m].folder = f
      PROVE  Accounted(m)' \/ place'[m].uid \in listed \/ \A u \in listed : u < place'[m].uid
    <2>1. place'[m].uid \in Nat
        BY <1>5 DEF Server, Spot, Uid
    <2>2. CASE place'[m] = place[m]
        <3>1. Placed(m, f)
            BY <1>5, <2>2 DEF Placed
        <3>2. Accounted(m) \/ place[m].uid \in listed \/ \A u \in listed : u < place[m].uid
            BY <3>1 DEF Scanned
        <3> QED
            BY <2>2, <3>1, <3>2 DEF Keeps
    <2>3. CASE next[f] <= place'[m].uid
        <3>1. ASSUME NEW u \in listed PROVE u < place'[m].uid
            <4>1. u \in Nat /\ u < next[f]
                BY <1>3
            <4> QED
                BY <1>2, <2>1, <2>3, <4>1
        <3> QED
            BY <3>1
    <2> QED
        BY <1>5, <2>2, <2>3 DEF Runs
<1> QED
    BY <1>1, <1>4, <1>5 DEF ScannedNext

\* What is said of the walk is so after the step, when the pass is in folder f.
WalkNext(f) ==
    /\ pass'.folder = f /\ f \in Folder /\ pass'.validity \in 1..validity'[f]
    /\ pass'.validity = validity'[f] =>
          /\ ScannedNext(f, Reached', Listed')
          /\ at' = "ingest" => \A u \in pass'.batch, v \in pass'.walk : u < v

\* It is what the inductive invariant says of the walk.
LEMMA WalkNextIsWalk ==
    ASSUME Walking' => \E f : WalkNext(f)
    PROVE  Walk'
<1> SUFFICES ASSUME Walking', NEW f, WalkNext(f) PROVE Walk'
    BY DEF Walk
<1>1. /\ pass'.folder = f /\ f \in Folder /\ pass'.validity \in 1..validity'[f]
      /\ pass'.validity = validity'[f] =>
            /\ ScannedNext(f, Reached', Listed')
            /\ at' = "ingest" => \A u \in pass'.batch, v \in pass'.walk : u < v
    BY DEF WalkNext
<1>2. ASSUME NEW reached, NEW listed, ScannedNext(f, reached, listed)
      PROVE  Scanned(f, reached, listed)'
    BY <1>2 DEF Scanned, ScannedNext, UpTo, UpToNext, Placed
<1>3. ASSUME ScannedNext(f, Reached', Listed')
      PROVE  Scanned(pass.folder, Reached, Listed)'
    <2>1. PICK reached, listed : reached = Reached' /\ listed = Listed'
        OBVIOUS
    <2>2. Scanned(f, reached, listed)'
        BY <1>2, <1>3, <2>1
    <2> QED
        BY <1>1, <2>1, <2>2 DEF Scanned, UpTo
<1> QED
    BY <1>1, <1>3 DEF Walk, Scan

\* A step that leaves the pass alone.
LEMMA WalkStays ==
    ASSUME IInv, Server', Evolves, \A f \in Folder : Keeps(f), pass' = pass, at' = at
    PROVE  Walk'
<1> SUFFICES ASSUME Walking PROVE WalkNext(pass.folder)
    BY WalkNextIsWalk DEF Walking
<1>1. PICK f \in Folder : f = pass.folder
    BY DEF IInv, Walk
<1>2. /\ pass.validity \in 1..validity[f] /\ validity[f] \in Nat
      /\ pass.validity = validity[f] => Scan
    BY <1>1 DEF IInv, Walk, Server
<1>3. Reached \in Nat /\ Listed \subseteq Nat
    BY DEF IInv, Mirror, LoopState, Pass, Reached, Listed, Uid
<1>4. Reached' = Reached /\ Listed' = Listed
    BY DEF Reached, Listed
<1>5. CASE validity'[f] = validity[f] + 1
    BY <1>1, <1>2, <1>5 DEF WalkNext
<1>6. CASE Runs(f)
    <2>1. validity'[f] = validity[f]
        BY <1>6 DEF Runs
    <2>2. ASSUME pass.validity = validity[f]
          PROVE  /\ ScannedNext(f, Reached, Listed)
                 /\ at = "ingest" => \A u \in pass.batch, v \in pass.walk : u < v
        <3>1. /\ Scanned(f, Reached, Listed)
              /\ at = "ingest" => \A u \in pass.batch, v \in pass.walk : u < v
            BY <1>1, <1>2, <2>2 DEF Scan
        <3> QED
            BY <1>3, <1>6, <3>1, ScannedStays DEF IInv
    <2> QED
        BY <1>1, <1>2, <1>4, <2>1, <2>2 DEF WalkNext
<1> QED
    BY <1>5, <1>6 DEF Evolves

\* The server is as it was: what is known of it is known after the step.
LEMMA ScannedHere ==
    ASSUME UNCHANGED serverVars, NEW f \in Folder, NEW reached, NEW listed,
           reached < next[f],
           \A m \in Message : Placed(m, f) /\ place[m].uid <= reached => Accounted(m)',
           \A u \in listed : u < next[f],
           \A m \in Message : Placed(m, f) =>
              Accounted(m)' \/ place[m].uid \in listed \/ \A u \in listed : u < place[m].uid
    PROVE  ScannedNext(f, reached, listed)
<1>1. place' = place /\ next' = next
    BY DEF serverVars
<1> QED
    BY <1>1 DEF ScannedNext, UpToNext, Placed

\* A message that is taken off the batch is recorded where it is, or its ingest has failed.
LEMMA Taken ==
    ASSUME IInv, NEW u \in pass.batch, IngestOne(u) \/ MessageVanished(u) \/ SkipPoison(u),
           NEW m \in Message, Placed(m, pass.folder), place[m].uid = u
    PROVE  Accounted(m)'
<1>1. m \in AtUids(pass.folder, {u})
    BY DEF AtUids, Placed
<1>2. CASE SkipPoison(u)
    BY <1>1, <1>2 DEF SkipPoison, Accounted, Recorded, Sure, Excused
<1>3. CASE MessageVanished(u)
    BY <1>1, <1>3 DEF MessageVanished
<1>4. CASE IngestOne(u)
    <2>1. PICK n \in Message :
              /\ n \in AtUids(pass.folder, {u}) /\ place[n] # None
              /\ row'[n] # None /\ row'[n].folder = place[n].folder
              /\ row'[n].uid = place[n].uid /\ UNCHANGED serverVars
        BY <1>4, Sights
    <2>2. place[n] = place[m]
        <3>1. /\ place[n] = [folder |-> place[n].folder, uid |-> place[n].uid]
              /\ place[m] = [folder |-> place[m].folder, uid |-> place[m].uid]
            BY <2>1, Facts DEF Placed
        <3>2. place[n].folder = place[m].folder /\ place[n].uid = place[m].uid
            BY <2>1 DEF AtUids, Placed
        <3> QED
            BY <3>1, <3>2
    <2>3. n = m
        BY <2>1, <2>2 DEF IInv, Server
    <2> QED
        BY <2>1, <2>3 DEF Accounted, Recorded, Sure, Right, serverVars
<1> QED
    BY <1>2, <1>3, <1>4

\* The walk of the pass, and what it has still to look at.
LEMMA StepWalk ==
    ASSUME IInv, [Next]_vars
    PROVE  Walk'
<1>1. Server' /\ Evolves /\ Mirror'
    BY StepServer, StepMirror DEF IInv, Mirror, Calls
<1>0. ASSUME at # "folder" \/ at' # "fetch" PROVE \A f \in Folder : Keeps(f)
    BY <1>0, StepKeeps DEF Resets, OpenFolder
<1>2. Server /\ Tables /\ LoopState /\ Cursors /\ Walk
    BY DEF IInv, Mirror
<1>3. ASSUME pass' = pass, at' = at PROVE Walk'
    BY <1>0, <1>1, <1>3, WalkStays
<1>4. ASSUME at' \notin {"fetch", "ingest", "save"} PROVE Walk'
    BY <1>4 DEF Walk, Walking
<1>5. ASSUME NEW f \in Folder, OpenFolder(f) PROVE Walk'
    <2>1. /\ at' = "fetch" /\ pass'.folder = f /\ pass'.validity = validity[f]
          /\ pass'.walk = {} /\ UNCHANGED serverVars
          /\ \/ pass'.last = 0
             \/ /\ cursor[f] # None /\ cursor[f].validity = validity[f]
                /\ pass'.last = cursor[f].last
        BY <1>5 DEF OpenFolder, NoPass
    <2>2. /\ validity[f] \in Nat \ {0} /\ validity'[f] = validity[f] /\ next[f] \in Nat \ {0}
          /\ \A m \in Message : place[m] # None => place[m].uid \in Nat \ {0}
        BY <1>2, <2>1 DEF Server, Spot, Uid, serverVars
    <2>3. pass'.last < next[f] /\ UpTo(f, pass'.last)
        <3>1. UpTo(f, 0)
            BY <2>2 DEF UpTo, Placed
        <3> QED
            BY <1>2, <2>1, <2>2, <3>1 DEF Cursors
    <2>4. ScannedNext(f, pass'.last, {})
        <3>1. \A m \in Message : Placed(m, f) /\ place[m].uid <= pass'.last => Accounted(m)'
            <4>1. CASE pass'.last = 0
                BY <2>2, <4>1 DEF Placed
            <4>2. CASE pass'.last # 0
                <5>1. Keeps(f)
                    BY <2>1, <4>2, StepKeeps DEF Resets
                <5> QED
                    BY <2>1, <2>3, <5>1 DEF UpTo, Keeps, serverVars
            <4> QED
                BY <4>1, <4>2
        <3> QED
            BY <1>1, <2>1, <2>3, <3>1, ScannedHere
    <2>5. Reached' = pass'.last /\ Listed' = {}
        BY <2>1 DEF Reached, Listed
    <2>6. WalkNext(f)
        BY <2>1, <2>2, <2>4, <2>5 DEF WalkNext
    <2> QED
        BY <2>6, WalkNextIsWalk
<1>6. CASE FetchNewer
    <2> DEFINE pending == IF pass.walk # {} THEN pass.walk
                          ELSE {u \in UidsOf(pass.folder) : u > pass.last}
               batch == FirstOf(pending)
    <2>1. PICK f \in Folder : f = pass.folder
        BY <1>2, <1>6 DEF FetchNewer, Walk, Walking
    <2>2. /\ at = "fetch" /\ at' = (IF batch = {} THEN "flags" ELSE "ingest")
          /\ pass'.folder = f /\ pass'.validity = pass.validity /\ pass'.batch = batch
          /\ pass'.walk = pending \ batch /\ pass'.high = pass.last
          /\ UNCHANGED serverVars
        BY <1>2, <1>6, <2>1 DEF FetchNewer, LoopState, Pass
    <2>3. /\ pass.validity \in 1..validity[f] /\ validity'[f] = validity[f]
          /\ pass.validity = validity[f] => Scanned(f, pass.last, pass.walk)
        BY <1>2, <2>1, <2>2 DEF Walk, Walking, Scan, Reached, Listed, serverVars
    <2>4. pending \subseteq Nat /\ pass.last \in Nat
        <3>1. pass.walk \subseteq Nat /\ pass.last \in Nat /\ UidsOf(pass.folder) \subseteq Nat
            BY <1>2, UidsAreUids DEF LoopState, Pass, Uid
        <3> QED
            BY <3>1
    <2>5. batch \subseteq pending
        BY DEF FirstOf
    <2>6. \A u \in batch, v \in pending \ batch : u < v
        BY <2>4, FirstComesFirst
    <2>8. Keeps(f)
        BY <1>0, <2>2
    <2>7. ASSUME pass.validity = validity[f]
          PROVE  ScannedNext(f, pass.last, pending)
        <3>1. /\ pass.last < next[f] /\ UpTo(f, pass.last)
              /\ \A u \in pass.walk : u < next[f]
              /\ \A m \in Message : Placed(m, f) =>
                    Accounted(m) \/ place[m].uid \in pass.walk
                    \/ \A u \in pass.walk : u < place[m].uid
            BY <2>3, <2>7 DEF Scanned
        <3>2. \A m \in Message : Placed(m, f) /\ place[m].uid <= pass.last => Accounted(m)'
            BY <2>2, <2>8, <3>1 DEF UpTo, Keeps, serverVars
        <3>3. CASE pass.walk # {}
            <4>1. pending = pass.walk
                BY <3>3
            <4>2. \A m \in Message : Placed(m, f) =>
                      Accounted(m)' \/ place[m].uid \in pass.walk
                      \/ \A u \in pass.walk : u < place[m].uid
                BY <2>2, <2>8, <3>1 DEF Keeps, serverVars
            <4> HIDE DEF pending
            <4> QED
                BY <2>2, <3>1, <3>2, <4>1, <4>2, ScannedHere
        <3>4. CASE pass.walk = {}
            <4>1. pending = {u \in UidsOf(f) : u > pass.last}
                BY <2>1, <3>4
            <4>2. \A u \in pending : u < next[f]
                BY <1>2, <4>1 DEF UidsOf, Server, Placed
            <4>3. ASSUME NEW m \in Message, Placed(m, f)
                  PROVE  Accounted(m)' \/ place[m].uid \in pending
                <5>1. place[m].uid \in UidsOf(f) /\ place[m].uid \in Nat
                    BY <1>2, <4>3 DEF UidsOf, Placed, Server, Spot, Uid
                <5>2. place[m].uid <= pass.last \/ place[m].uid > pass.last
                    BY <2>4, <5>1
                <5> QED
                    BY <3>2, <4>1, <4>3, <5>1, <5>2
            <4> HIDE DEF pending
            <4> QED
                BY <1>1, <2>2, <3>1, <3>2, <4>2, <4>3, ScannedHere
        <3> QED
            BY <3>3, <3>4
    <2> HIDE DEF pending, batch
    <2>9. CASE batch # {}
        <3>1. at' = "ingest" /\ Reached' = pass.last /\ Listed' = pending
            BY <2>2, <2>5, <2>9 DEF Reached, Listed
        <3>2. WalkNext(f)
            BY <2>2, <2>3, <2>6, <2>7, <3>1 DEF WalkNext
        <3> QED
            BY <3>2, WalkNextIsWalk
    <2>10. CASE batch = {}
        BY <1>4, <2>2, <2>10
    <2> QED
        BY <2>9, <2>10
<1>7. ASSUME NEW u \in pass.batch, IngestOne(u) \/ MessageVanished(u) \/ SkipPoison(u)
      PROVE  Walk'
    <2>1. NextDescriptor(u) /\ at = "ingest"
        BY <1>7 DEF IngestOne, MessageVanished, SkipPoison, NextDescriptor
    <2>2. PICK f \in Folder : f = pass.folder
        BY <1>2, <2>1 DEF Walk, Walking
    <2>3. /\ at' = (IF pass.batch = {u} THEN "save" ELSE "ingest")
          /\ pass'.folder = f /\ pass'.validity = pass.validity /\ pass'.high = u
          /\ pass'.batch = pass.batch \ {u} /\ pass'.walk = pass.walk
          /\ UNCHANGED serverVars /\ \A v \in pass.batch : u <= v
        BY <1>2, <2>1, <2>2 DEF NextDescriptor, LoopState, Pass
    <2>4. /\ pass.validity \in 1..validity[f] /\ validity'[f] = validity[f]
          /\ pass.validity = validity[f] =>
                /\ Scanned(f, pass.high, pass.batch \cup pass.walk)
                /\ \A v \in pass.batch, w \in pass.walk : v < w
        BY <1>2, <2>1, <2>2, <2>3 DEF Walk, Walking, Scan, Reached, Listed, serverVars
    <2>5. u \in Nat /\ pass.batch \subseteq Nat /\ pass.walk \subseteq Nat /\ next[f] \in Nat
        BY <1>2 DEF LoopState, Pass, Server, Uid
    <2>6. ASSUME NEW m \in Message, Placed(m, f), place[m].uid = u
          PROVE  Accounted(m)'
        BY <1>7, <2>2, <2>6, Taken
    <2>11. Keeps(f)
        BY <1>0, <2>1
    <2> DEFINE listed == (pass.batch \ {u}) \cup pass.walk
    <2>7. ASSUME pass.validity = validity[f]
          PROVE  ScannedNext(f, u, listed)
        <3>1. /\ \A v \in pass.batch \cup pass.walk : v < next[f]
              /\ \A m \in Message : Placed(m, f) =>
                    \/ Accounted(m) \/ place[m].uid \in pass.batch \cup pass.walk
                    \/ \A v \in pass.batch \cup pass.walk : v < place[m].uid
              /\ \A w \in pass.walk : u < w
            BY <2>4, <2>7 DEF Scanned
        <3>2. ASSUME NEW m \in Message, Placed(m, f), place[m].uid <= u
              PROVE  Accounted(m)'
            <4>1. place[m].uid \in Nat
                BY <1>2, <3>2 DEF Server, Spot, Placed, Uid
            <4>2. Accounted(m) \/ place[m].uid = u
                BY <2>3, <2>5, <3>1, <3>2, <4>1
            <4> QED
                BY <2>3, <2>6, <2>11, <3>2, <4>2 DEF Keeps, serverVars
        <3>3. ASSUME NEW m \in Message, Placed(m, f)
              PROVE  Accounted(m)' \/ place[m].uid \in listed \/ \A v \in listed : v < place[m].uid
            <4>1. \/ Accounted(m) \/ place[m].uid = u \/ place[m].uid \in listed
                  \/ \A v \in listed : v < place[m].uid
                BY <3>1, <3>3
            <4> QED
                BY <2>3, <2>6, <2>11, <3>3, <4>1 DEF Keeps, serverVars
        <3>4. u < next[f] /\ \A v \in listed : v < next[f]
            BY <3>1
        <3> HIDE DEF listed
        <3> QED
            BY <1>1, <2>3, <3>2, <3>3, <3>4, ScannedHere
    <2>8. Reached' = u /\ Listed' = listed
        BY <2>3 DEF Reached, Listed
    <2>9. pass.validity = validity[f] /\ at' = "ingest" =>
             \A v \in pass'.batch, w \in pass'.walk : v < w
        BY <2>3, <2>4
    <2> HIDE DEF listed
    <2>10. WalkNext(f)
        BY <2>3, <2>4, <2>7, <2>8, <2>9 DEF WalkNext
    <2> QED
        BY <2>10, WalkNextIsWalk
<1>8. CASE SaveCursor
    <2>1. PICK f \in Folder : f = pass.folder
        BY <1>2, <1>8 DEF Walk, Walking, SaveCursor
    <2>2. /\ at = "save" /\ at' \in {"fetch", "flags"} /\ UNCHANGED serverVars
          /\ pass'.folder = f /\ pass'.validity = pass.validity /\ pass'.last = pass.high
          /\ pass'.walk = pass.walk
        BY <1>2, <1>8, <2>1 DEF SaveCursor, LoopState, Pass
    <2>3. /\ pass.validity \in 1..validity[f] /\ validity'[f] = validity[f]
          /\ pass.validity = validity[f] => Scanned(f, pass.high, pass.walk)
        BY <1>2, <2>1, <2>2 DEF Walk, Walking, Scan, Reached, Listed, serverVars
    <2>4. ASSUME Scanned(f, pass.high, pass.walk)
          PROVE  ScannedNext(f, pass.high, pass.walk)
        <3>1. Keeps(f)
            BY <1>0, <2>2
        <3>2. /\ \A m \in Message : Placed(m, f) /\ place[m].uid <= pass.high => Accounted(m)'
              /\ \A m \in Message : Placed(m, f) =>
                    Accounted(m)' \/ place[m].uid \in pass.walk
                    \/ \A u \in pass.walk : u < place[m].uid
            BY <2>2, <2>4, <3>1 DEF Scanned, UpTo, Keeps, serverVars
        <3> QED
            BY <2>2, <2>4, <3>2, ScannedHere DEF Scanned
    <2>5. CASE at' = "fetch"
        <3>1. Reached' = pass.high /\ Listed' = pass.walk
            BY <2>2, <2>5 DEF Reached, Listed
        <3>2. WalkNext(f)
            BY <2>2, <2>3, <2>4, <2>5, <3>1 DEF WalkNext
        <3> QED
            BY <3>2, WalkNextIsWalk
    <2> QED
        BY <1>4, <2>2, <2>5
<1>9. ASSUME EventKeeps PROVE Walk'
    BY <1>3, <1>9 DEF EventKeeps
<1>10. CASE RunTask \/ TaskRefused \/ TaskAnswerLost
    BY <1>3, <1>10 DEF RunTask, TaskRefused, TaskAnswerLost, Shift, loopVars
<1>11. CASE BeginPass \/ Wake \/ Restart \/ Teardown
    BY <1>4, <1>11 DEF BeginPass, Wake, Restart, Teardown
<1>12. CASE FetchFlags \/ ReconcileFlags \/ EndPass
    BY <1>4, <1>12 DEF FetchFlags, ReconcileFlags, EndPass
<1>13. ASSUME NEW r \in Req, Request(r) PROVE Walk'
    BY <1>3, <1>13 DEF Request, ApplyOptimisticMove, QueueMove, RevertMove, RevertFails, loopVars
<1>14. ASSUME \/ \E m \in Message : MarkRead(m)
              \/ \E r \in Req, t \in Folder, ms \in SUBSET Message : Collect(r, t, ms)
              \/ Stop
       PROVE  Walk'
    BY <1>3, <1>14 DEF MarkRead, Collect, Stop, loopVars
<1>15. CASE Crash \/ PassFails
    BY <1>4, <1>15 DEF Crash, PassFails
<1>16. CASE UNCHANGED vars
    BY <1>3, <1>16 DEF vars, loopVars
<1>17. CASE Environment
    BY <1>9, <1>14, <1>15, <1>17, EventsKeep DEF Environment
<1>18. CASE InPass
    BY <1>5, <1>6, <1>7, <1>8, <1>12, <1>18 DEF InPass
<1> QED
    BY <1>10, <1>11, <1>13, <1>16, <1>17, <1>18 DEF Next, Loop, Between
-----------------------------------------------------------------------------
\* What a UID means, after the step.
KnownNext(n, f, u) ==
    validity'[f] = 1 =>
        /\ u < next'[f]
        /\ \A m \in Message :
              place'[m] # None /\ place'[m].folder = f /\ place'[m].uid = u => m = n

\* It means what it meant.
LEMMA KnownStays ==
    ASSUME Server, Server', Evolves, NEW n, NEW f \in Folder, NEW u \in Nat, Known(n, f, u)
    PROVE  KnownNext(n, f, u)
<1> SUFFICES ASSUME validity'[f] = 1 PROVE KnownNext(n, f, u)
    BY DEF KnownNext
<1>1. validity[f] \in Nat \ {0} /\ next[f] \in Nat /\ next'[f] \in Nat
    BY DEF Server, Uid
<1>2. Runs(f)
    BY <1>1 DEF Evolves
<1>3. /\ u < next[f] /\ next[f] <= next'[f]
      /\ \A m \in Message : Placed(m, f) /\ place[m].uid = u => m = n
    BY <1>2 DEF Known, Was, Runs
<1>4. ASSUME NEW m \in Message, place'[m] # None, place'[m].folder = f, place'[m].uid = u
      PROVE  m = n
    <2>1. place'[m] = place[m]
        BY <1>1, <1>2, <1>3, <1>4 DEF Runs
    <2> QED
        BY <1>3, <1>4, <2>1 DEF Placed
<1> QED
    BY <1>1, <1>3, <1>4 DEF KnownNext

\* Where the folder and UID of a row come from: it had them, a request read them from it,
\* or the message was sighted there.
RowFrom(m) ==
    \/ row'[m] = None \/ row'[m].uid = 0
    \/ row[m] # None /\ row'[m].folder = row[m].folder /\ row'[m].uid = row[m].uid
    \/ \E r \in Req : \E c \in req[r].left :
          c.id = m /\ row'[m].folder = c.folder /\ row'[m].uid = c.uid
    \/ place[m] # None /\ row'[m].folder = place[m].folder /\ row'[m].uid = place[m].uid

\* No step writes another folder or UID into a row.
LEMMA StepRows ==
    ASSUME IInv, [Next]_vars
    PROVE  \A m \in Message : RowFrom(m)
<1> SUFFICES ASSUME NEW m \in Message PROVE RowFrom(m)
    OBVIOUS
<1>1. Tables /\ Calls /\ Asked /\ LoopState /\ Server
    BY DEF IInv, Mirror
<1>2. ASSUME row'[m] = row[m] PROVE RowFrom(m)
    BY <1>2 DEF RowFrom
<1>3. row[m] # None => row[m] \in Mirrored
    BY <1>1 DEF Tables
<1>4. ASSUME NEW f \in Folder, OpenFolder(f) PROVE RowFrom(m)
    <2>1. row'[m] = row[m] \/ (row[m] # None /\ row'[m] = [row[m] EXCEPT !.uid = 0])
        BY <1>4 DEF OpenFolder
    <2>2. CASE row[m] # None /\ row'[m] = [row[m] EXCEPT !.uid = 0]
        BY <1>3, <2>2 DEF Mirrored, RowFrom
    <2> QED
        BY <1>2, <2>1, <2>2
<1>5. ASSUME NEW u \in pass.batch, IngestOne(u) PROVE RowFrom(m)
    <2>1. PICK n \in AtUids(pass.folder, {u}) : Ingest(n, u)
        BY <1>5 DEF IngestOne
    <2>2. CASE n = m
        <3>1. place[m] # None /\ place[m].folder = pass.folder /\ place[m].uid = u
            BY <2>1, <2>2 DEF AtUids
        <3>2. row'[m] = [folder |-> pass.folder, uid |-> u, seen |-> u \in pass.marked]
            BY <1>1, <2>1, <2>2 DEF Ingest, Tables
        <3> QED
            BY <3>1, <3>2 DEF RowFrom
    <2>3. CASE n # m
        BY <1>1, <1>2, <2>1, <2>3 DEF Ingest, Tables
    <2> QED
        BY <2>2, <2>3
<1>6. CASE ReconcileFlags
    <2>1. \/ row'[m] = row[m]
          \/ /\ row[m] # None
             /\ row'[m] = [row[m] EXCEPT !.seen = row[m].uid \in pass.marked]
        BY <1>6 DEF ReconcileFlags
    <2>2. CASE /\ row[m] # None
               /\ row'[m] = [row[m] EXCEPT !.seen = row[m].uid \in pass.marked]
        BY <1>3, <2>2 DEF Mirrored, RowFrom
    <2> QED
        BY <1>2, <2>1, <2>2
<1>7. ASSUME NEW r \in Req, NEW filing \in BOOLEAN, ApplyOptimisticMove(r, filing)
      PROVE  RowFrom(m)
    <2>1. \/ row'[m] = row[m]
          \/ /\ m \in Ids(req[r].left)
             /\ row'[m] = [row[m] EXCEPT !.folder = req[r].target, !.uid = 0]
        BY <1>7 DEF ApplyOptimisticMove
    <2>2. CASE /\ m \in Ids(req[r].left)
               /\ row'[m] = [row[m] EXCEPT !.folder = req[r].target, !.uid = 0]
        <3>1. row[m] \in Mirrored
            BY <1>1, <1>3, <2>2 DEF Ids, Asked
        <3> QED
            BY <2>2, <3>1 DEF Mirrored, RowFrom
    <2> QED
        BY <1>2, <2>1, <2>2
<1>8. ASSUME NEW r \in Req, RevertMove(r) PROVE RowFrom(m)
    <2>1. \/ row'[m] = row[m]
          \/ \E c \in req[r].group :
                c.id = m /\ row'[m] = [row[m] EXCEPT !.folder = c.folder, !.uid = c.uid]
        BY <1>8 DEF RevertMove, Ids
    <2>2. ASSUME NEW c \in req[r].group, c.id = m,
                 row'[m] = [row[m] EXCEPT !.folder = c.folder, !.uid = c.uid]
          PROVE  RowFrom(m)
        <3>1. c \in req[r].left
            BY <1>1, <2>2 DEF Asked
        <3>2. row[m] \in Mirrored
            BY <1>1, <1>3, <2>2, <3>1 DEF Asked
        <3>3. row'[m].folder = c.folder /\ row'[m].uid = c.uid
            BY <2>2, <3>2 DEF Mirrored
        <3> QED
            BY <2>2, <3>1, <3>3 DEF RowFrom
    <2> QED
        BY <1>2, <2>1, <2>2
<1>9. ASSUME NEW n \in Message, MarkRead(n) PROVE RowFrom(m)
    <2>1. row[n] # None /\ row' = [row EXCEPT ![n].seen = TRUE]
        BY <1>9 DEF MarkRead
    <2>2. CASE n = m
        <3>1. row[m] \in Mirrored /\ row'[m] = [row[m] EXCEPT !.seen = TRUE]
            BY <1>1, <1>3, <2>1, <2>2 DEF Tables
        <3> QED
            BY <2>1, <2>2, <3>1 DEF Mirrored, RowFrom
    <2>3. CASE n # m
        BY <1>1, <1>2, <2>1, <2>3 DEF Tables
    <2> QED
        BY <2>2, <2>3
<1>10. ASSUME EventKeeps PROVE RowFrom(m)
    BY <1>2, <1>10 DEF EventKeeps
<1>11. CASE Between
    BY <1>2, <1>11 DEF Between, RunTask, TaskRefused, TaskAnswerLost, Shift, BeginPass, Wake,
                       Restart, Teardown
<1>12. CASE FetchNewer \/ FetchFlags \/ SaveCursor \/ EndPass
    BY <1>2, <1>12 DEF FetchNewer, FetchFlags, SaveCursor, EndPass
<1>13. ASSUME NEW u \in pass.batch, MessageVanished(u) \/ SkipPoison(u) PROVE RowFrom(m)
    BY <1>2, <1>13 DEF MessageVanished, SkipPoison
<1>14. ASSUME NEW r \in Req, \/ RevertFails(r)
                             \/ \E f \in Folder : QueueMove(r, f)
                             \/ \E t \in Folder, ms \in SUBSET Message : Collect(r, t, ms)
       PROVE  RowFrom(m)
    BY <1>2, <1>14 DEF RevertFails, QueueMove, Collect
<1>15. CASE Stop \/ Crash \/ PassFails
    BY <1>2, <1>15 DEF Stop, Crash, PassFails
<1>16. CASE UNCHANGED vars
    BY <1>2, <1>16 DEF vars
<1>17. CASE InPass
    BY <1>4, <1>5, <1>6, <1>12, <1>13, <1>17 DEF InPass
<1>18. CASE Environment
    BY <1>9, <1>10, <1>14, <1>15, <1>18, EventsKeep DEF Environment
<1>19. ASSUME NEW r \in Req, Request(r) PROVE RowFrom(m)
    BY <1>7, <1>8, <1>14, <1>19 DEF Request
<1> QED
    BY <1>11, <1>16, <1>17, <1>18, <1>19 DEF Next, Loop

\* The UIDs in the rows and in the requests go on to mean what they meant.
LEMMA StepSame ==
    ASSUME IInv, [Next]_vars
    PROVE  Same'
<1>1. Server /\ Tables /\ Calls /\ Same /\ Server' /\ Evolves /\ Tables'
    BY StepServer, StepTables, StepMirror DEF IInv, Mirror, Calls
<1>2. /\ \A m \in Message : row[m] # None => row[m].folder \in Folder /\ row[m].uid \in Nat
      /\ \A m \in Message : place[m] # None => place[m] \in Spot /\ place[m].folder \in Folder
                                               /\ place[m].uid \in Nat
      /\ \A r \in Req : \A c \in req[r].left :
            c.id \in Message /\ c.folder \in Folder /\ c.uid \in Nat
    BY <1>1 DEF Tables, Server, Calls, Call, Candidate, Mirrored, Spot, Uid
<1>3. ASSUME NEW m \in Message, NEW f \in Folder, NEW u \in Nat, Known(m, f, u)
      PROVE  KnownNext(m, f, u)
    BY <1>1, <1>3, KnownStays
<1>4. ASSUME NEW m \in Message, place[m] # None
      PROVE  Known(m, place[m].folder, place[m].uid)
    <2>1. place[m].uid < next[place[m].folder]
        BY <1>1, <1>2, <1>4 DEF Server, Placed
    <2>2. ASSUME NEW n \in Message, Placed(n, place[m].folder), place[n].uid = place[m].uid
          PROVE  n = m
        <3>1. place[n] = place[m]
            BY <1>2, <1>4, <2>2 DEF Placed, Spot
        <3> QED
            BY <1>1, <1>4, <3>1 DEF Server
    <2> QED
        BY <2>1, <2>2 DEF Known, Was
<1>5. ASSUME NEW m \in Message, row[m] # None, row[m].uid # 0
      PROVE  KnownNext(m, row[m].folder, row[m].uid)
    BY <1>1, <1>2, <1>3, <1>5 DEF Same
<1>6. ASSUME NEW r \in Req, NEW c \in req[r].left
      PROVE  KnownNext(c.id, c.folder, c.uid)
    BY <1>1, <1>2, <1>3, <1>6 DEF Same
<1>7. ASSUME NEW m \in Message, row'[m] # None, row'[m].uid # 0
      PROVE  KnownNext(m, row'[m].folder, row'[m].uid)
    <2>1. RowFrom(m)
        BY StepRows
    <2>2. CASE row[m] # None /\ row'[m].folder = row[m].folder /\ row'[m].uid = row[m].uid
        BY <1>5, <1>7, <2>2
    <2>3. ASSUME NEW r \in Req, NEW c \in req[r].left, c.id = m, row'[m].folder = c.folder,
                 row'[m].uid = c.uid
          PROVE  KnownNext(m, row'[m].folder, row'[m].uid)
        <3>1. KnownNext(c.id, c.folder, c.uid)
            BY <1>6, <2>3
        <3> QED
            BY <2>3, <3>1
    <2>4. CASE place[m] # None /\ row'[m].folder = place[m].folder /\ row'[m].uid = place[m].uid
        <3>1. KnownNext(m, place[m].folder, place[m].uid)
            BY <1>2, <1>3, <1>4, <2>4
        <3> QED
            BY <2>4, <3>1
    <2> QED
        BY <1>7, <2>1, <2>2, <2>3, <2>4 DEF RowFrom
<1>8. ASSUME NEW r \in Req, NEW c \in req'[r].left
      PROVE  KnownNext(c.id, c.folder, c.uid)
    <2>1. Shrinks(r) \/ \E t \in Folder, ms \in SUBSET Message : Collect(r, t, ms)
        BY StepRequests
    <2>2. CASE Shrinks(r)
        BY <1>6, <1>8, <2>2 DEF Shrinks
    <2>3. ASSUME NEW t \in Folder, NEW ms \in SUBSET Message, Collect(r, t, ms)
          PROVE  KnownNext(c.id, c.folder, c.uid)
        <3>1. /\ c.id \in Message /\ row[c.id] # None /\ row[c.id].uid # 0
              /\ c.folder = row[c.id].folder /\ c.uid = row[c.id].uid
            BY <1>1, <1>8, <2>3, Collects
        <3> QED
            BY <1>5, <3>1
    <2> QED
        BY <2>1, <2>2, <2>3
<1> QED
    BY <1>7, <1>8 DEF Same, Known, Was, KnownNext, Placed
-----------------------------------------------------------------------------
\* The inductive invariant holds at first.
LEMMA InitIInv ==
    ASSUME Init
    PROVE  IInv
<1> DEFINE first == CHOOSE m \in Message : TRUE
<1>1. first \in Message
    BY MailAssumption
<1>2. PICK second \in Message :
          place = [m \in Message |-> IF m = first THEN [folder |-> Inbox, uid |-> 1]
                                     ELSE IF m = second THEN [folder |-> Inbox, uid |-> 2]
                                     ELSE None]
    BY DEF Init
<1>3. row = [m \in Message |->
                IF m = first THEN [folder |-> Inbox, uid |-> 1, seen |-> FALSE] ELSE None]
    BY DEF Init
<1> HIDE DEF first
<1>4. Inbox \in Folder /\ Walked \subseteq Other
    BY MailAssumption DEF Folder
<1>5. /\ next = [f \in Folder |-> IF f = Inbox THEN 3 ELSE 1]
      /\ validity = [f \in Folder |-> 1]
      /\ cursor = [f \in Folder |-> IF f = Inbox THEN [validity |-> 1, last |-> 1] ELSE None]
    BY DEF Init
<1>6. /\ [folder |-> Inbox, uid |-> 1] \in Spot /\ [folder |-> Inbox, uid |-> 2] \in Spot
      /\ [folder |-> Inbox, uid |-> 1, seen |-> FALSE] \in Mirrored
      /\ [validity |-> 1, last |-> 1] \in Cursor
    BY <1>4 DEF Spot, Mirrored, Cursor, Uid
<1>7. \A m \in Message :
          \/ m = first /\ place[m] = [folder |-> Inbox, uid |-> 1] /\ place[m] # None
          \/ /\ m = second /\ m # first
             /\ place[m] = [folder |-> Inbox, uid |-> 2] /\ place[m] # None
          \/ place[m] = None
    BY <1>2, <1>6, Nothing
<1>8. Server
    <2>1. place \in [Message -> {None} \cup Spot]
        BY <1>2, <1>6
    <2>2. /\ next \in [Folder -> Uid \ {0}] /\ validity \in [Folder -> Nat \ {0}]
          /\ flag \subseteq Message
        BY <1>5 DEF Uid, Init
    <2>3. \A m \in Message, f \in Folder : Placed(m, f) => place[m].uid < next[f]
        BY <1>5, <1>7 DEF Placed
    <2>4. \A m, n \in Message : place[m] = place[n] /\ place[m] # None => m = n
        <3> SUFFICES ASSUME NEW m \in Message, NEW n \in Message, place[m] = place[n],
                            place[m] # None
                     PROVE  m = n
            OBVIOUS
        <3>1. [folder |-> Inbox, uid |-> 1] # [folder |-> Inbox, uid |-> 2]
            OBVIOUS
        <3> QED
            BY <1>7, <3>1
    <2> QED
        BY <2>1, <2>2, <2>3, <2>4 DEF Server
<1>9. Mirror
    <2>1. Tables
        BY <1>3, <1>4, <1>5, <1>6 DEF Init, Tables
    <2>2. LoopState
        BY NoPassIsPass DEF Init, LoopState
    <2>3. Calls
        BY NoReqIsCall DEF Init, Calls
    <2>4. Bounds
        BY <1>5, MailAssumption DEF Init, Bounds
    <2> QED
        BY <2>1, <2>2, <2>3, <2>4 DEF Mirror
<1>10. \A m \in Message : row[m] # None => m = first
    BY <1>3
<1>11. row[first] = [folder |-> Inbox, uid |-> 1, seen |-> FALSE] /\ row[first] # None
    BY <1>1, <1>3, <1>6, Nothing
<1>12. Cursors
    <2> SUFFICES ASSUME NEW f \in Folder, cursor[f] # None
                 PROVE  /\ cursor[f].validity <= validity[f]
                        /\ cursor[f].last < next[f] /\ UpTo(f, cursor[f].last)
        BY DEF Cursors
    <2>1. /\ f = Inbox /\ cursor[f].validity = 1 /\ cursor[f].last = 1 /\ next[f] = 3
          /\ validity[f] = 1
        BY <1>5
    <2>2. UpTo(f, 1)
        BY <1>7, <1>11 DEF UpTo, Accounted, Recorded, Sure, Right, Placed
    <2> QED
        BY <2>1, <2>2
<1>13. Walk
    BY DEF Init, Walk, Walking
<1>14. Asked /\ Queued
    BY NoReqIsCall DEF Init, Asked, Queued
<1>15. Same
    <2>1. \A r \in Req : req[r].left = {}
        BY NoReqIsCall DEF Init
    <2>2. ASSUME NEW m \in Message, row[m] # None
          PROVE  Known(m, row[m].folder, row[m].uid)
        <3>1. m = first /\ row[m].folder = Inbox /\ row[m].uid = 1
            BY <1>10, <1>11, <2>2
        <3>2. Was(m, Inbox, 1)
            BY <1>4, <1>5, <1>7, <3>1 DEF Was, Placed
        <3> QED
            BY <3>1, <3>2 DEF Known
    <2> QED
        BY <2>1, <2>2 DEF Same
<1>16. Holding /\ Rows /\ Moves
    <2>1. \A r \in Req : req[r] = NoReq /\ req[r].left = {} /\ ~Moving(r)
        BY NoReqIsCall DEF Init, Moving
    <2>2. place[first] # None
        BY <1>1, <1>2, <1>6, Nothing
    <2>3. \A m \in Message : place[m] # None => place[m].folder \in Visited
        BY <1>7 DEF Visited
    <2> QED
        BY <1>10, <2>1, <2>2, <2>3 DEF Holding, Rows, Findable, Moves
<1> QED
    BY <1>8, <1>9, <1>12, <1>13, <1>14, <1>15, <1>16 DEF IInv

\* Every step keeps the inductive invariant.
LEMMA StepIInv ==
    ASSUME IInv, [Next]_vars
    PROVE  IInv'
<1>1. Server'
    BY StepServer DEF IInv, Mirror, Calls
<1> QED
    BY <1>1, StepMirror, StepCursors, StepWalk, StepAsked, StepQueue, StepSame, StepHolding,
       StepKept
    DEF IInv, Kept

\* The inductive invariant holds in every state the mirror can reach.
LEMMA Invariant == Spec => []IInv
BY InitIInv, StepIInv, PTL DEF Spec

\* The state of the mailbox, its mirror, the loop and the requests is well-typed, and two
\* messages never have one UID of one folder.
THEOREM Types == Spec => []TypeOK
<1>1. ASSUME IInv PROVE TypeOK
    <2>1. Server /\ Tables /\ LoopState /\ Calls /\ Bounds
        BY <1>1 DEF IInv, Mirror
    <2>2. \A f \in Folder : validity[f] \in 1..(MaxTrouble + 1)
        <3> SUFFICES ASSUME NEW f \in Folder PROVE validity[f] \in 1..(MaxTrouble + 1)
            OBVIOUS
        <3>1. /\ validity[f] \in Nat \ {0} /\ validity[f] <= trouble + 1
              /\ trouble \in 0..MaxTrouble /\ MaxTrouble \in Nat
            BY <2>1, MailAssumption DEF Server, Bounds
        <3> QED
            BY <3>1
    <2>3. /\ validity \in [Folder -> 1..(MaxTrouble + 1)]
          /\ next \in [Folder -> Uid \ {0}] /\ flag \subseteq Message
        BY <2>1, <2>2 DEF Server
    <2>4. \A f \in Folder :
              cursor[f] = None \/ cursor[f] \in [validity : 1..(MaxTrouble + 1), last : Uid]
        <3> SUFFICES ASSUME NEW f \in Folder, cursor[f] # None
                     PROVE  cursor[f] \in [validity : 1..(MaxTrouble + 1), last : Uid]
            OBVIOUS
        <3>1. cursor[f] \in Cursor /\ cursor[f].validity <= validity[f]
            BY <1>1, <2>1 DEF Tables, IInv, Cursors
        <3>2. cursor[f].validity \in 1..(MaxTrouble + 1)
            BY <2>2, <3>1, MailAssumption DEF Cursor
        <3> QED
            BY <3>1, <3>2 DEF Cursor
    <2>5. /\ \A m \in Message :
                /\ place[m] = None \/ place[m] \in [folder : Folder, uid : Uid \ {0}]
                /\ row[m] = None \/ row[m] \in [folder : Folder, uid : Uid, seen : BOOLEAN]
          /\ \A m, n \in Message : place[m] = place[n] /\ place[m] # None => m = n
        BY <2>1 DEF Server, Tables, Spot, Mirrored
    <2>6. /\ pass.todo \subseteq Folder /\ pass.folder \in Folder \cup {None}
          /\ pass.batch \cup pass.marked \cup pass.walk \subseteq Uid
        BY <2>1 DEF LoopState, Pass
    <2>7. \A i \in DOMAIN queue : queue[i].req \in Req \cup {None}
        <3>1. queue \in Seq(Task)
            BY <2>1 DEF Calls
        <3>2. \A i \in DOMAIN queue : queue[i] \in Task
            BY <3>1, ElementOfSeq, LenProperties
        <3> QED
            BY <3>2 DEF Task
    <2>8. \A r \in Req : req[r].step \in {"free", "collected", "moved", "waiting", "refused"}
        BY <2>1 DEF Calls, Call
    <2>9. /\ synced \subseteq Other /\ {told, due, failing} \subseteq BOOLEAN
          /\ at \in {"drain", "wait", "gone", "folder", "fetch", "ingest", "save", "flags",
                     "reconcile", "record"}
          /\ poisoned \cup adrift \subseteq Message /\ settled \in {"no", "fresh", "yes"}
          /\ requests \in 0..MaxRequests /\ trouble \in 0..MaxTrouble
        BY <2>1 DEF Tables, LoopState, Bounds
    <2> QED
        BY <2>3, <2>4, <2>5, <2>6, <2>7, <2>8, <2>9 DEF TypeOK
<1> QED
    BY <1>1, Invariant, PTL

\* No cursor is past a message that is not recorded, whatever order arrivals, moves,
\* renumberings, failures, stops and crashes come in.
THEOREM NoneMissed == Spec => []NoMessageIsMissed
<1>1. ASSUME IInv PROVE NoMessageIsMissed
    <2> SUFFICES ASSUME NEW m \in Message, place[m] # None,
                        cursor[place[m].folder] # None,
                        cursor[place[m].folder].validity = validity[place[m].folder],
                        place[m].uid <= cursor[place[m].folder].last
                 PROVE  row[m] # None \/ m \in poisoned
        BY DEF NoMessageIsMissed
    <2>1. place[m].folder \in Folder
        BY <1>1 DEF IInv, Server, Spot
    <2>2. UpTo(place[m].folder, cursor[place[m].folder].last)
        BY <1>1, <2>1 DEF IInv, Cursors
    <2> QED
        BY <2>2 DEF UpTo, Placed, Accounted, Recorded
<1> QED
    BY <1>1, Invariant, PTL

\* A request that waits is answered by its own task only: the mail loop runs it, or the
\* answer is a refusal, or the loop is gone.
LEMMA Accepts ==
    ASSUME IInv, [Next]_vars, NEW r \in Req, req[r].step = "waiting",
           req'[r].step \notin {"waiting", "refused"}, at' # "gone"
    PROVE  RunTask /\ Head(queue).req = r
<1>1. Calls /\ Asked /\ Queued /\ Tables
    BY DEF IInv, Mirror
<1>2. req'[r] # req[r]
    OBVIOUS
<1>3. ASSUME Shift, NEW step, Answer(Head(queue).req, step) PROVE Head(queue).req = r
    <2>1. /\ Head(queue).req \in Req \cup {None}
          /\ Head(queue).req # None => req[Head(queue).req].step # "free"
        BY <1>1, <1>3, HeadTask DEF Shift
    <2> QED
        BY <1>1, <1>2, <1>3, <2>1, Answers
<1>4. CASE RunTask
    BY <1>3, <1>4 DEF RunTask
<1>5. CASE TaskRefused \/ TaskAnswerLost
    <2>1. Shift /\ Answer(Head(queue).req, "refused")
        BY <1>5 DEF TaskRefused, TaskAnswerLost
    <2>2. Head(queue).req = r
        BY <1>3, <2>1
    <2>3. r # None
        BY MailAssumption
    <2>4. req'[r].step = "refused"
        BY <1>1, <2>1, <2>2, <2>3 DEF Answer, Calls, Call
    <2> QED
        BY <2>4
<1>6. ASSUME NEW q \in Req, Request(q) PROVE FALSE
    <2>1. CASE RevertMove(q) \/ RevertFails(q)
        <3>1. req[q].step = "refused" /\ Answer(q, "done")
            BY <2>1 DEF RevertMove, RevertFails
        <3>2. req'[r] = req[r]
            BY <1>1, <3>1, Answers
        <3> QED
            BY <1>2, <3>2
    <2>2. CASE \E filing \in BOOLEAN : ApplyOptimisticMove(q, filing)
        BY <1>1, <1>2, <2>2 DEF ApplyOptimisticMove, Calls
    <2>3. CASE \E f \in Folder : QueueMove(q, f)
        BY <1>1, <1>2, <2>3 DEF QueueMove, Calls
    <2> QED
        BY <1>6, <2>1, <2>2, <2>3 DEF Request
<1>7. ASSUME NEW q \in Req, NEW t \in Folder, NEW ms \in SUBSET Message, Collect(q, t, ms)
      PROVE  FALSE
    BY <1>1, <1>2, <1>7, Collects
<1>8. CASE BeginPass \/ Wake \/ Restart \/ Teardown
    BY <1>2, <1>8 DEF BeginPass, Wake, Restart, Teardown
<1>9. CASE InPass
    BY <1>2, <1>9 DEF InPass, OpenFolder, FetchNewer, IngestOne, MessageVanished, SkipPoison,
                      NextDescriptor, SaveCursor, FetchFlags, ReconcileFlags, EndPass
<1>10. CASE Stop \/ Crash \/ PassFails \/ (\E m \in Message : MarkRead(m))
    BY <1>2, <1>10 DEF Stop, Crash, PassFails, MarkRead
<1>11. ASSUME EventKeeps PROVE FALSE
    BY <1>2, <1>11 DEF EventKeeps, calls
<1>12. CASE UNCHANGED vars
    BY <1>2, <1>12 DEF vars
<1>13. CASE Environment
    BY <1>7, <1>10, <1>11, <1>13, EventsKeep DEF Environment
<1>14. CASE Between
    BY <1>4, <1>5, <1>8, <1>14 DEF Between
<1> QED
    BY <1>6, <1>9, <1>12, <1>13, <1>14 DEF Next, Loop

\* An accepted move has moved the messages the user asked for and no others, but for the
\* folders that were ever renumbered.
THEOREM MovedAsAsked == Spec => AcceptedMoveIsAsAsked
<1>1. ASSUME IInv, [Next]_vars, NEW r \in Req, req[r].step = "waiting",
             req'[r].step \notin {"waiting", "refused"}, at' # "gone",
             NEW m \in Message, place[m] # None, ~(validity[place[m].folder] > 1)
      PROVE  place'[m] # place[m] <=>
                \E c \in req[r].group : c.id = m /\ place[m] = [folder |-> c.folder,
                                                                uid |-> c.uid]
    <2>1. Server /\ Calls /\ Asked /\ Queued /\ Same
        BY <1>1 DEF IInv, Mirror
    <2>2. RunTask /\ Head(queue).req = r /\ queue # <<>>
        BY <1>1, Accepts DEF RunTask, Shift
    <2>3. PICK task \in Task : task = Head(queue)
        BY <2>1, <2>2, HeadTask
    <2>4. r # None
        BY MailAssumption
    <2>5. /\ task.target = req[r].target /\ task.target \in Folder /\ task.target # None
          /\ \A c \in req[r].group : c.folder = task.folder
          /\ task.uids = {c.uid : c \in req[r].group}
        <3>1. Awaited(task, req) /\ task.req = r
            BY <2>1, <2>2, <2>3, HeadTask
        <3>2. req[r].target \in Folder
            BY <1>1, <2>1 DEF Asked
        <3> QED
            BY <2>4, <3>1, <3>2, MailAssumption DEF Awaited
    <2> DEFINE ms == AtUids(task.folder, task.uids)
    <2>6. PutAt(ms, task.target) /\ UNCHANGED <<flag, validity>>
        BY <2>2, <2>3, <2>5 DEF RunTask, ServerDoes, ServerMoves
    <2>7. /\ \A n \in Message \ ms : place'[n] = place[n]
          /\ \A n \in ms : Placed(n, task.target)' /\ next[task.target] <= place'[n].uid
          /\ Server'
        BY <2>1, <2>5, <2>6, AtUidsApart, Puts DEF Server
    <2>8. place[m] \in Spot /\ place[m].folder \in Folder /\ validity[place[m].folder] = 1
        BY <1>1, <2>1 DEF Server, Spot
    <2>9. m \in ms <=> place[m].folder = task.folder /\ place[m].uid \in task.uids
        BY <1>1 DEF AtUids
    <2>10. ASSUME m \in ms PROVE place'[m] # place[m]
        <3>1. SUFFICES ASSUME place'[m] = place[m] PROVE FALSE
            OBVIOUS
        <3>2. Placed(m, task.target) /\ next[task.target] <= place[m].uid
            BY <1>1, <2>7, <2>10, <3>1 DEF Placed
        <3>3. place[m].uid < next[task.target]
            BY <2>1, <2>5, <3>2 DEF Server
        <3> QED
            BY <2>1, <2>5, <2>8, <3>2, <3>3 DEF Server, Spot, Uid
    <2>11. ASSUME m \in ms
           PROVE  \E c \in req[r].group : c.id = m /\ place[m] = [folder |-> c.folder,
                                                                  uid |-> c.uid]
        <3>1. PICK c \in req[r].group : c.uid = place[m].uid
            BY <2>5, <2>9, <2>11
        <3>2. c \in req[r].left /\ c.folder = place[m].folder
            BY <2>1, <2>5, <2>9, <2>11, <3>1 DEF Asked
        <3>3. Was(c.id, place[m].folder, place[m].uid)
            BY <2>1, <2>8, <3>1, <3>2 DEF Same, Known
        <3>4. c.id = m
            BY <1>1, <3>3 DEF Was, Placed
        <3>5. place[m] = [folder |-> c.folder, uid |-> c.uid]
            BY <2>8, <3>1, <3>2 DEF Spot
        <3> QED
            BY <3>4, <3>5
    <2>12. ASSUME NEW c \in req[r].group, place[m] = [folder |-> c.folder, uid |-> c.uid]
           PROVE  m \in ms
        <3>1. place[m].folder = c.folder /\ place[m].uid = c.uid
            BY <2>12
        <3> QED
            BY <2>5, <2>9, <3>1
    <2> HIDE DEF ms
    <2> QED
        BY <2>7, <2>10, <2>11, <2>12
<1>2. ASSUME IInv, [Next]_vars
      PROVE  \A r \in Req :
                (/\ req[r].step = "waiting" /\ req'[r].step \notin {"waiting", "refused"}
                 /\ at' # "gone") =>
                    \A m \in {n \in Message : place[n] # None} :
                        \/ validity[place[m].folder] > 1
                        \/ place'[m] # place[m] <=>
                              \E c \in req[r].group : c.id = m /\ place[m] = [folder |-> c.folder,
                                                                           uid |-> c.uid]
    BY <1>1, <1>2
<1> QED
    BY <1>2, Invariant, PTL DEF Spec, AcceptedMoveIsAsAsked
-----------------------------------------------------------------------------
\* The first of some numbers, and the last of those under a bound.
LEMMA Least ==
    ASSUME NEW us, us \subseteq Nat, us # {}
    PROVE  \E u \in us : \A v \in us : u <= v
<1> DEFINE less == OpToRel(<, Nat)
<1>1. IsWellFoundedOn(less, Nat)
    BY NatLessThanWellFounded
<1>2. \A u, v \in Nat : v < u => <<v, u>> \in less
    BY DEF OpToRel
<1> HIDE DEF less
<1>3. PICK u \in us : \A v \in us : <<v, u>> \notin less
    BY <1>1, WFMin
<1>4. ASSUME NEW v \in us PROVE u <= v
    <2>1. u \in Nat /\ v \in Nat /\ ~(v < u)
        BY <1>2, <1>3
    <2> QED
        BY <2>1
<1> QED
    BY <1>4
LEMMA Greatest ==
    ASSUME NEW us, us \subseteq Nat, us # {}, NEW w \in Nat, \A u \in us : u < w
    PROVE  \E u \in us : \A v \in us : v <= u
<1> DEFINE over == {u \in Nat : \A v \in us : v <= u}
<1>1. w \in over /\ over \subseteq Nat
    <2>1. \A v \in us : v \in Nat /\ v <= w
        OBVIOUS
    <2> QED
        BY <2>1
<1>2. PICK u \in over : \A x \in over : u <= x
    BY <1>1, Least
<1>3. u \in Nat /\ \A v \in us : v <= u
    OBVIOUS
<1>4. ASSUME u \notin us PROVE FALSE
    <2>1. \A v \in us : v \in Nat /\ v <= u - 1 /\ u - 1 \in Nat
        BY <1>3, <1>4
    <2>2. u - 1 \in over
        BY <2>1
    <2> QED
        BY <1>2, <1>3, <2>2
<1> QED
    BY <1>3, <1>4

\* A batch is empty only if there is nothing to take it from, and full if it leaves anything.
LEMMA FirstOfAll ==
    ASSUME NEW us, us \subseteq Nat
    PROVE  /\ us # {} => FirstOf(us) # {}
           /\ us \ FirstOf(us) # {} => Cardinality(FirstOf(us)) = BatchSize
<1> DEFINE below(u) == {v \in us : v < u}
           first == FirstOf(us)
<1>1. first = {u \in us : Cardinality(below(u)) < BatchSize}
    BY DEF FirstOf
<1>2. \A u \in us : IsFiniteSet(below(u)) /\ Cardinality(below(u)) \in Nat
    <2> SUFFICES ASSUME NEW u \in us
                 PROVE  IsFiniteSet(below(u)) /\ Cardinality(below(u)) \in Nat
        OBVIOUS
    <2>1. u \in Nat /\ \A v \in below(u) : v <= u
        OBVIOUS
    <2>2. below(u) \in SUBSET Nat
        OBVIOUS
    <2> HIDE DEF below
    <2> QED
        BY <2>1, <2>2, FS_BoundedSetOfNaturals, FS_CardinalityType
<1>3. BatchSize \in Nat \ {0}
    BY MailAssumption
<1>4. ASSUME us # {} PROVE first # {}
    <2>1. PICK u \in us : \A v \in us : u <= v
        BY <1>4, Least
    <2>2. below(u) = {}
        <3>1. ASSUME NEW v \in us PROVE ~(v < u)
            <4>1. v \in Nat /\ u \in Nat /\ u <= v
                BY <2>1
            <4> QED
                BY <4>1
        <3> QED
            BY <3>1
    <2>3. Cardinality(below(u)) = 0
        BY <2>2, FS_EmptySet
    <2> QED
        BY <1>1, <1>3, <2>3
<1>5. ASSUME us \ first # {} PROVE Cardinality(first) = BatchSize
    <2>1. PICK w \in us \ first : \A v \in us \ first : w <= v
        <3>1. us \ first \subseteq Nat
            OBVIOUS
        <3> HIDE DEF first
        <3> QED
            BY <1>5, <3>1, Least
    <2>2. w \in us /\ w \in Nat /\ ~(Cardinality(below(w)) < BatchSize)
        BY <1>1, <2>1
    <2>3. first = below(w)
        <3>1. \A u \in first : u < w
            BY <2>1, FirstComesFirst
        <3>2. ASSUME NEW v \in us, v < w PROVE v \in first
            <4>1. v \in Nat /\ ~(w <= v)
                BY <2>2, <3>2
            <4> HIDE DEF first
            <4> QED
                BY <2>1, <3>2, <4>1
        <3>3. first \subseteq us
            BY <1>1
        <3> HIDE DEF first
        <3> QED
            BY <3>1, <3>2, <3>3
    <2>4. first # {}
        BY <1>4, <1>5
    <2>5. first \subseteq Nat /\ \A u \in first : u < w
        BY <2>3
    <2>6. PICK x \in first : \A v \in first : v <= x
        <3> HIDE DEF first
        <3> QED
            BY <2>2, <2>4, <2>5, Greatest
    <2>7. x \in us /\ x \in Nat /\ Cardinality(below(x)) < BatchSize
        BY <1>1, <2>6
    <2>8. first = below(x) \cup {x} /\ x \notin below(x)
        <3>1. ASSUME NEW v \in us PROVE v \in first <=> v < x \/ v = x
            <4>1. v \in Nat /\ x \in Nat /\ w \in Nat /\ x < w
                BY <2>2, <2>5, <2>6, <2>7
            <4>2. v \in first => v <= x
                BY <2>6
            <4>3. v \in first <=> v < w
                BY <2>3
            <4> QED
                BY <4>1, <4>2, <4>3
        <3>2. first \subseteq us /\ ~(x < x)
            BY <1>1, <2>7
        <3> HIDE DEF first
        <3> QED
            BY <2>7, <3>1, <3>2
    <2>9. Cardinality(first) = Cardinality(below(x)) + 1
        BY <1>2, <2>7, <2>8, FS_AddElement
    <2>10. /\ Cardinality(first) = Cardinality(below(w))
           /\ Cardinality(below(w)) \in Nat /\ Cardinality(below(x)) \in Nat
        BY <1>2, <2>2, <2>3, <2>7
    <2> HIDE DEF first, below
    <2> QED
        BY <1>3, <2>2, <2>7, <2>9, <2>10
<1> QED
    BY <1>4, <1>5
-----------------------------------------------------------------------------
\* The stages of a pass: which folder it is in, and when its list is used up.
InAFolder == at \in {"fetch", "ingest", "save", "flags", "reconcile"}
Stages ==
    /\ at = "folder" => pass.folder = None
    /\ InAFolder => pass.folder \in Folder
    /\ at \in {"ingest", "save"} /\ ~pass.full => pass.walk = {}
    /\ at \in {"flags", "reconcile"} => pass.walk = {}

\* The cursor of a folder is of the folder as it is numbered; a row says what the server
\* has, or may say something else; and all rows of the folder do.
Opened(f) == cursor[f] # None /\ cursor[f].validity = validity[f]
Exact(m) == Excused(m) \/ Original(m) \/ (Right(m) /\ row[m].seen = (m \in flag))
Clean(f) == Opened(f) /\ \A m \in Message : Placed(m, f) => Exact(m)

\* The folder the pass is in: what is not accounted for yet is on the list, and the flags
\* that were fetched are those the server has.
Ahead(f) == \A m \in Message : Placed(m, f) => Accounted(m) \/ place[m].uid \in Listed
Noted(f) ==
    \A m \in Message : Placed(m, f) /\ place[m].uid \in pass.batch =>
        (place[m].uid \in pass.marked <=> m \in flag)
Halfway(f) ==
    /\ Opened(f)
    /\ Walking => pass.validity = validity[f]
    /\ (at = "fetch" => pass.walk # {}) => Ahead(f)
    /\ at \in {"ingest", "reconcile"} => Noted(f)
    /\ at = "reconcile" => pass.batch = UidsOf(f)

\* While nothing else happens, the folders that the pass has left are clean, and after a
\* whole pass all that are walked are.
Left(f) == settled = "yes" \/ f \notin pass.todo \cup {pass.folder}
Quiet ==
    settled # "no" =>
        /\ settled = "fresh" => at = "folder" \/ InAFolder
        /\ \A f \in Visited : Left(f) => Clean(f)
        /\ \A f \in Folder : InAFolder /\ pass.folder = f => Halfway(f)

\* Every step keeps what is said of the stages.
LEMMA StepStages ==
    ASSUME IInv, Stages, [Next]_vars
    PROVE  Stages'
<1>1. LoopState
    BY DEF IInv, Mirror
<1>2. ASSUME pass' = pass, at' = at PROVE Stages'
    BY <1>2 DEF Stages, InAFolder
<1>3. ASSUME at' \notin {"folder", "fetch", "ingest", "save", "flags", "reconcile"}
      PROVE  Stages'
    BY <1>3 DEF Stages, InAFolder
<1>4. ASSUME NEW f \in Folder, OpenFolder(f) PROVE Stages'
    <2>1. at' = "fetch" /\ pass'.folder = f
        BY <1>4 DEF OpenFolder, NoPass
    <2> QED
        BY <2>1 DEF Stages, InAFolder
<1>5. CASE FetchNewer
    <2> DEFINE pending == IF pass.walk # {} THEN pass.walk
                          ELSE {u \in UidsOf(pass.folder) : u > pass.last}
               batch == FirstOf(pending)
    <2>1. /\ at = "fetch" /\ at' = (IF batch = {} THEN "flags" ELSE "ingest")
          /\ pass'.folder = pass.folder /\ pass'.walk = pending \ batch
          /\ pass'.full = (Cardinality(batch) = BatchSize)
        BY <1>1, <1>5 DEF FetchNewer, LoopState, Pass
    <2>2. pending \subseteq Nat
        <3>1. pass.walk \subseteq Nat /\ UidsOf(pass.folder) \subseteq Nat
            BY <1>1, UidsAreUids DEF LoopState, Pass, Uid, IInv
        <3> QED
            BY <3>1
    <2> HIDE DEF pending
    <2>3. /\ batch = {} => pending = {}
          /\ pending \ batch # {} => Cardinality(batch) = BatchSize
        BY <2>2, FirstOfAll
    <2>4. pass.folder \in Folder
        BY <2>1 DEF Stages, InAFolder
    <2> HIDE DEF batch
    <2> QED
        BY <2>1, <2>3, <2>4 DEF Stages, InAFolder
<1>6. ASSUME NEW u \in pass.batch, NextDescriptor(u) PROVE Stages'
    <2>1. /\ at = "ingest" /\ at' \in {"ingest", "save"}
          /\ pass'.folder = pass.folder /\ pass'.walk = pass.walk /\ pass'.full = pass.full
        BY <1>1, <1>6 DEF NextDescriptor, LoopState, Pass
    <2> QED
        BY <2>1 DEF Stages, InAFolder
<1>7. CASE SaveCursor
    <2>1. /\ at = "save" /\ at' = (IF pass.full THEN "fetch" ELSE "flags")
          /\ pass'.folder = pass.folder /\ pass'.walk = pass.walk
        BY <1>1, <1>7 DEF SaveCursor, LoopState, Pass
    <2> QED
        BY <2>1 DEF Stages, InAFolder
<1>8. CASE FetchFlags
    <2>1. /\ at = "flags" /\ at' = "reconcile"
          /\ pass'.folder = pass.folder /\ pass'.walk = pass.walk
        BY <1>1, <1>8 DEF FetchFlags, LoopState, Pass
    <2> QED
        BY <2>1 DEF Stages, InAFolder
<1>9. CASE ReconcileFlags
    BY <1>9 DEF ReconcileFlags, NoPass, Stages, InAFolder
<1>10. CASE BeginPass
    <2>1. CASE due
        BY <1>10, <2>1 DEF BeginPass, NoPass, Stages, InAFolder
    <2>2. CASE ~due
        BY <1>3, <1>10, <2>2 DEF BeginPass
    <2> QED
        BY <2>1, <2>2
<1>11. CASE EndPass \/ Wake \/ Restart \/ Teardown \/ Crash \/ PassFails
    BY <1>3, <1>11 DEF EndPass, Wake, Restart, Teardown, Crash, PassFails
<1>12. CASE RunTask \/ TaskRefused \/ TaskAnswerLost
    BY <1>2, <1>12 DEF RunTask, TaskRefused, TaskAnswerLost, Shift, loopVars
<1>13. ASSUME EventKeeps PROVE Stages'
    BY <1>2, <1>13 DEF EventKeeps
<1>14. ASSUME NEW r \in Req, Request(r) PROVE Stages'
    BY <1>2, <1>14 DEF Request, ApplyOptimisticMove, QueueMove, RevertMove, RevertFails, loopVars
<1>15. ASSUME \/ \E m \in Message : MarkRead(m)
              \/ \E r \in Req, t \in Folder, ms \in SUBSET Message : Collect(r, t, ms)
              \/ Stop
       PROVE  Stages'
    BY <1>2, <1>15 DEF MarkRead, Collect, Stop, loopVars
<1>16. CASE UNCHANGED vars
    BY <1>2, <1>16 DEF vars, loopVars
<1>17. CASE Environment
    BY <1>11, <1>13, <1>15, <1>17, EventsKeep DEF Environment
<1>18. CASE InPass
    BY <1>4, <1>5, <1>6, <1>7, <1>8, <1>9, <1>11, <1>18
    DEF InPass, IngestOne, MessageVanished, SkipPoison
<1> QED
    BY <1>10, <1>11, <1>12, <1>14, <1>16, <1>17, <1>18 DEF Next, Loop, Between

\* A step with nothing else going on.
Undisturbed == UNCHANGED serverVars /\ synced' = synced
LEMMA QuietSteps ==
    ASSUME [Next]_vars, settled' # "no"
    PROVE  /\ \/ BeginPass \/ Wake \/ Restart \/ Teardown \/ Stop \/ PassFails \/ InPass
              \/ \E r \in Req, t \in Folder, ms \in SUBSET Message : Collect(r, t, ms)
              \/ \E r \in Req, f \in Folder : QueueMove(r, f)
              \/ UNCHANGED vars
           /\ Undisturbed
<1>1. ASSUME NEW m \in Message,
             \/ Arrive(m) \/ OtherClientFlags(m) \/ MarkRead(m)
             \/ \E f \in Folder : OtherClientMoves(m, f)
      PROVE  FALSE
    BY <1>1 DEF Arrive, OtherClientFlags, MarkRead, OtherClientMoves, Event
<1>2. ASSUME \/ \E f \in Folder : Renumber(f)
             \/ \E f \in Other : SetFolderSyncEnabled(f)
             \/ Crash
      PROVE  FALSE
    BY <1>2 DEF Renumber, SetFolderSyncEnabled, Event, Crash
<1>3. ASSUME RunTask \/ TaskRefused \/ TaskAnswerLost PROVE FALSE
    BY <1>3 DEF RunTask, TaskRefused, TaskAnswerLost, Shift
<1>4. ASSUME NEW r \in Req,
             (\E filing \in BOOLEAN : ApplyOptimisticMove(r, filing)) \/ RevertMove(r)
             \/ RevertFails(r)
      PROVE  FALSE
    <2>1. settled' = "no"
        BY <1>4, Zenon DEF ApplyOptimisticMove, RevertMove, RevertFails
    <2> QED
        BY <2>1
<1>5. \/ BeginPass \/ Wake \/ Restart \/ Teardown \/ Stop \/ PassFails \/ InPass
      \/ \E r \in Req, t \in Folder, ms \in SUBSET Message : Collect(r, t, ms)
      \/ \E r \in Req, f \in Folder : QueueMove(r, f)
      \/ UNCHANGED vars
    BY <1>1, <1>2, <1>3, <1>4 DEF Next, Loop, Between, Environment, Request
<1>6. CASE BeginPass \/ Wake \/ Restart \/ Teardown \/ Stop \/ PassFails
    BY <1>6 DEF Undisturbed, BeginPass, Wake, Restart, Teardown, Stop, PassFails
<1>7. CASE InPass
    BY <1>7 DEF Undisturbed, InPass, OpenFolder, FetchNewer, IngestOne, MessageVanished,
                SkipPoison, NextDescriptor, SaveCursor, FetchFlags, ReconcileFlags, EndPass
<1>8. CASE \/ \E r \in Req, t \in Folder, ms \in SUBSET Message : Collect(r, t, ms)
           \/ \E r \in Req, f \in Folder : QueueMove(r, f)
    BY <1>8 DEF Undisturbed, Collect, QueueMove
<1>9. CASE UNCHANGED vars
    BY <1>9 DEF Undisturbed, vars
<1> QED
    BY <1>5, <1>6, <1>7, <1>8, <1>9

\* A message that is where a request with moved rows found it is there still.
LEMMA OriginalStays ==
    ASSUME IInv, [Next]_vars, settled' # "no", NEW m \in Message, Original(m)
    PROVE  Original(m)'
<1>1. UNCHANGED place
    BY QuietSteps DEF Undisturbed, serverVars
<1>2. ASSUME \A q \in Req : SameMove(q) PROVE Original(m)'
    BY <1>1, <1>2 DEF Original, SameMove, InPlace
<1>3. ASSUME req' = req PROVE Original(m)'
    BY <1>2, <1>3 DEF SameMove, Moving
<1>4. CASE \/ BeginPass \/ Wake \/ Restart \/ Teardown \/ Stop \/ PassFails
           \/ \E r \in Req, t \in Folder, ms \in SUBSET Message : Collect(r, t, ms)
           \/ \E r \in Req, f \in Folder : QueueMove(r, f)
           \/ UNCHANGED vars
    BY <1>2, <1>4, CalmSteps DEF Calm
<1>5. CASE InPass
    BY <1>3, <1>5 DEF InPass, OpenFolder, FetchNewer, IngestOne, MessageVanished, SkipPoison,
                      NextDescriptor, SaveCursor, FetchFlags, ReconcileFlags, EndPass
<1> QED
    BY <1>4, <1>5, QuietSteps

\* A row that a step leaves alone says what it said.
LEMMA ExactStays ==
    ASSUME IInv, [Next]_vars, settled' # "no", NEW m \in Message, Exact(m),
           row'[m] = row[m], Excused(m) => Excused(m)'
    PROVE  Exact(m)'
<1>1. UNCHANGED <<place, flag>>
    BY QuietSteps DEF Undisturbed, serverVars
<1>2. Original(m) => Original(m)'
    BY OriginalStays
<1> QED
    BY <1>1, <1>2 DEF Exact, Right

\* What is said of the folder the pass is in, and is not of the pass.
LEMMA CleanStays ==
    ASSUME [Next]_vars, settled' # "no", NEW f \in Folder, Clean(f), Opened(f)',
           \A m \in Message : Placed(m, f) /\ Exact(m) => Exact(m)'
    PROVE  Clean(f)'
<1>1. UNCHANGED place
    BY QuietSteps DEF Undisturbed, serverVars
<1> QED
    BY <1>1 DEF Clean, Placed
LEMMA AheadStays ==
    ASSUME IInv, [Next]_vars, settled' # "no", NEW f \in Folder, Ahead(f), ~Resets(f),
           \A m \in Message : Placed(m, f) /\ place[m].uid \in Listed =>
               place[m].uid \in Listed' \/ Accounted(m)'
    PROVE  Ahead(f)'
<1>1. UNCHANGED place
    BY QuietSteps DEF Undisturbed, serverVars
<1>2. Keeps(f)
    BY StepKeeps
<1>3. ASSUME NEW m \in Message, Placed(m, f)
      PROVE  Accounted(m)' \/ place'[m].uid \in Listed'
    <2>1. Accounted(m) \/ place[m].uid \in Listed
        BY <1>3 DEF Ahead
    <2> QED
        BY <1>1, <1>2, <1>3, <2>1 DEF Keeps
<1> QED
    BY <1>1, <1>3 DEF Ahead, Placed

\* The flags that a batch is fetched with are those of its messages.
LEMMA SeenAreFlagged ==
    ASSUME IInv, NEW f \in Folder, NEW us, NEW m \in Message, Placed(m, f), place[m].uid \in us
    PROVE  place[m].uid \in Seen(f, us) <=> m \in flag
<1>1. place[m] = [folder |-> f, uid |-> place[m].uid] /\ place[m] # None
    BY Facts DEF Placed
<1>2. \A n \in flag : n \in Message /\ (place[n] = place[m] => n = m)
    BY <1>1 DEF IInv, Server
<1>3. place[m].uid \in Seen(f, us) <=> \E n \in flag : place[n] = place[m]
    BY <1>1 DEF Seen
<1> QED
    BY <1>2, <1>3

\* Quiet for a step into a folder, in it and out of it.
LEMMA OpenFolderQuiet ==
    ASSUME IInv, Stages, Quiet, [Next]_vars, settled' # "no", NEW g \in Folder, OpenFolder(g)
    PROVE  Quiet'
<1>1. Tables /\ LoopState /\ UNCHANGED serverVars /\ synced' = synced
    BY QuietSteps DEF IInv, Mirror, Undisturbed
<1>2. /\ at = "folder" /\ at' = "fetch" /\ g \in pass.todo
      /\ pass'.folder = g /\ pass'.todo = pass.todo \ {g} /\ pass'.validity = validity[g]
      /\ pass'.walk = {} /\ UNCHANGED <<settled, poisoned, adrift>>
    BY <1>1, OpenFolder(g) DEF OpenFolder, NoPass, history
<1>3. pass.folder = None /\ None \notin Folder
    BY <1>2, MailAssumption DEF Stages
<1>4. \A f \in Folder : f # g => cursor'[f] = cursor[f]
    BY <1>1, OpenFolder(g) DEF OpenFolder, Tables
<1>5. Opened(g)'
    <2>1. cursor'[g] # None /\ cursor'[g].validity = validity[g]
        <3>1. CASE Opened(g)
            BY <3>1, OpenFolder(g) DEF OpenFolder, Opened
        <3>2. CASE ~Opened(g)
            <4>1. cursor' = [cursor EXCEPT ![g] = [validity |-> validity[g], last |-> 0]]
                BY <3>2, OpenFolder(g) DEF OpenFolder, Opened
            <4>2. cursor'[g] = [validity |-> validity[g], last |-> 0]
                BY <1>1, <4>1 DEF Tables
            <4>3. [validity |-> validity[g], last |-> 0] \in Cursor
                BY DEF IInv, Server, Cursor, Uid
            <4> QED
                BY <4>2, <4>3, Nothing
        <3> QED
            BY <3>1, <3>2
    <2> QED
        BY <1>1, <2>1 DEF Opened, serverVars
<1>6. ASSUME NEW m \in Message, row[m] = None \/ row[m].folder # g \/ Opened(g)
      PROVE  row'[m] = row[m]
    BY <1>6, OpenFolder(g) DEF OpenFolder, Opened
<1>7. ASSUME NEW f \in Folder, f # g \/ Opened(g), Clean(f) PROVE Clean(f)'
    <2>1. Opened(f)'
        BY <1>1, <1>4, <1>5, <1>7 DEF Clean, Opened, serverVars
    <2>2. ASSUME NEW m \in Message, Placed(m, f), Exact(m) PROVE Exact(m)'
        <3>1. Excused(m) => Excused(m)'
            BY <1>2 DEF Excused
        <3>2. CASE Right(m)
            <4>1. row[m].folder # g \/ Opened(g)
                BY <1>7, <2>2, <3>2 DEF Right, Placed
            <4> QED
                BY <1>6, <2>2, <3>1, <4>1, ExactStays
        <3>3. CASE ~Right(m)
            BY <2>2, <3>1, <3>3, OriginalStays DEF Exact
        <3> QED
            BY <3>2, <3>3
    <2> QED
        BY <1>7, <2>1, <2>2, CleanStays
<1>8. ASSUME NEW f \in Visited, Left(f)' PROVE Clean(f)'
    <2>1. f \in Folder
        BY <1>1, <1>8, MailAssumption DEF Visited, Tables, Folder
    <2>2. Left(f) /\ Clean(f)
        BY <1>2, <1>3, <1>8, <2>1 DEF Left, Quiet
    <2>3. f # g \/ Opened(g)
        BY <2>2 DEF Clean
    <2> QED
        BY <1>7, <2>1, <2>2, <2>3
<1>9. Halfway(g)'
    BY <1>1, <1>2, <1>5 DEF Halfway, serverVars
<1> QED
    BY <1>1, <1>2, <1>8, <1>9 DEF Quiet, InAFolder, Visited

LEMMA FetchNewerQuiet ==
    ASSUME IInv, Stages, Quiet, [Next]_vars, settled' # "no", FetchNewer
    PROVE  Quiet'
<1> DEFINE pending == IF pass.walk # {} THEN pass.walk
                      ELSE {u \in UidsOf(pass.folder) : u > pass.last}
           batch == FirstOf(pending)
<1>1. Tables /\ LoopState /\ UNCHANGED serverVars /\ synced' = synced /\ Server
    BY QuietSteps DEF IInv, Mirror, Undisturbed
<1>2. PICK f \in Folder : f = pass.folder
    BY FetchNewer DEF FetchNewer, Stages, InAFolder
<1>3. /\ at = "fetch" /\ at' = (IF batch = {} THEN "flags" ELSE "ingest")
      /\ pass'.folder = f /\ pass'.todo = pass.todo /\ pass'.validity = pass.validity
      /\ pass'.batch = batch /\ pass'.marked = Seen(f, batch) /\ pass'.walk = pending \ batch
      /\ UNCHANGED <<settled, poisoned, adrift, row, cursor>>
    BY <1>1, <1>2, FetchNewer DEF FetchNewer, LoopState, Pass, history
<1>4. Halfway(f)
    BY <1>2, <1>3 DEF Quiet, InAFolder
<1>5. pending \subseteq Nat /\ pass.last \in Nat
    <2>1. pass.walk \subseteq Nat /\ UidsOf(pass.folder) \subseteq Nat /\ pass.last \in Nat
        BY <1>1, UidsAreUids DEF LoopState, Pass, Uid
    <2> QED
        BY <2>1
<1>6. ASSUME NEW m \in Message, Placed(m, f) PROVE Accounted(m) \/ place[m].uid \in pending
    <2>1. CASE pass.walk # {}
        BY <1>3, <1>4, <1>6, <2>1 DEF Halfway, Ahead, Listed
    <2>2. CASE pass.walk = {}
        <3>1. UpTo(f, pass.last)
            <4>1. pass.validity = validity[f]
                BY <1>3, <1>4 DEF Halfway, Walking
            <4> QED
                BY <1>2, <1>3, <4>1 DEF IInv, Walk, Walking, Scan, Scanned, Reached
        <3>2. place[m].uid \in UidsOf(f) /\ place[m].uid \in Nat
            BY <1>6, Facts DEF UidsOf, Placed
        <3>3. place[m].uid <= pass.last \/ place[m].uid > pass.last
            BY <1>5, <3>2
        <3> QED
            BY <1>2, <1>6, <2>2, <3>1, <3>2, <3>3 DEF UpTo
    <2> QED
        BY <2>1, <2>2
<1>7. batch \subseteq pending /\ (batch = {} => pending = {})
    BY <1>5, FirstOfAll DEF FirstOf
<1>8. Keeps(f)
    BY <1>3, StepKeeps DEF Resets, OpenFolder
<1> HIDE DEF pending, batch
<1>9. Listed' = pending
    BY <1>3, <1>7 DEF Listed
<1>10. Halfway(f)'
    <2>1. Opened(f)'
        BY <1>1, <1>3, <1>4 DEF Halfway, Opened, serverVars
    <2>2. pass'.validity = validity'[f]
        BY <1>1, <1>3, <1>4 DEF Halfway, Walking, serverVars
    <2>3. Ahead(f)'
        <3>1. ASSUME NEW m \in Message, Placed(m, f)
              PROVE  Accounted(m)' \/ place'[m].uid \in Listed'
            BY <1>1, <1>6, <1>8, <1>9, <3>1 DEF Keeps, serverVars
        <3> QED
            BY <1>1, <3>1 DEF Ahead, Placed, serverVars
    <2>4. Noted(f)'
        <3>1. ASSUME NEW m \in Message, Placed(m, f), place[m].uid \in batch
              PROVE  place[m].uid \in Seen(f, batch) <=> m \in flag
            BY <3>1, SeenAreFlagged
        <3> QED
            BY <1>1, <1>3, <3>1 DEF Noted, Placed, serverVars
    <2>5. at' # "reconcile"
        BY <1>3
    <2> QED
        BY <2>1, <2>2, <2>3, <2>4, <2>5 DEF Halfway
<1>11. ASSUME NEW g \in Visited, Left(g)' PROVE Clean(g)'
    <2>1. g \in Folder
        BY <1>1, <1>11, MailAssumption DEF Visited, Tables, Folder
    <2>2. Clean(g)
        BY <1>2, <1>3, <1>11 DEF Left, Quiet
    <2>3. Opened(g)'
        BY <1>1, <1>3, <2>2 DEF Clean, Opened, serverVars
    <2>4. \A m \in Message : Exact(m) => Exact(m)'
        BY <1>3, ExactStays DEF Excused
    <2> QED
        BY <2>1, <2>2, <2>3, <2>4, CleanStays
<1> QED
    BY <1>1, <1>3, <1>10, <1>11 DEF Quiet, InAFolder, Visited

\* What is taken off the batch: the message now says what the server has.
LEMMA TakenExactly ==
    ASSUME IInv, Stages, [Next]_vars, settled' # "no", NEW u \in pass.batch,
           IngestOne(u) \/ MessageVanished(u) \/ SkipPoison(u), Noted(pass.folder),
           NEW m \in Message, Exact(m)
    PROVE  Exact(m)'
<1>1. UNCHANGED serverVars
    BY QuietSteps DEF Undisturbed
<1>2. CASE MessageVanished(u)
    BY <1>2, ExactStays DEF MessageVanished, history, Excused
<1>3. CASE SkipPoison(u)
    BY <1>3, ExactStays DEF SkipPoison, Excused
<1>4. CASE IngestOne(u)
    <2>1. PICK n \in Message :
              /\ n \in AtUids(pass.folder, {u}) /\ place[n] # None
              /\ row'[n] # None /\ row'[n].folder = place[n].folder
              /\ row'[n].uid = place[n].uid /\ row'[n].seen = (u \in pass.marked)
              /\ \A k \in Message \ {n} : row'[k] = row[k]
              /\ poisoned' = poisoned \ {n}
              /\ adrift' = IF n \in Held THEN adrift \cup {n} ELSE adrift \ {n}
        BY <1>4, Sights
    <2>2. CASE m = n
        <3>1. u \in pass.marked <=> m \in flag
            BY <2>1, <2>2 DEF Noted, AtUids, Placed
        <3>2. (u \in pass.marked) = (m \in flag)
            BY <3>1
        <3> QED
            BY <1>1, <2>1, <2>2, <3>2 DEF Exact, Right, serverVars
    <2>3. CASE m # n
        <3>1. row'[m] = row[m] /\ (Excused(m) => Excused(m)')
            BY <2>1, <2>3 DEF Excused
        <3> QED
            BY <3>1, ExactStays
    <2> QED
        BY <2>2, <2>3
<1> QED
    BY <1>2, <1>3, <1>4

LEMMA DescriptorQuiet ==
    ASSUME IInv, Stages, Quiet, [Next]_vars, settled' # "no", NEW u \in pass.batch,
           IngestOne(u) \/ MessageVanished(u) \/ SkipPoison(u)
    PROVE  Quiet'
<1>1. Tables /\ LoopState /\ UNCHANGED serverVars /\ synced' = synced
    BY QuietSteps DEF IInv, Mirror, Undisturbed
<1>2. NextDescriptor(u) /\ settled' = settled
    BY DEF IngestOne, MessageVanished, SkipPoison, history
<1>3. PICK f \in Folder : f = pass.folder
    BY <1>2 DEF NextDescriptor, Stages, InAFolder
<1>4. /\ at = "ingest" /\ at' = (IF pass.batch = {u} THEN "save" ELSE "ingest")
      /\ pass'.folder = f /\ pass'.todo = pass.todo /\ pass'.validity = pass.validity
      /\ pass'.batch = pass.batch \ {u} /\ pass'.marked = pass.marked
      /\ pass'.walk = pass.walk /\ cursor' = cursor
    BY <1>1, <1>2, <1>3 DEF NextDescriptor, LoopState, Pass
<1>5. Halfway(f)
    BY <1>2, <1>3, <1>4 DEF Quiet, InAFolder
<1>6. Opened(f) /\ pass.validity = validity[f] /\ Ahead(f) /\ Noted(f)
    BY <1>4, <1>5 DEF Halfway, Walking
<1>7. Listed = pass.batch \cup pass.walk /\ Listed' = (pass.batch \ {u}) \cup pass.walk
    BY <1>4 DEF Listed
<1>8. Ahead(f)'
    <2>1. ~Resets(f)
        BY <1>4 DEF Resets, OpenFolder
    <2>2. ASSUME NEW m \in Message, Placed(m, f), place[m].uid \in Listed
          PROVE  place[m].uid \in Listed' \/ Accounted(m)'
        BY <1>3, <1>7, <2>2, Taken
    <2> QED
        BY <1>6, <2>1, <2>2, AheadStays
<1>9. Halfway(f)'
    <2>1. Opened(f)' /\ pass'.validity = validity'[f]
        BY <1>1, <1>4, <1>6 DEF Opened, serverVars
    <2>2. Noted(f)'
        BY <1>1, <1>4, <1>6 DEF Noted, Placed, serverVars
    <2> QED
        BY <1>4, <1>8, <2>1, <2>2 DEF Halfway
<1>10. ASSUME NEW g \in Visited, Left(g)' PROVE Clean(g)'
    <2>1. g \in Folder
        BY <1>1, <1>10, MailAssumption DEF Visited, Tables, Folder
    <2>2. Clean(g)
        BY <1>2, <1>3, <1>4, <1>10 DEF Left, Quiet
    <2>3. Opened(g)'
        BY <1>1, <1>4, <2>2 DEF Clean, Opened, serverVars
    <2>4. \A m \in Message : Exact(m) => Exact(m)'
        BY <1>3, <1>6, TakenExactly
    <2> QED
        BY <2>1, <2>2, <2>3, <2>4, CleanStays
<1> QED
    BY <1>1, <1>2, <1>4, <1>9, <1>10 DEF Quiet, InAFolder, Visited

LEMMA SaveCursorQuiet ==
    ASSUME IInv, Stages, Quiet, [Next]_vars, settled' # "no", SaveCursor \/ FetchFlags
    PROVE  Quiet'
<1>1. Tables /\ LoopState /\ UNCHANGED serverVars /\ synced' = synced
    BY QuietSteps DEF IInv, Mirror, Undisturbed
<1>2. at \in {"save", "flags"} /\ UNCHANGED <<row, settled, poisoned, adrift>>
    BY DEF SaveCursor, FetchFlags, history
<1>3. PICK f \in Folder : f = pass.folder
    BY <1>2 DEF Stages, InAFolder
<1>4. Halfway(f)
    BY <1>2, <1>3 DEF Quiet, InAFolder
<1>5. Opened(f) /\ Ahead(f)
    BY <1>2, <1>4 DEF Halfway
<1>6. pass'.folder = f /\ pass'.todo = pass.todo /\ pass'.walk = pass.walk
    BY <1>1, <1>3 DEF SaveCursor, FetchFlags, LoopState, Pass
<1>7. \A g \in Folder : Opened(g) => Opened(g)'
    <2>1. CASE FetchFlags
        BY <1>1, <2>1 DEF FetchFlags, Opened, serverVars
    <2>2. CASE SaveCursor
        <3>1. pass.validity = validity[f] /\ pass.validity \in Nat \ {0} /\ pass.high \in Nat
            BY <1>1, <1>4, <2>2 DEF SaveCursor, Halfway, Walking, LoopState, Pass, IInv, Server, Uid
        <3>2. cursor' = [cursor EXCEPT ![f] = [validity |-> pass.validity, last |-> pass.high]]
            BY <1>3, <2>2 DEF SaveCursor
        <3>3. [validity |-> pass.validity, last |-> pass.high] \in Cursor
            BY <3>1 DEF Cursor, Uid
        <3>4. /\ cursor'[f] # None /\ cursor'[f].validity = validity[f]
              /\ \A g \in Folder \ {f} : cursor'[g] = cursor[g]
            BY <1>1, <3>1, <3>2, <3>3, Nothing DEF Tables
        <3> QED
            BY <1>1, <3>4 DEF Opened, serverVars
    <2> QED
        BY <2>1, <2>2
<1>8. Ahead(f)'
    <2>1. ~Resets(f)
        BY <1>2 DEF Resets, OpenFolder
    <2>2. Listed = pass.walk /\ Listed' = pass.walk
        BY <1>2, <1>6 DEF Listed, SaveCursor, FetchFlags
    <2> QED
        BY <1>5, <2>1, <2>2, AheadStays
<1>9. Halfway(f)'
    <2>1. CASE SaveCursor
        <3>1. at' \in {"fetch", "flags"} /\ pass'.validity = pass.validity
            BY <1>1, <2>1 DEF SaveCursor, LoopState, Pass
        <3>2. pass.validity = validity[f] /\ validity'[f] = validity[f]
            BY <1>1, <1>4, <2>1 DEF Halfway, Walking, SaveCursor, serverVars
        <3> QED
            BY <1>5, <1>7, <1>8, <3>1, <3>2 DEF Halfway
    <2>2. CASE FetchFlags
        <3>1. /\ at' = "reconcile" /\ pass'.batch = UidsOf(f)
              /\ pass'.marked = Seen(f, UidsOf(f))
            BY <1>1, <1>3, <2>2 DEF FetchFlags, LoopState, Pass
        <3>2. pass'.batch = UidsOf(f)'
            BY <1>1, <3>1 DEF UidsOf, serverVars
        <3>3. ASSUME NEW m \in Message, Placed(m, f), place[m].uid \in UidsOf(f)
              PROVE  place[m].uid \in Seen(f, UidsOf(f)) <=> m \in flag
            BY <3>3, SeenAreFlagged
        <3>4. Noted(f)'
            BY <1>1, <3>1, <3>3 DEF Noted, Placed, serverVars
        <3> QED
            BY <1>5, <1>7, <1>8, <3>1, <3>2, <3>4 DEF Halfway, Walking
    <2> QED
        BY <2>1, <2>2
<1>10. ASSUME NEW g \in Visited, Left(g)' PROVE Clean(g)'
    <2>1. g \in Folder
        BY <1>1, <1>10, MailAssumption DEF Visited, Tables, Folder
    <2>2. Clean(g)
        BY <1>2, <1>3, <1>6, <1>10 DEF Left, Quiet
    <2>3. \A m \in Message : Exact(m) => Exact(m)'
        BY <1>2, ExactStays DEF Excused
    <2> QED
        BY <1>7, <2>1, <2>2, <2>3, CleanStays DEF Clean
<1>11. at' \in {"fetch", "flags", "reconcile"}
    BY DEF SaveCursor, FetchFlags
<1> QED
    BY <1>1, <1>2, <1>6, <1>9, <1>10, <1>11 DEF Quiet, InAFolder, Visited

LEMMA ReconcileQuiet ==
    ASSUME IInv, Stages, Quiet, [Next]_vars, settled' # "no", ReconcileFlags
    PROVE  Quiet'
<1>1. Tables /\ LoopState /\ UNCHANGED serverVars /\ synced' = synced
    BY QuietSteps DEF IInv, Mirror, Undisturbed
<1>2. /\ at = "reconcile" /\ at' = "folder" /\ pass'.folder = None /\ pass'.todo = pass.todo
      /\ UNCHANGED <<settled, poisoned, adrift, cursor>>
    BY DEF ReconcileFlags, NoPass, history
<1>3. PICK f \in Folder : f = pass.folder
    BY <1>2 DEF Stages, InAFolder
<1>4. Halfway(f)
    BY <1>2, <1>3 DEF Quiet, InAFolder
<1>5. /\ Opened(f) /\ Ahead(f) /\ Noted(f) /\ pass.batch = UidsOf(f)
      /\ \A m \in Message : Placed(m, f) => Sure(m)
    <2>1. Opened(f) /\ Ahead(f) /\ Noted(f) /\ pass.batch = UidsOf(f)
        BY <1>2, <1>4 DEF Halfway
    <2>2. Listed = {}
        BY <1>2 DEF Listed, Stages
    <2> QED
        BY <2>1, <2>2 DEF Ahead, Accounted
<1>6. ASSUME NEW m \in Message
      PROVE  \/ row'[m] = row[m]
             \/ /\ row[m] # None /\ row[m].folder = f
                /\ row'[m] = [row[m] EXCEPT !.seen = row[m].uid \in pass.marked]
    BY <1>3 DEF ReconcileFlags
<1>7. ASSUME NEW m \in Message, Placed(m, f) PROVE Exact(m)'
    <2>1. CASE Right(m)
        <3>1. /\ row[m] \in Mirrored /\ row[m].folder = f /\ row[m].uid = place[m].uid
              /\ row[m].uid \in pass.batch /\ row[m] # None
            BY <1>1, <1>5, <1>7, <2>1, Facts DEF Right, Placed, UidsOf
        <3>2. row'[m] = [row[m] EXCEPT !.seen = row[m].uid \in pass.marked]
            BY <1>3, <3>1 DEF ReconcileFlags
        <3>3. /\ row'[m] \in Mirrored /\ row'[m].folder = f /\ row'[m].uid = place[m].uid
              /\ row'[m].seen = (place[m].uid \in pass.marked)
            <4>1. PICK b \in BOOLEAN : b = (place[m].uid \in pass.marked)
                <5>1. (place[m].uid \in pass.marked) \in BOOLEAN
                    OBVIOUS
                <5> QED
                    BY <5>1, Zenon
            <4>2. row'[m] = [row[m] EXCEPT !.seen = b]
                BY <3>1, <3>2, <4>1
            <4>3. /\ row'[m] \in Mirrored /\ row'[m].folder = row[m].folder
                  /\ row'[m].uid = row[m].uid /\ row'[m].seen = b
                BY <3>1, <4>2 DEF Mirrored
            <4> QED
                BY <3>1, <4>1, <4>3
        <3>4. place[m].uid \in pass.marked <=> m \in flag
            BY <1>5, <1>7, <3>1 DEF Noted
        <3>5. (place[m].uid \in pass.marked) = (m \in flag)
            BY <3>4
        <3>6. Right(m)'
            BY <1>1, <1>7, <3>3, Nothing DEF Right, Placed, serverVars
        <3> QED
            BY <1>1, <3>3, <3>5, <3>6 DEF Exact, serverVars
    <2>2. CASE Excused(m)
        BY <1>2, <2>2 DEF Excused, Exact
    <2>3. CASE Original(m)
        BY <2>3, OriginalStays DEF Exact
    <2> QED
        BY <1>5, <1>7, <2>1, <2>2, <2>3 DEF Sure
<1>8. ASSUME NEW g \in Folder, g # f, NEW m \in Message, Placed(m, g), Exact(m)
      PROVE  Exact(m)'
    <2>1. Excused(m) => Excused(m)'
        BY <1>2 DEF Excused
    <2>2. CASE Right(m)
        BY <1>6, <1>8, <2>1, <2>2, ExactStays DEF Right, Placed
    <2>3. CASE ~Right(m)
        BY <1>8, <2>1, <2>3, OriginalStays DEF Exact
    <2> QED
        BY <2>2, <2>3
<1>9. ASSUME NEW g \in Visited, Left(g)' PROVE Clean(g)'
    <2>1. g \in Folder
        BY <1>1, <1>9, MailAssumption DEF Visited, Tables, Folder
    <2>2. g = f \/ Clean(g)
        BY <1>2, <1>3, <1>9 DEF Left, Quiet
    <2>3. Opened(g)'
        BY <1>1, <1>2, <1>5, <2>2 DEF Clean, Opened, serverVars
    <2>4. CASE g = f
        BY <1>1, <1>7, <2>3, <2>4 DEF Clean, Placed, serverVars
    <2>5. CASE g # f
        BY <1>8, <2>1, <2>2, <2>3, <2>5, CleanStays
    <2> QED
        BY <2>4, <2>5
<1> QED
    BY <1>1, <1>2, <1>9 DEF Quiet, InAFolder, Visited

\* Every step keeps what is said of a quiet mailbox.
LEMMA StepQuiet ==
    ASSUME IInv, Stages, Quiet, [Next]_vars
    PROVE  Quiet'
<1> SUFFICES ASSUME settled' # "no" PROVE Quiet'
    BY DEF Quiet
<1>1. Tables /\ LoopState /\ UNCHANGED serverVars /\ synced' = synced
    BY QuietSteps DEF IInv, Mirror, Undisturbed
<1>2. \A f \in Visited : f \in Folder
    BY <1>1, MailAssumption DEF Visited, Tables, Folder
<1>3. ASSUME NEW f \in Visited, Clean(f), UNCHANGED <<row, cursor, poisoned, adrift>>
      PROVE  Clean(f)'
    <2>1. Opened(f)'
        BY <1>1, <1>3 DEF Clean, Opened, serverVars
    <2>2. \A m \in Message : Exact(m) => Exact(m)'
        BY <1>3, ExactStays DEF Excused
    <2> QED
        BY <1>2, <1>3, <2>1, <2>2, CleanStays
<1>4. ASSUME UNCHANGED <<row, cursor, poisoned, adrift, at, settled>>, pass' = pass
      PROVE  Quiet'
    <2>1. ASSUME NEW f \in Folder, InAFolder, pass.folder = f PROVE Halfway(f)'
        <3>1. Halfway(f) /\ (Ahead(f) => Ahead(f)')
            <4>1. Halfway(f)
                BY <1>4, <2>1 DEF Quiet
            <4>2. ~Resets(f) /\ Listed' = Listed
                BY <1>4 DEF Resets, OpenFolder, Listed
            <4> QED
                BY <4>1, <4>2, AheadStays
        <3>2. Noted(f) => Noted(f)'
            BY <1>1, <1>4 DEF Noted, Placed, serverVars
        <3>3. UidsOf(f)' = UidsOf(f)
            BY <1>1 DEF UidsOf, serverVars
        <3> QED
            BY <1>1, <1>4, <3>1, <3>2, <3>3 DEF Halfway, Opened, Walking, serverVars
    <2>2. ASSUME NEW f \in Visited, Left(f)' PROVE Clean(f)'
        BY <1>3, <1>4, <2>2 DEF Left, Quiet
    <2> QED
        BY <1>1, <1>4, <2>1, <2>2 DEF Quiet, InAFolder, Visited
<1>5. ASSUME UNCHANGED <<row, cursor, poisoned, adrift>>, settled = "yes", settled' = "yes",
             at' \notin {"fetch", "ingest", "save", "flags", "reconcile"}
      PROVE  Quiet'
    BY <1>1, <1>3, <1>5 DEF Quiet, Left, InAFolder, Visited
<1>6. ASSUME at \notin {"folder", "fetch", "ingest", "save", "flags", "reconcile"},
             settled' = settled
      PROVE  settled = "yes"
    BY <1>1, <1>6 DEF Quiet, InAFolder, LoopState
<1>7. CASE BeginPass
    <2>1. UNCHANGED <<row, cursor, poisoned, adrift>> /\ at = "drain"
        BY <1>7 DEF BeginPass
    <2>2. CASE ~due
        <3>1. at' = "wait" /\ settled' = settled
            BY <1>7, <2>2 DEF BeginPass
        <3> QED
            BY <1>5, <1>6, <2>1, <3>1
    <2>3. CASE due
        <3>1. /\ at' = "folder" /\ pass'.todo = {Inbox} \cup synced
              /\ settled' = IF settled = "yes" THEN "yes" ELSE "fresh"
            BY <1>7, <2>3 DEF BeginPass, NoPass
        <3>2. CASE settled = "yes"
            BY <1>5, <2>1, <3>1, <3>2
        <3>3. CASE settled # "yes"
            BY <1>1, <3>1, <3>3 DEF Quiet, Left, InAFolder, Visited
        <3> QED
            BY <3>2, <3>3
    <2> QED
        BY <2>2, <2>3
<1>8. CASE Wake \/ Restart
    BY <1>5, <1>6, <1>8 DEF Wake, Restart, history
<1>9. CASE Teardown \/ PassFails
    BY <1>1, <1>5, <1>9 DEF Teardown, PassFails, Unfinished, LoopState
<1>10. CASE EndPass
    <2>1. /\ at = "folder" /\ pass.todo = {} /\ at' = "wait"
          /\ settled' = (IF settled = "fresh" THEN "yes" ELSE settled)
          /\ UNCHANGED <<row, cursor, poisoned, adrift>>
        BY <1>10 DEF EndPass
    <2>2. pass.folder = None /\ None \notin Folder
        BY <2>1, MailAssumption DEF Stages
    <2>3. \A f \in Visited : Clean(f)
        BY <1>1, <1>2, <2>1, <2>2 DEF Quiet, Left
    <2> QED
        BY <1>1, <1>3, <2>1, <2>3 DEF Quiet, InAFolder, Visited, LoopState
<1>11. CASE \/ Stop
            \/ \E r \in Req, t \in Folder, ms \in SUBSET Message : Collect(r, t, ms)
            \/ \E r \in Req, f \in Folder : QueueMove(r, f)
    BY <1>4, <1>11 DEF Stop, Collect, QueueMove, history, loopVars
<1>12. CASE UNCHANGED vars
    BY <1>4, <1>12 DEF vars, history, loopVars
<1>13. CASE InPass
    BY <1>10, <1>13, OpenFolderQuiet, FetchNewerQuiet, DescriptorQuiet, SaveCursorQuiet,
       ReconcileQuiet
    DEF InPass
<1> QED
    BY <1>7, <1>8, <1>9, <1>11, <1>12, <1>13, QuietSteps

\* Once a whole pass has run over a mailbox nothing else happens to, the rows say what the
\* server has, but for what a request is moving and the residual states: for any messages,
\* folders, requests and batches, and whatever happened before.
THEOREM Mirrors == Spec => []MirrorsTheServer
<1>1. ASSUME Init PROVE Stages /\ Quiet
    BY <1>1 DEF Init, Stages, Quiet, InAFolder
<1>2. ASSUME IInv, Stages, Quiet PROVE MirrorsTheServer
    <2> SUFFICES ASSUME settled = "yes", NEW m \in Message, place[m] # None,
                        m \notin poisoned \cup adrift \cup Held
                 PROVE  /\ row[m] # None
                        /\ row[m].folder = place[m].folder
                        /\ place[m].folder \in synced \cup {Inbox} =>
                              row[m].uid = place[m].uid /\ row[m].seen = (m \in flag)
        BY DEF MirrorsTheServer
    <2>1. ~Excused(m) /\ ~Shifted(m) /\ ~Original(m)
        BY DEF Excused, Shifted, Original, Held, Ids
    <2>2. CASE place[m].folder \in Visited
        <3>1. Clean(place[m].folder)
            BY <1>2, <2>2 DEF Quiet, Left
        <3>2. Exact(m)
            BY <3>1 DEF Clean, Placed
        <3> QED
            BY <2>1, <3>2 DEF Exact, Right
    <2>3. CASE place[m].folder \notin Visited
        <3>1. Findable(m)
            BY <1>2, <2>1 DEF IInv, Rows
        <3> QED
            BY <2>3, <3>1 DEF Findable, Visited
    <2> QED
        BY <2>2, <2>3
<1>3. ASSUME IInv, Stages, Quiet, [Next]_vars PROVE Stages' /\ Quiet'
    BY <1>3, StepStages, StepQuiet
<1> QED
    BY <1>1, <1>2, <1>3, Invariant, PTL DEF Spec
=============================================================================
