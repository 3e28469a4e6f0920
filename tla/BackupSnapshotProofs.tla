------------------------ MODULE BackupSnapshotProofs ------------------------
(***************************************************************************)
(* Theorems of modules DocumentIssue and BackupSnapshot, for any requests, *)
(* years, contents, pool, render slots, builds and crashes.  The inductive *)
(* invariant of the documents follows a number from the row lock to the    *)
(* commit, a render slot from the queue to the release, and stored bytes   *)
(* from the rename to the row.  That of the builds adds whose work         *)
(* directory is on the disk, which build the route counts, and that stored *)
(* bytes stay, so that a dump is covered by what is there.                 *)
(***************************************************************************)
EXTENDS BackupSnapshot, FiniteSetTheorems, SequenceTheorems, TLAPS

-----------------------------------------------------------------------------
(* The documents *)

\* An upload has no transaction open but at its last step.
Uploads == \A u \in Upload : at[u] \in {"idle", "save", "rename", "attach"} \cup Ended

\* Whoever renders has a slot, whoever waits for one is queued once, and nobody queues
\* beside a free slot.
Renders == {r \in Document : at[r] = "render"}
Slots ==
    /\ IsFiniteSet(Renders)
    /\ rendersInFlight = Cardinality(Renders)
    /\ rendersInFlight <= RenderMax
    /\ \A i \in 1..Len(rendersWaiting) : at[rendersWaiting[i]] = "slot"
    /\ \A r \in Document : at[r] = "slot" =>
          \E i \in 1..Len(rendersWaiting) : rendersWaiting[i] = r
    /\ \A i, j \in 1..Len(rendersWaiting) : rendersWaiting[i] = rendersWaiting[j] => i = j
    /\ rendersWaiting # <<>> => rendersInFlight = RenderMax

\* A quote that has a number has the row of its year, and the number is the next one.
Numbered == Awaits \ {"number"}
Numbers ==
    /\ IsFiniteSet(quotes)
    /\ \A q \in quotes : at[q] = "issued"
    /\ \A q \in Quote : at[q] \in Numbered => sequenceRow[year[q]] = q
    /\ \A y \in Year : sequenceRow[y] # Free =>
          /\ at[sequenceRow[y]] \in Numbered
          /\ year[sequenceRow[y]] = y
          /\ number[sequenceRow[y]] = sequence[y] + 1
    /\ NumbersAreGapless

\* The bytes of a row are there from before the row is inserted.
Blobs ==
    /\ rows \subseteq stored
    /\ \A r \in Request : at[r] \in {"attach", "row", "commit"} => Digest(r) \in stored

IInv == TypeOK /\ Uploads /\ Slots /\ Numbers /\ Blobs
-----------------------------------------------------------------------------
(* Lemmas about the queue and the slots. *)

\* What the splice of acquireRenderSlot leaves of the queue.
LEMMA Splice ==
    ASSUME NEW S, NEW s \in Seq(S), NEW i \in 1..Len(s)
    PROVE  /\ RemoveAt(s, i) \in Seq(S)
           /\ Len(RemoveAt(s, i)) = Len(s) - 1
           /\ \A j \in 1..(Len(s) - 1) :
                 RemoveAt(s, i)[j] = IF j < i THEN s[j] ELSE s[j + 1]
<1> DEFINE front == SubSeq(s, 1, i - 1)
           back == SubSeq(s, i + 1, Len(s))
<1>1. Len(s) \in Nat /\ i \in Int /\ \A j \in 1..Len(s) : s[j] \in S
    BY LenProperties, ElementOfSeq
<1>2. /\ front \in Seq(S)
      /\ Len(front) = i - 1
      /\ \A j \in 1..(i - 1) : front[j] = s[j]
  <2>1. \A j \in 1..(i - 1) : s[j] \in S
    BY <1>1
  <2>2. /\ front \in Seq(S)
        /\ Len(front) = IF 1 <= i - 1 THEN (i - 1) - 1 + 1 ELSE 0
        /\ \A j \in 1..((i - 1) - 1 + 1) : front[j] = s[1 + j - 1]
    BY <1>1, <2>1, SubSeqProperties
  <2>3. QED
    BY <1>1, <2>2
<1>3. /\ back \in Seq(S)
      /\ Len(back) = Len(s) - i
      /\ \A j \in 1..(Len(s) - i) : back[j] = s[i + j]
  <2>1. \A j \in (i + 1)..Len(s) : s[j] \in S
    BY <1>1
  <2>2. /\ back \in Seq(S)
        /\ Len(back) = IF i + 1 <= Len(s) THEN Len(s) - (i + 1) + 1 ELSE 0
        /\ \A j \in 1..(Len(s) - (i + 1) + 1) : back[j] = s[(i + 1) + j - 1]
    BY <1>1, <2>1, SubSeqProperties
  <2>3. QED
    BY <1>1, <2>2
<1>4. RemoveAt(s, i) = front \o back
    BY DEF RemoveAt
<1> HIDE DEF front, back
<1>5. /\ front \o back \in Seq(S)
      /\ Len(front \o back) = Len(front) + Len(back)
      /\ \A j \in 1..(Len(front) + Len(back)) :
            (front \o back)[j] = IF j <= Len(front) THEN front[j] ELSE back[j - Len(front)]
    BY <1>2, <1>3, ConcatProperties
<1>6. QED
    BY <1>1, <1>2, <1>3, <1>4, <1>5

\* A step that keeps the counter and the queue, and moves one request that neither waits nor
\* renders to where it does neither.
LEMMA KeepsSlots ==
    ASSUME TypeOK, Slots, NEW r \in Request, NEW step, at' = [at EXCEPT ![r] = step],
           at[r] \notin {"slot", "render"}, step \notin {"slot", "render"},
           UNCHANGED renderVars
    PROVE  Slots'
<1>1. \A q \in Document : /\ at'[q] = "slot" <=> at[q] = "slot"
                          /\ at'[q] = "render" <=> at[q] = "render"
    BY DEF TypeOK, Request
<1>2. Renders' = Renders
    BY <1>1 DEF Renders
<1>3. \A i \in 1..Len(rendersWaiting) : rendersWaiting[i] \in Document
    BY ElementOfSeq DEF TypeOK
<1>4. QED
    BY <1>1, <1>2, <1>3 DEF Slots, renderVars

\* A request takes a free slot.
LEMMA TakesSlot ==
    ASSUME TypeOK, Slots, NEW r \in Document, at' = [at EXCEPT ![r] = "render"],
           at[r] \notin {"slot", "render"}, rendersInFlight < RenderMax,
           rendersInFlight' = rendersInFlight + 1, UNCHANGED rendersWaiting
    PROVE  Slots'
<1>1. \A q \in Document : /\ at'[q] = "slot" <=> at[q] = "slot"
                          /\ at'[q] = "render" <=> at[q] = "render" \/ q = r
    BY DEF TypeOK, Request
<1>2. Renders' = Renders \cup {r} /\ r \notin Renders
    BY <1>1 DEF Renders
<1>3. IsFiniteSet(Renders') /\ Cardinality(Renders') = Cardinality(Renders) + 1
    BY <1>2, FS_AddElement DEF Slots
<1>4. rendersWaiting = <<>>
    BY IssueAssumption DEF Slots, TypeOK
<1>5. Len(rendersWaiting) = 0
    BY <1>4
<1>6. \A q \in Document : at[q] # "slot"
    BY <1>5 DEF Slots
<1>7. rendersInFlight' = Cardinality(Renders') /\ rendersInFlight' <= RenderMax
    BY <1>3, IssueAssumption DEF Slots, TypeOK
<1>8. QED
    BY <1>1, <1>3, <1>4, <1>5, <1>6, <1>7 DEF Slots

\* A request joins the queue: every slot is taken.
LEMMA Queues ==
    ASSUME TypeOK, Slots, NEW r \in Document, at' = [at EXCEPT ![r] = "slot"],
           at[r] \notin {"slot", "render"}, rendersInFlight >= RenderMax,
           rendersWaiting' = Append(rendersWaiting, r), UNCHANGED rendersInFlight
    PROVE  Slots'
<1> DEFINE n == Len(rendersWaiting)
<1>1. \A q \in Document : /\ at'[q] = "slot" <=> at[q] = "slot" \/ q = r
                          /\ at'[q] = "render" <=> at[q] = "render"
    BY DEF TypeOK, Request
<1>2. Renders' = Renders
    BY <1>1 DEF Renders
<1>3. n \in Nat /\ \A i \in 1..n : rendersWaiting[i] \in Document
    BY ElementOfSeq, LenProperties DEF TypeOK
<1>4. /\ Len(rendersWaiting') = n + 1
      /\ \A i \in 1..n : rendersWaiting'[i] = rendersWaiting[i]
      /\ rendersWaiting'[n + 1] = r
    BY AppendProperties DEF TypeOK
<1> HIDE DEF n
<1>5. \A i \in 1..(n + 1) : i \in 1..n \/ i = n + 1
    BY <1>3
<1>6. \A i \in 1..n : at[rendersWaiting[i]] = "slot" /\ rendersWaiting[i] # r
    BY DEF Slots, n
<1>7. \A i \in 1..Len(rendersWaiting') : at'[rendersWaiting'[i]] = "slot"
    BY <1>1, <1>3, <1>4, <1>5, <1>6
<1>8. ASSUME NEW q \in Document, at'[q] = "slot"
      PROVE  \E i \in 1..Len(rendersWaiting') : rendersWaiting'[i] = q
  <2>1. CASE q = r
    BY <1>3, <1>4, <2>1
  <2>2. CASE q # r
    <3>1. PICK i \in 1..n : rendersWaiting[i] = q
      BY <1>1, <1>8, <2>2 DEF Slots, n
    <3>2. i \in 1..(n + 1) /\ rendersWaiting'[i] = q
      BY <1>3, <1>4, <3>1
    <3>3. QED
      BY <1>4, <3>2
  <2>3. QED
    BY <2>1, <2>2
<1>9. ASSUME NEW i \in 1..Len(rendersWaiting'), NEW j \in 1..Len(rendersWaiting'),
             rendersWaiting'[i] = rendersWaiting'[j]
      PROVE  i = j
  <2>1. \A k, m \in 1..n : rendersWaiting[k] = rendersWaiting[m] => k = m
    BY DEF Slots, n
  <2>2. (i \in 1..n \/ i = n + 1) /\ (j \in 1..n \/ j = n + 1)
    BY <1>4, <1>5
  <2>3. QED
    BY <1>4, <1>6, <1>9, <2>1, <2>2
<1>10. rendersInFlight = RenderMax
    BY IssueAssumption DEF Slots, TypeOK
<1>11. QED
    BY <1>2, <1>7, <1>8, <1>9, <1>10, IssueAssumption DEF Slots
\* A waiter leaves the queue: nobody else does.
LEMMA LeavesQueue ==
    ASSUME TypeOK, Slots, NEW r \in Document, at' = [at EXCEPT ![r] = "refused"],
           at[r] = "slot", NEW i \in 1..Len(rendersWaiting), rendersWaiting[i] = r,
           rendersWaiting' = RemoveAt(rendersWaiting, i), UNCHANGED rendersInFlight
    PROVE  Slots' /\ rendersWaiting' \in Seq(Document)
<1> DEFINE n == Len(rendersWaiting)
<1>1. \A q \in Document : /\ at'[q] = "slot" <=> at[q] = "slot" /\ q # r
                          /\ at'[q] = "render" <=> at[q] = "render"
    BY DEF TypeOK, Request
<1>2. Renders' = Renders
    BY <1>1 DEF Renders
<1>3. n \in Nat /\ \A j \in 1..n : rendersWaiting[j] \in Document
    BY ElementOfSeq, LenProperties DEF TypeOK
<1>4. /\ rendersWaiting' \in Seq(Document)
      /\ Len(rendersWaiting') = n - 1
      /\ \A j \in 1..(n - 1) :
            rendersWaiting'[j] = IF j < i THEN rendersWaiting[j] ELSE rendersWaiting[j + 1]
    BY Splice DEF TypeOK
<1>5. \A j, k \in 1..n : rendersWaiting[j] = rendersWaiting[k] => j = k
    BY DEF Slots
<1> HIDE DEF n
<1> DEFINE Old(j) == IF j < i THEN j ELSE j + 1
<1>6. \A j \in 1..(n - 1) : Old(j) \in 1..n /\ Old(j) # i
    BY <1>3 DEF n
<1>7. \A j \in 1..(n - 1) : rendersWaiting'[j] = rendersWaiting[Old(j)]
    BY <1>3, <1>4 DEF n
<1>8. \A j, k \in 1..(n - 1) : Old(j) = Old(k) => j = k
    BY <1>3 DEF n
<1>9. \A k \in 1..n : k # i => \E j \in 1..(n - 1) : Old(j) = k
  <2> SUFFICES ASSUME NEW k \in 1..n, k # i PROVE \E j \in 1..(n - 1) : Old(j) = k
      OBVIOUS
  <2>1. CASE k < i
      BY <1>3, <2>1 DEF n
  <2>2. CASE k > i
    <3>1. k - 1 \in 1..(n - 1) /\ Old(k - 1) = k
      BY <1>3, <2>2 DEF n
    <3>2. QED
      BY <3>1
  <2>3. QED
      BY <1>3, <2>1, <2>2 DEF n
<1> HIDE DEF Old
<1>10. \A j \in 1..Len(rendersWaiting') : at'[rendersWaiting'[j]] = "slot"
  <2> SUFFICES ASSUME NEW j \in 1..(n - 1) PROVE at'[rendersWaiting'[j]] = "slot"
      BY <1>4
  <2>1. at[rendersWaiting[Old(j)]] = "slot" /\ rendersWaiting[Old(j)] # r
      BY <1>5, <1>6 DEF Slots, n
  <2>2. QED
      BY <1>1, <1>3, <1>6, <1>7, <2>1
<1>11. ASSUME NEW q \in Document, at'[q] = "slot"
       PROVE  \E j \in 1..Len(rendersWaiting') : rendersWaiting'[j] = q
  <2>1. PICK k \in 1..n : rendersWaiting[k] = q
      BY <1>1, <1>11 DEF Slots, n
  <2>2. k # i
      BY <1>1, <1>11, <2>1
  <2>3. QED
      BY <1>4, <1>7, <1>9, <2>1, <2>2
<1>12. \A j, k \in 1..Len(rendersWaiting') : rendersWaiting'[j] = rendersWaiting'[k] => j = k
    BY <1>4, <1>5, <1>6, <1>7, <1>8
<1>13. rendersInFlight = RenderMax
  <2>1. rendersWaiting # <<>>
      BY DEF TypeOK
  <2>2. QED
      BY <2>1 DEF Slots
<1>14. QED
    BY <1>2, <1>4, <1>10, <1>11, <1>12, <1>13, IssueAssumption DEF Slots

\* A slot that is given up goes to the first waiter, or back to the count.
LEMMA GivesSlot ==
    ASSUME TypeOK, Slots, NEW r \in Document, at[r] = "render",
           NEW step \in Awaits \cup Ended, step \notin {"slot", "render"},
           HandSlotOn([at EXCEPT ![r] = step])
    PROVE  /\ Slots'
           /\ rendersInFlight' \in Nat /\ rendersWaiting' \in Seq(Document)
           /\ at' \in [Request -> {"idle", "connect"} \cup Awaits \cup Ended]
           /\ at'[r] = step
           /\ \A q \in Request \ {r} :
                 at'[q] = at[q] \/ (q \in Document /\ at[q] = "slot" /\ at'[q] = "render")
<1> DEFINE n == Len(rendersWaiting)
<1>1. r \in Renders
    BY DEF Renders
<1>2. /\ IsFiniteSet(Renders \ {r})
      /\ Cardinality(Renders \ {r}) = Cardinality(Renders) - 1
      /\ Cardinality(Renders \ {r}) \in Nat
    BY <1>1, FS_RemoveElement, FS_CardinalityType DEF Slots
<1>3. CASE rendersWaiting = <<>>
  <2>1. rendersInFlight' = rendersInFlight - 1 /\ at' = [at EXCEPT ![r] = step]
        /\ UNCHANGED rendersWaiting
      BY <1>3 DEF HandSlotOn
  <2>2. \A q \in Document : /\ at'[q] = "slot" <=> at[q] = "slot"
                            /\ at'[q] = "render" <=> at[q] = "render" /\ q # r
      BY <2>1 DEF TypeOK, Request
  <2>3. Renders' = Renders \ {r}
      BY <2>2 DEF Renders
  <2>4. rendersInFlight' = Cardinality(Renders') /\ rendersInFlight' \in Nat
        /\ rendersInFlight' <= RenderMax
      BY <1>2, <2>1, <2>3, IssueAssumption DEF Slots, TypeOK
  <2>5. Len(rendersWaiting) = 0
      BY <1>3
  <2>6. \A q \in Document : at[q] # "slot"
      BY <2>5 DEF Slots
  <2>7. Slots'
      BY <1>2, <1>3, <2>1, <2>2, <2>3, <2>4, <2>5, <2>6 DEF Slots
  <2>8. QED
      BY <2>1, <2>4, <2>7 DEF TypeOK, Request
<1>4. CASE rendersWaiting # <<>>
  <2> DEFINE first == rendersWaiting[1]
  <2>1. /\ n \in Nat /\ n > 0 /\ Head(rendersWaiting) = first
        /\ \A i \in 1..n : rendersWaiting[i] \in Document
      BY <1>4, ElementOfSeq, LenProperties DEF TypeOK
  <2>2. /\ rendersWaiting' \in Seq(Document)
        /\ Len(rendersWaiting') = n - 1
        /\ \A i \in 1..(n - 1) : rendersWaiting'[i] = rendersWaiting[i + 1]
    <3>1. rendersWaiting' = Tail(rendersWaiting)
        BY <1>4 DEF HandSlotOn
    <3>2. rendersWaiting \in Seq(Document)
        BY DEF TypeOK
    <3>3. QED
        BY <1>4, <3>1, <3>2, HeadTailProperties
  <2>3. UNCHANGED rendersInFlight /\ at' = [[at EXCEPT ![r] = step] EXCEPT ![first] = "render"]
      BY <1>4, <2>1 DEF HandSlotOn
  <2>4. 1 \in 1..n /\ at[first] = "slot" /\ first \in Document /\ first # r
      BY <2>1 DEF Slots
  <2>5. /\ at'[r] = step
        /\ at'[first] = "render"
        /\ \A q \in Request \ {r, first} : at'[q] = at[q]
        /\ at' \in [Request -> {"idle", "connect"} \cup Awaits \cup Ended]
    <3> HIDE DEF first
    <3>1. QED
      BY <2>3, <2>4 DEF TypeOK, Request, Awaits
  <2>6. \A i \in 1..n : rendersWaiting[i] = first => i = 1
      BY <2>4 DEF Slots
  <2>7. \A i \in 1..n : at[rendersWaiting[i]] = "slot"
      BY DEF Slots
  <2> HIDE DEF first, n
  <2>8. Renders' = (Renders \ {r}) \cup {first} /\ first \notin Renders \ {r}
      BY <2>4, <2>5 DEF Renders, Request
  <2>9. IsFiniteSet(Renders') /\ Cardinality(Renders') = Cardinality(Renders)
    <3>1. Cardinality(Renders') = Cardinality(Renders \ {r}) + 1 /\ IsFiniteSet(Renders')
      BY <1>2, <2>8, FS_AddElement
    <3>2. Cardinality(Renders) \in Nat
      BY FS_CardinalityType DEF Slots
    <3>3. QED
      BY <1>2, <3>1, <3>2
  <2>10. \A i \in 1..Len(rendersWaiting') : at'[rendersWaiting'[i]] = "slot"
    <3> SUFFICES ASSUME NEW i \in 1..(n - 1) PROVE at'[rendersWaiting'[i]] = "slot"
      BY <2>2
    <3>1. i + 1 \in 1..n /\ i + 1 # 1
      BY <2>1
    <3>2. rendersWaiting[i + 1] # first /\ at[rendersWaiting[i + 1]] = "slot"
      BY <2>6, <2>7, <3>1
    <3>3. QED
      BY <2>1, <2>2, <2>5, <3>1, <3>2 DEF Request
  <2>11. ASSUME NEW q \in Document, at'[q] = "slot"
         PROVE  \E i \in 1..Len(rendersWaiting') : rendersWaiting'[i] = q
    <3>1. at[q] = "slot" /\ q # first
      BY <2>5, <2>11 DEF Request
    <3>2. PICK k \in 1..n : rendersWaiting[k] = q
      BY <3>1 DEF Slots, n
    <3>3. k # 1
      BY <3>1, <3>2 DEF first
    <3>4. k - 1 \in 1..(n - 1)
      BY <2>1, <3>3
    <3>5. rendersWaiting'[k - 1] = q
      BY <2>1, <2>2, <3>2, <3>4
    <3>6. QED
      BY <2>2, <3>4, <3>5
  <2>12. \A i, j \in 1..Len(rendersWaiting') : rendersWaiting'[i] = rendersWaiting'[j] => i = j
    <3> SUFFICES ASSUME NEW i \in 1..(n - 1), NEW j \in 1..(n - 1),
                        rendersWaiting'[i] = rendersWaiting'[j]
                 PROVE  i = j
      BY <2>2
    <3>1. i + 1 \in 1..n /\ j + 1 \in 1..n
      BY <2>1
    <3>2. rendersWaiting[i + 1] = rendersWaiting[j + 1]
      BY <2>2
    <3>3. i + 1 = j + 1
      BY <3>1, <3>2 DEF Slots, n
    <3>4. QED
      BY <3>3, <2>1
  <2>13. Slots'
      BY <1>4, <2>3, <2>9, <2>10, <2>11, <2>12, IssueAssumption DEF Slots
  <2>14. QED
      BY <2>2, <2>3, <2>4, <2>5, <2>13 DEF TypeOK
<1>5. QED
    BY <1>3, <1>4
-----------------------------------------------------------------------------
(* Lemmas about the numbers. *)

\* A step that leaves the sequences and the numbers alone, and no quote goes in or out of the
\* part of its transaction that has the row.
LEMMA KeepsNumbers ==
    ASSUME TypeOK, Numbers,
           UNCHANGED <<sequence, sequenceRow, number, quotes, year>>,
           \A q \in Quote : /\ at'[q] \in Numbered <=> at[q] \in Numbered
                            /\ at[q] = "issued" => at'[q] = "issued"
    PROVE  Numbers'
<1>1. \A y \in Year : sequenceRow[y] # Free => sequenceRow[y] \in Quote
    BY DEF TypeOK
<1>2. NumbersAreGapless'
    BY DEF NumbersAreGapless, Numbers
<1>3. \A q \in quotes : at'[q] = "issued"
    BY DEF Numbers, TypeOK
<1>4. \A q \in Quote : at'[q] \in Numbered => sequenceRow[year[q]] = q
    BY DEF Numbers
<1>5. \A y \in Year : sequenceRow[y] # Free =>
          /\ at'[sequenceRow[y]] \in Numbered
          /\ year[sequenceRow[y]] = y
          /\ number[sequenceRow[y]] = sequence[y] + 1
    BY <1>1 DEF Numbers
<1>6. QED
    BY <1>2, <1>3, <1>4, <1>5 DEF Numbers

\* A transaction that rolls back drops its number, which nobody has seen, with its lock.
LEMMA DropsNumber ==
    ASSUME TypeOK, Numbers, NEW r \in Request, Release(r),
           number' = IF r \in Quote THEN [number EXCEPT ![r] = 0] ELSE number,
           UNCHANGED <<sequence, quotes, year>>,
           at[r] # "issued", at'[r] \notin Numbered,
           \A q \in Quote \ {r} : /\ at'[q] \in Numbered <=> at[q] \in Numbered
                                  /\ at[q] = "issued" => at'[q] = "issued"
    PROVE  Numbers'
<1>1. \A y \in Year : /\ sequenceRow'[y] = IF sequenceRow[y] = r THEN Free ELSE sequenceRow[y]
                      /\ sequenceRow[y] # Free => sequenceRow[y] \in Quote
    BY DEF TypeOK, Release
<1>2. r \notin quotes /\ quotes \subseteq Quote
    BY DEF Numbers, TypeOK
<1>3. \A q \in Quote \ {r} : number'[q] = number[q]
    BY DEF TypeOK
<1>4. NumbersAreGapless'
  <2> SUFFICES ASSUME NEW y \in Year
               PROVE  LET issued == {q \in quotes : year[q] = y}
                      IN  /\ {number'[q] : q \in issued} = 1..sequence[y]
                          /\ Cardinality(issued) = sequence[y]
      BY DEF NumbersAreGapless
  <2> DEFINE issued == {q \in quotes : year[q] = y}
  <2>1. {number'[q] : q \in issued} = {number[q] : q \in issued}
      BY <1>2, <1>3
  <2>2. QED
      BY <2>1 DEF Numbers, NumbersAreGapless
<1>5. \A q \in quotes : at'[q] = "issued"
    BY <1>2 DEF Numbers
<1>6. \A q \in Quote : at'[q] \in Numbered => sequenceRow'[year[q]] = q
    BY <1>1 DEF Numbers, TypeOK
<1>7. \A y \in Year : sequenceRow'[y] # Free =>
          /\ at'[sequenceRow'[y]] \in Numbered
          /\ year[sequenceRow'[y]] = y
          /\ number'[sequenceRow'[y]] = sequence[y] + 1
    BY <1>1, <1>3 DEF Numbers
<1>8. QED
    BY <1>4, <1>5, <1>6, <1>7 DEF Numbers

\* The upsert gives a quote the next number of its year, and nobody else the same one.
LEMMA GivesNumber ==
    ASSUME TypeOK, Numbers, NEW r \in Quote, AllocateNumber(r)
    PROVE  Numbers'
<1> DEFINE y == year[r]
<1>1. /\ y \in Year /\ sequenceRow[y] = Free
      /\ \A z \in Year : sequenceRow'[z] = IF z = y THEN r ELSE sequenceRow[z]
      /\ \A q \in Quote : number'[q] = IF q = r THEN sequence[y] + 1 ELSE number[q]
      /\ \A q \in Quote : at'[q] = IF q = r THEN "merge" ELSE at[q]
      /\ at[r] = "number" /\ UNCHANGED <<sequence, year, quotes>>
    BY DEF AllocateNumber, TypeOK, Request, Document, inputVars
<1> HIDE DEF y
<1>2. r \notin quotes /\ quotes \subseteq Quote
    BY <1>1 DEF Numbers, TypeOK
<1>3. NumbersAreGapless'
  <2> SUFFICES ASSUME NEW z \in Year
               PROVE  LET issued == {q \in quotes : year[q] = z}
                      IN  /\ {number'[q] : q \in issued} = 1..sequence[z]
                          /\ Cardinality(issued) = sequence[z]
      BY <1>1 DEF NumbersAreGapless
  <2> DEFINE issued == {q \in quotes : year[q] = z}
  <2>1. {number'[q] : q \in issued} = {number[q] : q \in issued}
      BY <1>1, <1>2
  <2>2. QED
      BY <2>1 DEF Numbers, NumbersAreGapless
<1>4. \A q \in quotes : at'[q] = "issued"
    BY <1>1, <1>2 DEF Numbers
<1>5. \A q \in Quote : at'[q] \in Numbered => sequenceRow'[year[q]] = q
  <2>1. \A q \in Quote \ {r} : at[q] \in Numbered => year[q] # y
      BY <1>1, IssueAssumption DEF Numbers, Request, Document
  <2>2. \A q \in Quote \ {r} : at'[q] \in Numbered => sequenceRow'[year[q]] = q
      BY <1>1, <2>1 DEF Numbers, TypeOK
  <2>3. sequenceRow'[year[r]] = r
      BY <1>1 DEF y
  <2>4. QED
      BY <2>2, <2>3
<1>6. \A z \in Year : sequenceRow'[z] # Free =>
          /\ at'[sequenceRow'[z]] \in Numbered
          /\ year[sequenceRow'[z]] = z
          /\ number'[sequenceRow'[z]] = sequence[z] + 1
  <2> SUFFICES ASSUME NEW z \in Year, sequenceRow'[z] # Free
               PROVE  /\ at'[sequenceRow'[z]] \in Numbered
                      /\ year[sequenceRow'[z]] = z
                      /\ number'[sequenceRow'[z]] = sequence[z] + 1
      OBVIOUS
  <2>1. CASE z = y
      BY <1>1, <2>1 DEF Numbered, Awaits, y
  <2>2. CASE z # y
    <3>1. sequenceRow'[z] = sequenceRow[z] /\ sequenceRow[z] \in Quote
      BY <1>1, <2>2 DEF TypeOK
    <3>2. sequenceRow[z] # r
      BY <1>1, <3>1, <2>2, IssueAssumption DEF Numbers, y, Request, Document
    <3>3. QED
      BY <1>1, <3>1, <3>2 DEF Numbers
  <2>3. QED
      BY <2>1, <2>2
<1>7. QED
    BY <1>1, <1>3, <1>4, <1>5, <1>6 DEF Numbers

\* The commit makes the number the last value of its year.
LEMMA CommitsNumber ==
    ASSUME TypeOK, Numbers, NEW r \in Quote, Commit(r)
    PROVE  Numbers'
<1> DEFINE y == year[r]
           n == sequence[y] + 1
<1>1. /\ at[r] = "commit" /\ y \in Year /\ sequence[y] \in Nat
      /\ sequenceRow[y] = r /\ number[r] = n /\ r # Free
    BY IssueAssumption
       DEF Commit, TypeOK, Numbers, Numbered, Awaits, Request, Document
<1>2. /\ \A z \in Year : sequence'[z] = IF z = y THEN n ELSE sequence[z]
      /\ \A z \in Year : sequenceRow'[z] = IF sequenceRow[z] = r THEN Free ELSE sequenceRow[z]
      /\ \A q \in Quote : at'[q] = IF q = r THEN "issued" ELSE at[q]
      /\ UNCHANGED <<number, year>> /\ quotes' = quotes \cup {r}
    BY <1>1 DEF Commit, Release, TypeOK, Request, Document, inputVars
<1> HIDE DEF y, n
<1>3. r \notin quotes /\ quotes \subseteq Quote /\ year \in [Quote -> Year]
    BY <1>1 DEF Numbers, TypeOK
<1>4. \A z \in Year : sequenceRow[z] = r => z = y
    BY <1>1 DEF Numbers, y
<1>5. IsFiniteSet(quotes')
    BY <1>2, FS_AddElement DEF Numbers
<1>6. NumbersAreGapless'
  <2> SUFFICES ASSUME NEW z \in Year
               PROVE  /\ {number[q] : q \in {p \in quotes' : year[p] = z}} = 1..sequence'[z]
                      /\ Cardinality({p \in quotes' : year[p] = z}) = sequence'[z]
      BY <1>2 DEF NumbersAreGapless
  <2> DEFINE issued == {p \in quotes : year[p] = z}
             now == {p \in quotes' : year[p] = z}
  <2>1. {number[q] : q \in issued} = 1..sequence[z] /\ Cardinality(issued) = sequence[z]
      BY DEF Numbers, NumbersAreGapless
  <2>2. CASE z # y
    <3>1. now = issued
      BY <1>2, <2>2 DEF y
    <3>2. QED
      BY <1>2, <2>1, <2>2, <3>1
  <2>3. CASE z = y
    <3>1. now = issued \cup {r} /\ r \notin issued
      BY <1>2, <1>3, <2>3 DEF y
    <3>2. IsFiniteSet(issued)
      BY FS_Subset DEF Numbers
    <3>3. Cardinality(now) = sequence[z] + 1
      BY <2>1, <3>1, <3>2, FS_AddElement
    <3>4. {number[q] : q \in now} = {number[q] : q \in issued} \cup {n}
      BY <1>1, <3>1
    <3>5. 1..n = 1..sequence[y] \cup {n}
      BY <1>1 DEF n
    <3>6. QED
      BY <1>2, <2>1, <2>3, <3>3, <3>4, <3>5 DEF n
  <2>4. QED
      BY <2>2, <2>3
<1>7. \A q \in quotes' : at'[q] = "issued"
    BY <1>2, <1>3 DEF Numbers
<1>8. \A q \in Quote : at'[q] \in Numbered => sequenceRow'[year[q]] = q
    BY <1>2, <1>3 DEF Numbers, Numbered, Awaits
<1>9. ASSUME NEW z \in Year, sequenceRow'[z] # Free
      PROVE  /\ at'[sequenceRow'[z]] \in Numbered
             /\ year[sequenceRow'[z]] = z
             /\ number[sequenceRow'[z]] = sequence'[z] + 1
  <2>1. sequenceRow'[z] = sequenceRow[z] /\ sequenceRow[z] # r /\ sequenceRow[z] # Free
      BY <1>2, <1>9
  <2>2. z # y /\ sequenceRow[z] \in Quote
      BY <1>1, <2>1 DEF TypeOK
  <2>3. QED
      BY <1>2, <2>1, <2>2 DEF Numbers
<1>10. QED
    BY <1>2, <1>5, <1>6, <1>7, <1>8, <1>9 DEF Numbers
-----------------------------------------------------------------------------
\* A service that starts has issued nothing yet, and every file there has its bytes and its row.
LEMMA InitIInv == IssueInit => IInv
<1> SUFFICES ASSUME IssueInit PROVE IInv
    OBVIOUS
<1> USE IssueAssumption DEF IssueInit
<1>1. TypeOK
  <2>1. IsFiniteSet(conns)
      BY FS_EmptySet
  <2>2. rendersWaiting \in Seq(Document)
      BY EmptySeq
  <2>3. QED
      BY <2>1, <2>2 DEF TypeOK
<1>2. Uploads
    BY DEF Uploads, Request
<1>3. Slots
  <2>1. Renders = {}
      BY DEF Renders, Request
  <2>2. Len(rendersWaiting) = 0
      OBVIOUS
  <2>3. \A r \in Document : at[r] # "slot"
      BY DEF Request
  <2>4. QED
      BY <2>1, <2>2, <2>3, FS_EmptySet DEF Slots
<1>4. Numbers
  <2>1. NumbersAreGapless
    <3>1. \A y \in Year : {q \in quotes : year[q] = y} = {} /\ sequence[y] = 0
      OBVIOUS
    <3>2. 1..0 = {}
      OBVIOUS
    <3>3. QED
      BY <3>1, <3>2, FS_EmptySet DEF NumbersAreGapless
  <2>2. \A q \in Quote : at[q] \notin Numbered
      BY DEF Numbered, Awaits, Request, Document
  <2>3. IsFiniteSet(quotes)
      BY FS_EmptySet
  <2>4. QED
      BY <2>1, <2>2, <2>3 DEF Numbers
<1>5. Blobs
    BY DEF Blobs
<1>6. QED
    BY <1>1, <1>2, <1>3, <1>4, <1>5 DEF IInv

\* Of the connections a finite number is taken at any time.
LEMMA Connections ==
    ASSUME TypeOK
    PROVE  \A x : IsFiniteSet(conns \cup {x}) /\ IsFiniteSet(conns \ {x})
<1>1. QED
    BY FS_AddElement, FS_RemoveElement DEF TypeOK

\* A transaction that rolls back at any await but that of a slot or of its render.
LEMMA RollsBack ==
    ASSUME IInv, NEW r \in Request, Rollback(r), at[r] \notin {"slot", "render", "issued"},
           UNCHANGED <<renderVars, inputVars>>,
           tmp' \subseteq Request, stored' = stored
    PROVE  IInv'
<1>1. at' = [at EXCEPT ![r] = "refused"] /\ Release(r) /\ UNCHANGED <<sequence, rows, quotes>>
    BY DEF Rollback
<1>2. TypeOK'
  <2>1. IsFiniteSet(conns')
    BY <1>1, Connections DEF IInv, Release
  <2>2. sequenceRow' \in [Year -> Quote \cup {Free}] /\ documentRow' \in Redraft \cup {Free}
    BY <1>1 DEF IInv, TypeOK, Release
  <2>3. number' \in [Quote -> Nat]
    BY DEF IInv, TypeOK, Rollback
  <2>4. at' \in [Request -> {"idle", "connect"} \cup Awaits \cup Ended]
    BY <1>1 DEF IInv, TypeOK, Ended
  <2>5. QED
    BY <1>1, <2>1, <2>2, <2>3, <2>4 DEF IInv, TypeOK, renderVars, inputVars
<1>3. Uploads'
    BY <1>1 DEF IInv, Uploads, TypeOK, Request, Ended
<1>4. Slots'
    BY <1>1, KeepsSlots DEF IInv
<1>5. Numbers'
    BY <1>1, DropsNumber
       DEF IInv, Rollback, TypeOK, Request, Document, Numbered, Awaits, inputVars
<1>6. Blobs'
    BY <1>1 DEF IInv, Blobs, TypeOK, Digest, inputVars
<1>7. QED
    BY <1>2, <1>3, <1>4, <1>5, <1>6 DEF IInv
\* A step of one request that leaves the sequences, the numbers and the slots alone, and does
\* not take the request in or out of them.
LEMMA Moves ==
    ASSUME IInv, NEW r \in Request, NEW step \in {"idle", "connect"} \cup Awaits \cup Ended,
           at' = [at EXCEPT ![r] = step],
           at[r] \notin {"slot", "render", "issued"}, step \notin {"slot", "render"},
           r \in Quote => (step \in Numbered <=> at[r] \in Numbered),
           r \in Upload => step \in {"idle", "save", "rename", "attach"} \cup Ended,
           UNCHANGED <<sequence, sequenceRow, number, quotes, renderVars, inputVars>>,
           IsFiniteSet(conns'), documentRow' \in Redraft \cup {Free}, tmp' \subseteq Request,
           stored' \in {stored, stored \cup {Digest(r)}},
           rows' \in {rows, rows \cup {Digest(r)}},
           step \in {"attach", "row", "commit"} \/ rows' # rows => Digest(r) \in stored'
    PROVE  IInv'
<1>1. Digest(r) \in Document \cup Content
    BY DEF Digest, IInv, TypeOK, Request
<1>2. stored \subseteq stored' /\ rows' \subseteq rows \cup {Digest(r)}
    OBVIOUS
<1>3. at' \in [Request -> {"idle", "connect"} \cup Awaits \cup Ended]
    BY DEF IInv, TypeOK
<1>4. TypeOK'
    BY <1>1, <1>3 DEF IInv, TypeOK, renderVars, inputVars
<1>5. \A q \in Request : at'[q] = IF q = r THEN step ELSE at[q]
    BY DEF IInv, TypeOK
<1>6. Uploads'
    BY <1>5 DEF IInv, Uploads, Request
<1>7. Slots'
    BY KeepsSlots DEF IInv
<1>8. Numbers'
    BY <1>5, KeepsNumbers DEF IInv, Request, Document, inputVars
<1>9. Blobs'
  <2>1. \A q \in Request : Digest(q)' = Digest(q)
    BY DEF Digest, inputVars
  <2>2. rows' \subseteq stored'
    BY <1>2 DEF IInv, Blobs
  <2>3. \A q \in Request : at'[q] \in {"attach", "row", "commit"} => Digest(q) \in stored'
    BY <1>2, <1>5 DEF IInv, Blobs
  <2>4. QED
    BY <2>1, <2>2, <2>3 DEF Blobs
<1>10. QED
    BY <1>4, <1>6, <1>7, <1>8, <1>9 DEF IInv

\* What a request does before its bytes are stored keeps the invariant.
LEMMA StepsBefore ==
    ASSUME IInv, NEW r \in Request, Ask(r) \/ Begin(r) \/ OpenTmp(r) \/ SettleTmp(r)
    PROVE  IInv'
<1> USE DEF databaseVars, storeVars
<1>1. CASE Ask(r)
  <2>1. at[r] = "idle" /\ at' = [at EXCEPT ![r] = IF r \in Upload THEN "save" ELSE "connect"]
    BY <1>1 DEF Ask
  <2>2. r \in Quote => r \notin Upload
    BY IssueAssumption DEF Document
  <2>3. QED
    BY <1>1, <2>1, <2>2, Moves DEF Ask, IInv, TypeOK, Numbered, Awaits
<1>2. CASE Begin(r)
  <2>1. at[r] = "connect" /\ r \notin Upload
    BY <1>2 DEF Begin, IInv, Uploads, Ended
  <2>2. IsFiniteSet(conns')
    BY <1>2, Connections DEF Begin, IInv, TypeOK
  <2>3. PICK step \in {"number", "merge", "refused"} :
            at' = [at EXCEPT ![r] = step] /\ (step = "merge" => r \notin Quote)
    BY <1>2 DEF Begin
  <2>4. QED
    BY <1>2, <2>1, <2>2, <2>3, Moves DEF Begin, IInv, TypeOK, Numbered, Awaits, Ended
<1>3. CASE OpenTmp(r)
  <2>1. tmp' \subseteq Request /\ at[r] = "save" /\ at' = [at EXCEPT ![r] = "rename"]
    BY <1>3 DEF OpenTmp, IInv, TypeOK
  <2>2. QED
    BY <1>3, <2>1, Moves DEF OpenTmp, IInv, TypeOK, Numbered, Awaits
<1>4. CASE SettleTmp(r)
  <2>1. tmp' \subseteq Request /\ at[r] = "rename" /\ stored' = stored \cup {Digest(r)}
    BY <1>4 DEF SettleTmp, IInv, TypeOK
  <2>2. PICK step \in {"attach", "refused"} :
            at' = [at EXCEPT ![r] = step] /\ (step = "refused" => r \in Upload)
    BY <1>4 DEF SettleTmp
  <2>3. r \in Quote => r \notin Upload
    BY IssueAssumption DEF Document
  <2>4. QED
    BY <1>4, <2>1, <2>2, <2>3, Moves DEF SettleTmp, IInv, TypeOK, Numbered, Awaits, Ended
<1>5. QED
    BY <1>1, <1>2, <1>3, <1>4

\* Taking a number, or waiting for one too long, keeps the invariant.
LEMMA StepsOfNumbers ==
    ASSUME IInv, NEW r \in Quote, AllocateNumber(r) \/ LockTimeout(r)
    PROVE  IInv'
<1>1. r \in Request /\ r \in Document /\ r \notin Upload
    BY IssueAssumption DEF Request, Document
<1>2. CASE AllocateNumber(r)
  <2>1. at[r] = "number" /\ at' = [at EXCEPT ![r] = "merge"]
        /\ UNCHANGED <<documentRow, renderVars, storeVars, inputVars, rows>>
    BY <1>2 DEF AllocateNumber
  <2>2. TypeOK'
    <3>1. number' \in [Quote -> Nat] /\ sequenceRow' \in [Year -> Quote \cup {Free}]
      BY <1>2 DEF AllocateNumber, IInv, TypeOK
    <3>2. at' \in [Request -> {"idle", "connect"} \cup Awaits \cup Ended]
      BY <2>1 DEF IInv, TypeOK, Awaits
    <3>3. QED
      BY <1>2, <3>1, <3>2
         DEF AllocateNumber, IInv, TypeOK, renderVars, storeVars, inputVars
  <2>3. Uploads'
    BY <1>1, <2>1 DEF IInv, Uploads, TypeOK, Request
  <2>4. Slots'
    BY <1>1, <2>1, KeepsSlots DEF IInv
  <2>5. Numbers'
    BY <1>2, GivesNumber DEF IInv
  <2>6. Blobs'
    BY <1>1, <2>1 DEF IInv, Blobs, TypeOK, Digest, storeVars, inputVars
  <2>7. QED
    BY <2>2, <2>3, <2>4, <2>5, <2>6 DEF IInv
<1>3. CASE LockTimeout(r)
    BY <1>1, <1>3, RollsBack DEF LockTimeout, storeVars, IInv, TypeOK
<1>4. QED
    BY <1>2, <1>3
\* The render queue, the render and the release keep the invariant.
LEMMA StepsOfSlots ==
    ASSUME IInv, NEW r \in Request,
           Merge(r) \/ SlotTimeout(r) \/ Rendered(r) \/ RenderFails(r)
    PROVE  IInv'
<1>1. at[r] \in {"merge", "slot", "render"}
    BY DEF Merge, SlotTimeout, Rendered, RenderFails
<1>2. r \in Document /\ r \notin Upload
    BY <1>1, IssueAssumption DEF IInv, Uploads, Ended, Request
<1>3. CASE Merge(r)
  <2>1. at[r] = "merge" /\ UNCHANGED <<storeVars, inputVars>>
    BY <1>3 DEF Merge
  <2>2. CASE Rollback(r) /\ UNCHANGED renderVars
    BY <2>1, <2>2, RollsBack DEF storeVars, IInv, TypeOK
  <2>3. CASE ~(Rollback(r) /\ UNCHANGED renderVars)
    <3>1. PICK step \in {"render", "slot"} :
              /\ at' = [at EXCEPT ![r] = step]
              /\ step = "render" => /\ rendersInFlight < RenderMax
                                    /\ rendersInFlight' = rendersInFlight + 1
                                    /\ UNCHANGED rendersWaiting
              /\ step = "slot" => /\ rendersInFlight >= RenderMax
                                  /\ rendersWaiting' = Append(rendersWaiting, r)
                                  /\ UNCHANGED rendersInFlight
              /\ UNCHANGED <<conns, databaseVars>>
      BY <1>3, <2>3 DEF Merge
    <3>2. Slots'
      <4>1. CASE step = "render"
        BY <1>2, <2>1, <3>1, <4>1, TakesSlot DEF IInv
      <4>2. CASE step = "slot"
        BY <1>2, <2>1, <3>1, <4>2, Queues DEF IInv
      <4>3. QED
        BY <4>1, <4>2
    <3>3. TypeOK'
      <4>1. at' \in [Request -> {"idle", "connect"} \cup Awaits \cup Ended]
        BY <3>1 DEF IInv, TypeOK, Awaits
      <4>2. rendersInFlight' \in Nat
        BY <3>1 DEF IInv, TypeOK
      <4>3. rendersWaiting' \in Seq(Document)
        <5>1. rendersWaiting' \in {rendersWaiting, Append(rendersWaiting, r)}
          BY <3>1
        <5>2. rendersWaiting \in Seq(Document)
          BY DEF IInv, TypeOK
        <5>3. Append(rendersWaiting, r) \in Seq(Document)
          BY <1>2, <5>2, AppendProperties
        <5>4. QED
          BY <5>1, <5>2, <5>3
      <4>4. QED
        BY <2>1, <3>1, <4>1, <4>2, <4>3 DEF IInv, TypeOK, databaseVars, storeVars, inputVars
    <3>4. \A q \in Request : at'[q] = IF q = r THEN step ELSE at[q]
      BY <3>1 DEF IInv, TypeOK
    <3>5. Uploads'
      BY <1>2, <3>4 DEF IInv, Uploads, Request
    <3>6. Numbers'
      BY <2>1, <3>1, <3>4, KeepsNumbers
         DEF IInv, Numbered, Awaits, Request, Document, databaseVars, inputVars
    <3>7. Blobs'
      BY <2>1, <3>1, <3>4 DEF IInv, Blobs, Digest, databaseVars, storeVars, inputVars
    <3>8. QED
      BY <3>2, <3>3, <3>5, <3>6, <3>7 DEF IInv
  <2>4. QED
    BY <2>2, <2>3
<1>4. CASE SlotTimeout(r)
  <2>1. /\ at[r] = "slot" /\ at' = [at EXCEPT ![r] = "refused"] /\ Release(r)
        /\ UNCHANGED <<sequence, rows, quotes, rendersInFlight, storeVars, inputVars>>
    BY <1>4 DEF SlotTimeout, Rollback
  <2>2. PICK i \in 1..Len(rendersWaiting) :
            rendersWaiting[i] = r /\ rendersWaiting' = RemoveAt(rendersWaiting, i)
    BY <1>4 DEF SlotTimeout
  <2>3. Slots' /\ rendersWaiting' \in Seq(Document)
    BY <1>2, <2>1, <2>2, LeavesQueue DEF IInv
  <2>4. TypeOK'
    <3>1. sequenceRow' \in [Year -> Quote \cup {Free}] /\ documentRow' \in Redraft \cup {Free}
      BY <2>1 DEF IInv, TypeOK, Release
    <3>2. number' \in [Quote -> Nat]
      BY <1>4 DEF IInv, TypeOK, SlotTimeout, Rollback
    <3>3. at' \in [Request -> {"idle", "connect"} \cup Awaits \cup Ended]
      BY <2>1 DEF IInv, TypeOK, Ended
    <3>4. IsFiniteSet(conns')
      BY <2>1, Connections DEF IInv, Release
    <3>5. QED
      BY <2>1, <2>3, <3>1, <3>2, <3>3, <3>4 DEF IInv, TypeOK, storeVars, inputVars
  <2>5. \A q \in Request : at'[q] = IF q = r THEN "refused" ELSE at[q]
    BY <2>1 DEF IInv, TypeOK
  <2>6. Uploads'
    BY <2>5, <1>2 DEF IInv, Uploads, Request
  <2>7. Numbers'
    BY <1>4, <2>1, <2>5, DropsNumber
       DEF IInv, SlotTimeout, Rollback, Numbered, Awaits, Request, Document, inputVars
  <2>8. Blobs'
    BY <2>1, <2>5 DEF IInv, Blobs, Digest, storeVars, inputVars
  <2>9. QED
    BY <2>3, <2>4, <2>6, <2>7, <2>8 DEF IInv
<1>5. CASE Rendered(r) \/ RenderFails(r)
  <2>1. PICK step \in {"save", "refused"} :
            /\ HandSlotOn([at EXCEPT ![r] = step])
            /\ step = "save" => UNCHANGED <<conns, databaseVars>>
            /\ step = "refused" =>
                  /\ Release(r)
                  /\ number' = IF r \in Quote THEN [number EXCEPT ![r] = 0] ELSE number
                  /\ UNCHANGED <<sequence, rows, quotes>>
    BY <1>5 DEF Rendered, RenderFails
  <2>2. at[r] = "render" /\ UNCHANGED <<storeVars, inputVars>>
    BY <1>5 DEF Rendered, RenderFails
  <2>3. /\ Slots'
        /\ rendersInFlight' \in Nat /\ rendersWaiting' \in Seq(Document)
        /\ at' \in [Request -> {"idle", "connect"} \cup Awaits \cup Ended]
        /\ at'[r] = step
        /\ \A q \in Request \ {r} :
              at'[q] = at[q] \/ (q \in Document /\ at[q] = "slot" /\ at'[q] = "render")
    <3>1. step \in Awaits \cup Ended /\ step \notin {"slot", "render"}
      BY DEF Awaits, Ended
    <3>2. QED
      BY <1>2, <2>1, <2>2, <3>1, GivesSlot DEF IInv
  <2>4. UNCHANGED <<sequence, rows, quotes>>
    BY <2>1 DEF databaseVars
  <2>5. TypeOK'
    <3>1. /\ sequenceRow' \in [Year -> Quote \cup {Free}]
          /\ documentRow' \in Redraft \cup {Free}
          /\ number' \in [Quote -> Nat]
          /\ IsFiniteSet(conns')
      <4>1. CASE step = "save"
        BY <2>1, <4>1 DEF IInv, TypeOK, databaseVars
      <4>2. CASE step = "refused"
        <5>1. /\ Release(r)
              /\ number' = IF r \in Quote THEN [number EXCEPT ![r] = 0] ELSE number
          BY <2>1, <4>2
        <5>2. IsFiniteSet(conns')
          BY <5>1, Connections DEF IInv, Release
        <5>3. number' \in [Quote -> Nat]
          BY <5>1 DEF IInv, TypeOK
        <5>4. QED
          BY <5>1, <5>2, <5>3 DEF IInv, TypeOK, Release
      <4>3. QED
        BY <4>1, <4>2
    <3>2. QED
      BY <2>2, <2>3, <2>4, <3>1 DEF IInv, TypeOK, storeVars, inputVars
  <2>6. Uploads'
    BY <1>2, <2>3, IssueAssumption DEF IInv, Uploads, Request
  <2>7. Numbers'
    <3>1. \A q \in Quote \ {r} : /\ at'[q] \in Numbered <=> at[q] \in Numbered
                                 /\ at[q] = "issued" => at'[q] = "issued"
      BY <2>3 DEF Numbered, Awaits, Request, Document
    <3>2. CASE step = "save"
      <4>1. \A q \in Quote : /\ at'[q] \in Numbered <=> at[q] \in Numbered
                             /\ at[q] = "issued" => at'[q] = "issued"
        BY <2>2, <2>3, <3>1, <3>2 DEF Numbered, Awaits
      <4>2. QED
        BY <2>1, <2>2, <3>2, <4>1, KeepsNumbers DEF IInv, databaseVars, inputVars
    <3>3. CASE step = "refused"
      BY <2>1, <2>2, <2>3, <3>1, <3>3, DropsNumber DEF IInv, Numbered, Awaits, inputVars
    <3>4. QED
      BY <3>2, <3>3
  <2>8. Blobs'
    <3>1. \A q \in Request : at'[q] \in {"attach", "row", "commit"} => at'[q] = at[q]
      BY <2>3
    <3>2. QED
      BY <2>2, <2>4, <3>1 DEF IInv, Blobs, Digest, storeVars, inputVars
  <2>9. QED
    BY <2>3, <2>5, <2>6, <2>7, <2>8 DEF IInv
<1>6. QED
    BY <1>3, <1>4, <1>5
\* What a request does once its bytes are stored, or not, keeps the invariant.
LEMMA StepsAfter ==
    ASSUME IInv, NEW r \in Request,
           SaveFails(r) \/ Attach(r) \/ (r \in Redraft /\ UpdateRow(r)) \/ Commit(r)
    PROVE  IInv'
<1>1. at[r] \in {"rename", "attach", "row", "commit"}
    BY DEF SaveFails, Attach, UpdateRow, Commit
<1>2. at[r] \in Numbered \cup {"attach", "rename"} /\ at[r] \notin {"slot", "render", "issued"}
    BY <1>1 DEF Numbered, Awaits
<1>3. r \in Quote => r \in Document /\ r \notin Upload
    BY IssueAssumption DEF Document
<1>4. IsFiniteSet(conns) /\ documentRow \in Redraft \cup {Free} /\ tmp \subseteq Request
    BY DEF IInv, TypeOK
<1>5. at[r] \in {"attach", "row", "commit"} => Digest(r) \in stored
    BY DEF IInv, Blobs
<1>6. CASE SaveFails(r)
  <2>1. at[r] = "rename" /\ tmp' = tmp \ {r} /\ UNCHANGED <<stored, renderVars, inputVars>>
    BY <1>6 DEF SaveFails
  <2>2. CASE r \in Upload
    BY <1>3, <1>4, <1>6, <2>1, <2>2, Moves DEF SaveFails, databaseVars, Ended
  <2>3. CASE r \notin Upload
    BY <1>2, <1>4, <1>6, <2>1, <2>3, RollsBack DEF SaveFails
  <2>4. QED
    BY <2>2, <2>3
<1>7. CASE Attach(r)
  <2>1. at[r] = "attach" /\ UNCHANGED <<renderVars, storeVars, inputVars>>
    BY <1>7 DEF Attach
  <2>2. CASE /\ r \in Upload /\ rows' = rows \cup {Digest(r)} /\ at' = [at EXCEPT ![r] = "issued"]
             /\ UNCHANGED <<conns, sequence, sequenceRow, documentRow, number, quotes>>
    BY <1>3, <1>4, <1>5, <2>1, <2>2, Moves DEF storeVars, Ended
  <2>3. CASE /\ r \in Document
             /\ at' = [at EXCEPT ![r] = IF r \in Redraft THEN "row" ELSE "commit"]
             /\ UNCHANGED <<conns, databaseVars>>
    <3>1. PICK step \in {"row", "commit"} : at' = [at EXCEPT ![r] = step]
      BY <2>3
    <3>2. r \notin Upload
      BY <2>3, IssueAssumption
    <3>3. QED
      BY <1>4, <1>5, <2>1, <2>3, <3>1, <3>2, Moves DEF storeVars, databaseVars, Numbered, Awaits
  <2>4. CASE Rollback(r)
    BY <1>2, <1>4, <2>1, <2>4, RollsBack DEF storeVars
  <2>5. QED
    BY <1>7, <2>2, <2>3, <2>4 DEF Attach
<1>8. CASE r \in Redraft /\ UpdateRow(r)
  <2>1. at[r] = "row" /\ UNCHANGED <<renderVars, storeVars, inputVars>> /\ r \notin Upload
    BY <1>8, IssueAssumption DEF UpdateRow, Document
  <2>2. CASE /\ documentRow' = r /\ at' = [at EXCEPT ![r] = "commit"]
             /\ UNCHANGED <<conns, sequence, sequenceRow, number, rows, quotes>>
    BY <1>4, <1>5, <1>8, <2>1, <2>2, Moves DEF storeVars, Numbered, Awaits
  <2>3. CASE Rollback(r)
    BY <1>2, <1>4, <2>1, <2>3, RollsBack DEF storeVars
  <2>4. QED
    BY <1>8, <2>2, <2>3 DEF UpdateRow
<1>9. CASE Commit(r)
  <2>1. /\ at[r] = "commit" /\ at' = [at EXCEPT ![r] = "issued"] /\ Release(r)
        /\ rows' = rows \cup {Digest(r)}
        /\ UNCHANGED <<number, renderVars, storeVars, inputVars>>
    BY <1>9 DEF Commit
  <2>2. r \notin Upload /\ r \in Document
    BY <2>1, IssueAssumption DEF IInv, Uploads, Ended, Request
  <2>3. \A q \in Request : at'[q] = IF q = r THEN "issued" ELSE at[q]
    BY <2>1 DEF IInv, TypeOK
  <2>4. TypeOK'
    <3>1. IsFiniteSet(conns')
      BY <2>1, Connections DEF IInv, Release
    <3>2. sequenceRow' \in [Year -> Quote \cup {Free}] /\ documentRow' \in Redraft \cup {Free}
      BY <2>1 DEF IInv, TypeOK, Release
    <3>3. sequence' \in [Year -> Nat] /\ quotes' \subseteq Quote
      BY <1>9 DEF Commit, IInv, TypeOK
    <3>4. rows' \subseteq Document \cup Content
      BY <2>1, <2>2 DEF IInv, TypeOK, Digest
    <3>5. at' \in [Request -> {"idle", "connect"} \cup Awaits \cup Ended]
      BY <2>1 DEF IInv, TypeOK, Ended
    <3>6. QED
      BY <2>1, <3>1, <3>2, <3>3, <3>4, <3>5 DEF IInv, TypeOK, renderVars, storeVars, inputVars
  <2>5. Uploads'
    BY <2>2, <2>3 DEF IInv, Uploads, Request
  <2>6. Slots'
    BY <2>1, KeepsSlots DEF IInv
  <2>7. Numbers'
    <3>1. CASE r \in Quote
      BY <1>9, <3>1, CommitsNumber DEF IInv
    <3>2. CASE r \notin Quote
      <4>1. \A y \in Year : sequenceRow[y] # r
        BY <2>2, <3>2, IssueAssumption DEF IInv, TypeOK, Request
      <4>2. sequenceRow' = sequenceRow
        BY <2>1, <4>1 DEF Release, IInv, TypeOK
      <4>3. QED
        BY <1>9, <2>1, <2>3, <3>2, <4>2, KeepsNumbers
           DEF Commit, IInv, Request, Document, inputVars
    <3>3. QED
      BY <3>1, <3>2
  <2>8. Blobs'
    BY <1>5, <2>1, <2>3 DEF IInv, Blobs, Digest, storeVars, inputVars
  <2>9. QED
    BY <2>4, <2>5, <2>6, <2>7, <2>8 DEF IInv
<1>10. QED
    BY <1>6, <1>7, <1>8, <1>9

\* So does the death of the process, which the database and the files survive.
LEMMA StepCrash == IInv /\ Crash => IInv'
<1> SUFFICES ASSUME IInv, Crash PROVE IInv'
    OBVIOUS
<1>1. \A r \in Request :
          /\ at[r] \in {"idle"} \cup Ended => at'[r] = at[r]
          /\ at[r] \notin {"idle"} \cup Ended => at'[r] = "lost"
    BY DEF Crash
<1>2. \A r \in Request : at'[r] \in {"idle"} \cup Ended
    BY <1>1 DEF Ended
<1>3. \A r \in Request : at'[r] \notin {"slot", "render", "attach", "row", "commit"}
                        /\ at'[r] \notin Numbered
    BY <1>2 DEF Ended, Numbered, Awaits
<1>4. \A q \in quotes : number'[q] = number[q] /\ at[q] = "issued" /\ q \in Request
    BY DEF Crash, IInv, Numbers, TypeOK, Request, Document
<1>5. TypeOK'
  <2>1. IsFiniteSet(conns') /\ rendersWaiting' \in Seq(Document)
    BY FS_EmptySet, EmptySeq DEF Crash
  <2>2. at' \in [Request -> {"idle", "connect"} \cup Awaits \cup Ended]
    BY <1>2 DEF Crash
  <2>3. number' \in [Quote -> Nat]
    BY DEF Crash, IInv, TypeOK
  <2>4. crashes' \in 0..MaxCrashes
    BY IssueAssumption DEF Crash, IInv, TypeOK
  <2>5. QED
    BY <2>1, <2>2, <2>3, <2>4 DEF Crash, IInv, TypeOK, storeVars
<1>6. Uploads'
    BY <1>2 DEF Uploads, Request, Crash
<1>7. Slots'
  <2>1. Renders' = {}
    BY <1>3 DEF Renders, Request
  <2>2. rendersWaiting' = <<>> /\ Len(rendersWaiting') = 0 /\ rendersInFlight' = 0
    BY DEF Crash
  <2>3. QED
    BY <1>3, <2>1, <2>2, FS_EmptySet, IssueAssumption DEF Slots, Request
<1>8. Numbers'
  <2>1. NumbersAreGapless'
    <3> SUFFICES ASSUME NEW y \in Year
                 PROVE  LET issued == {q \in quotes : year[q] = y}
                        IN  /\ {number'[q] : q \in issued} = 1..sequence[y]
                            /\ Cardinality(issued) = sequence[y]
      BY DEF NumbersAreGapless, Crash
    <3> DEFINE issued == {q \in quotes : year[q] = y}
    <3>1. {number'[q] : q \in issued} = {number[q] : q \in issued}
      BY <1>4
    <3>2. QED
      BY <3>1 DEF IInv, Numbers, NumbersAreGapless
  <2>2. \A q \in quotes : at'[q] = "issued"
    BY <1>1, <1>4 DEF Ended
  <2>3. \A q \in Quote : at'[q] \notin Numbered
    BY <1>3 DEF Request, Document
  <2>4. QED
    BY <2>1, <2>2, <2>3 DEF Crash, IInv, Numbers
<1>9. Blobs'
    BY <1>3 DEF Crash, IInv, Blobs, storeVars
<1>10. QED
    BY <1>5, <1>6, <1>7, <1>8, <1>9 DEF IInv

\* What the server does for a request that has come keeps the invariant.
LEMMA StepServe == ASSUME IInv, NEW r \in Request, Serve(r) PROVE IInv'
<1>1. QED
    BY StepsBefore, StepsOfNumbers, StepsOfSlots, StepsAfter DEF Serve

\* Every step keeps it.
LEMMA StepIInv == IInv /\ [IssueNext]_issueVars => IInv'
<1> SUFFICES ASSUME IInv, [IssueNext]_issueVars PROVE IInv'
    OBVIOUS
<1>1. ASSUME NEW r \in Request, Ask(r) \/ Serve(r) PROVE IInv'
    BY <1>1, StepsBefore, StepServe
<1>2. CASE Crash
    BY <1>2, StepCrash
<1>3. CASE UNCHANGED issueVars
  <2> USE DEF issueVars, databaseVars, renderVars, storeVars, inputVars
  <2>1. TypeOK' /\ Uploads'
    BY <1>3 DEF IInv, TypeOK, Uploads
  <2>2. Slots'
    BY <1>3 DEF IInv, Slots, Renders
  <2>3. Numbers'
    BY <1>3, KeepsNumbers DEF IInv
  <2>4. Blobs'
    BY <1>3 DEF IInv, Blobs, Digest
  <2>5. QED
    BY <2>1, <2>2, <2>3, <2>4 DEF IInv
<1>4. QED
    BY <1>1, <1>2, <1>3 DEF IssueNext

\* It holds of every state of the documents, the files and the slots.
LEMMA Invariant == IssueSpec => []IInv
<1>1. QED
    BY InitIInv, StepIInv, PTL DEF IssueSpec

\* Every variable keeps its type.
THEOREM Types == IssueSpec => []TypeOK
<1>1. IInv => TypeOK
    BY DEF IInv
<1>2. QED
    BY <1>1, Invariant, PTL

\* The numbers of the committed quotes of a year are 1 to last_value, each once, for any number
\* of quotes at once and whatever is refused, timed out or lost (allocateNumber).
THEOREM Gapless == IssueSpec => []NumbersAreGapless
<1>1. IInv => NumbersAreGapless
    BY DEF IInv, Numbers
<1>2. QED
    BY <1>1, Invariant, PTL

\* No path out of renderPdf loses a render slot or grants one twice, for any cap and any queue
\* (acquireRenderSlot, releaseRenderSlot).
THEOREM Accounted == IssueSpec => []SlotsAreAccounted
<1>1. IInv => SlotsAreAccounted
  <2> SUFFICES ASSUME IInv PROVE SlotsAreAccounted
      OBVIOUS
  <2>1. rendersInFlight = Cardinality({r \in Document : at[r] = "render"})
      BY DEF IInv, Slots, Renders
  <2>2. ToSet(rendersWaiting) = {r \in Document : at[r] = "slot"}
    <3>1. \A i \in 1..Len(rendersWaiting) : rendersWaiting[i] \in Document
      BY ElementOfSeq DEF IInv, TypeOK
    <3>2. DOMAIN rendersWaiting = 1..Len(rendersWaiting)
      BY LenProperties DEF IInv, TypeOK
    <3>3. QED
      BY <3>1, <3>2 DEF IInv, Slots, ToSet
  <2>3. QED
      BY <2>1, <2>2 DEF IInv, Slots, SlotsAreAccounted
<1>2. QED
    BY <1>1, Invariant, PTL

\* No row of files is visible before its bytes are stored (attachFile after saveBlob), whichever
\* requests store the same content and wherever the process dies.
THEOREM BlobsFirst == IssueSpec => []RowsHaveBlobs
<1>1. IInv => RowsHaveBlobs
    BY DEF IInv, Blobs, RowsHaveBlobs
<1>2. QED
    BY <1>1, Invariant, PTL

-----------------------------------------------------------------------------
(* The builds beside them *)

\* The route counts the one build of its that runs.
Counted ==
    /\ backupsInFlight \in {0, 1}
    /\ \A b \in RouteBuild : doing[b] \in Building => backupsInFlight = 1
    /\ \A b, c \in RouteBuild : doing[b] \in Building /\ doing[c] \in Building => b = c

\* A restore closes the gate, so one safety build runs.
OneRestore == \A s, r \in SafetyBuild : doing[s] \in Building /\ doing[r] \in Building => s = r

\* The boot sweep lists once, then removes, and what it fails to remove stays.
BootSweeps ==
    /\ bootDue => bootList = {}
    /\ bootDue \/ bootList # {} => stuck = {}

\* What has been dumped is stored, and is in what 7z has listed since.
Dumped ==
    \A b \in Build :
        /\ dumped[b] \subseteq stored
        /\ doing[b] \in {"read", "stream", "served"} /\ walked[b] # {} =>
              dumped[b] \subseteq packed[b]

BuildTypes ==
    /\ doing \in [Build -> {"idle", "served", "failed", "lost"} \cup Building]
    /\ walked \in [Build -> SUBSET (Document \cup Content \cup {Tmp(r) : r \in Request})]
    /\ packed \in [Build -> SUBSET (Document \cup Content \cup {Tmp(r) : r \in Request})]
    /\ dumped \in [Build -> SUBSET (Document \cup Content)]
    /\ workDirs \subseteq Build
    /\ listed \in [Build -> SUBSET Build]
    /\ bootDue \in BOOLEAN /\ bootList \subseteq Build /\ stuck \subseteq Build
    /\ sweptBy \in [Build -> SUBSET Kinds]

BuildInv ==
    BuildTypes /\ Counted /\ OneRestore /\ BootSweeps /\ Dumped /\ WorkDirsFollowBuilds
-----------------------------------------------------------------------------
(* What a build does to the documents, and they to it. *)

\* A build takes and gives back connections and nothing else.
LEMMA BuildsKeepIInv ==
    ASSUME IInv, UNCHANGED <<at, databaseVars, renderVars, storeVars, inputVars>>,
           IsFiniteSet(conns')
    PROVE  IInv'
<1> USE DEF databaseVars, renderVars, storeVars, inputVars
<1>1. TypeOK' /\ Uploads'
    BY DEF IInv, TypeOK, Uploads
<1>2. Slots'
    BY DEF IInv, Slots, Renders
<1>3. Numbers'
    BY KeepsNumbers DEF IInv
<1>4. Blobs'
    BY DEF IInv, Blobs, Digest
<1>5. QED
    BY <1>1, <1>2, <1>3, <1>4 DEF IInv

\* Nothing removes stored bytes (blobs are never deleted).
LEMMA StoredStays ==
    ASSUME (\E r \in Request : Ask(r) \/ Serve(r)) \/ Crash
    PROVE  stored \subseteq stored'
<1> USE DEF storeVars
<1>1. ASSUME NEW r \in Request, Ask(r) \/ Serve(r) PROVE stored \subseteq stored'
    BY <1>1 DEF Ask, Serve, Begin, Merge, SlotTimeout, Rendered, RenderFails, OpenTmp,
       SettleTmp, SaveFails, Attach, Commit, AllocateNumber, LockTimeout, UpdateRow
<1>2. CASE Crash
    BY <1>2 DEF Crash
<1>3. QED
    BY <1>1, <1>2

\* A build that fails forgets what it knew and removes its work directory.
LEMMA Fails ==
    ASSUME BuildInv, NEW b \in Build, Fail(b), doing[b] \in Building, UNCHANGED stored
    PROVE  BuildInv'
<1>1. /\ \A c \in Build : doing'[c] = IF c = b THEN "failed" ELSE doing[c]
      /\ doing' \in [Build -> {"idle", "served", "failed", "lost"} \cup Building]
    BY DEF Fail, Await, BuildInv, BuildTypes
<1>2. BuildTypes'
    BY <1>1 DEF Fail, sweepVars, BuildInv, BuildTypes
<1>3. Counted'
    BY <1>1 DEF Fail, Discount, BuildInv, Counted, Build, Building, Working
<1>4. OneRestore' /\ BootSweeps'
    BY <1>1 DEF Fail, sweepVars, BuildInv, OneRestore, BootSweeps, Build, Building, Working
<1>5. Dumped'
    BY <1>1 DEF Fail, BuildInv, BuildTypes, Dumped
<1>6. WorkDirsFollowBuilds'
    BY <1>1 DEF Fail, sweepVars, BuildInv, BuildTypes, WorkDirsFollowBuilds, Building, Working
<1>7. QED
    BY <1>2, <1>3, <1>4, <1>5, <1>6 DEF BuildInv

\* A build that goes on from one await to the next, with its work directory if it has one.
LEMMA GoesOn ==
    ASSUME BuildInv, NEW b \in Build, NEW await \in Building, Await(b, await),
           doing[b] \in Building, doing[b] \in Working <=> await \in Working,
           UNCHANGED <<backupsInFlight, workDirs, bootDue, bootList, stuck, sweptBy, stored>>,
           listed' \in [Build -> SUBSET Build],
           walked' \in [Build -> SUBSET (Document \cup Content \cup {Tmp(r) : r \in Request})],
           packed' \in [Build -> SUBSET (Document \cup Content \cup {Tmp(r) : r \in Request})],
           dumped' \in [Build -> SUBSET (Document \cup Content)],
           Dumped'
    PROVE  BuildInv'
<1>1. /\ \A c \in Build : doing'[c] = IF c = b THEN await ELSE doing[c]
      /\ doing' \in [Build -> {"idle", "served", "failed", "lost"} \cup Building]
    BY DEF Await, BuildInv, BuildTypes
<1>2. BuildTypes'
    BY <1>1 DEF BuildInv, BuildTypes
<1>3. Counted'
    BY <1>1 DEF BuildInv, Counted, Build
<1>4. OneRestore' /\ BootSweeps'
    BY <1>1 DEF BuildInv, OneRestore, BootSweeps, Build
<1>5. WorkDirsFollowBuilds'
    BY <1>1 DEF BuildInv, BuildTypes, WorkDirsFollowBuilds, Building, Working
<1>6. QED
    BY <1>2, <1>3, <1>4, <1>5 DEF BuildInv
-----------------------------------------------------------------------------
\* Nothing is built when the first process starts.
LEMMA InitBuildInv == Init => BuildInv
<1> SUFFICES ASSUME Init PROVE BuildInv
    OBVIOUS
<1>1. \A b \in Build : doing[b] = "idle" /\ dumped[b] = {} /\ sweptBy[b] = {}
    BY DEF Init
<1>2. BuildTypes
    BY DEF Init, BuildTypes
<1>3. Counted /\ OneRestore /\ BootSweeps
    BY <1>1 DEF Init, Counted, OneRestore, BootSweeps, Building, Working, Build
<1>4. Dumped
    BY <1>1 DEF Dumped
<1>5. WorkDirsFollowBuilds
    BY <1>1 DEF Init, WorkDirsFollowBuilds, Working
<1>6. QED
    BY <1>2, <1>3, <1>4, <1>5 DEF BuildInv

\* A request that is served, or comes, leaves the builds alone.
LEMMA StepRequest ==
    ASSUME BuildInv, NEW r \in Request, Ask(r) \/ Serve(r), UNCHANGED buildVars
    PROVE  BuildInv'
<1>1. stored \subseteq stored'
    BY StoredStays
<1>2. BuildTypes' /\ Counted' /\ OneRestore' /\ BootSweeps' /\ WorkDirsFollowBuilds'
    BY DEF BuildInv, buildVars, sweepVars, BuildTypes, Counted, OneRestore, BootSweeps,
       WorkDirsFollowBuilds
<1>3. Dumped'
    BY <1>1 DEF BuildInv, buildVars, Dumped
<1>4. QED
    BY <1>2, <1>3 DEF BuildInv

\* The steps of a build keep both invariants.
LEMMA StepBuild ==
    ASSUME IInv, BuildInv, NEW b \in Build,
           \/ AskBackup(b) \/ Walk(b) \/ Stat(b) \/ ListWork(b) \/ MakeWork(b)
           \/ Snapshot(b) \/ Dump(b) \/ Pack(b) \/ Read(b) \/ Close(b)
    PROVE  IInv' /\ BuildInv'
<1> USE DEF storeVars
<1>1. UNCHANGED <<at, databaseVars, renderVars, storeVars, inputVars>>
    BY DEF issueVars, AskBackup, Walk, Stat, ListWork, MakeWork, Snapshot, Dump, Pack, Read, Close
<1>2. conns' \in {conns, conns \cup {b}, conns \ {b}}
    BY DEF issueVars, AskBackup, Walk, Stat, ListWork, MakeWork, Snapshot, Dump, Pack, Read, Close,
       Fail
<1>3. IInv'
    BY <1>1, <1>2, Connections, BuildsKeepIInv DEF IInv, TypeOK
<1>4. UNCHANGED stored
    BY <1>1
<1>5. /\ doing \in [Build -> {"idle", "served", "failed", "lost"} \cup Building]
      /\ walked \in [Build -> SUBSET (Document \cup Content \cup {Tmp(r) : r \in Request})]
      /\ packed \in [Build -> SUBSET (Document \cup Content \cup {Tmp(r) : r \in Request})]
      /\ dumped \in [Build -> SUBSET (Document \cup Content)]
      /\ listed \in [Build -> SUBSET Build]
    BY DEF BuildInv, BuildTypes
<1>6. /\ Names \subseteq Document \cup Content \cup {Tmp(r) : r \in Request}
      /\ stored \subseteq Names /\ rows \subseteq stored
      /\ stored \subseteq Document \cup Content
    BY DEF IInv, TypeOK, Blobs, Names
<1>7. /\ \A c \in Build : dumped[c] \subseteq stored
      /\ \A c \in Build : doing[c] \in {"read", "stream", "served"} /\ walked[c] # {} =>
            dumped[c] \subseteq packed[c]
    BY DEF BuildInv, Dumped
<1>8. CASE AskBackup(b)
  <2>1. PICK await \in {"failed", "walk"} : Await(b, await)
    BY <1>8 DEF AskBackup
  <2>2. /\ doing[b] = "idle"
        /\ \A c \in Build : doing'[c] = IF c = b THEN await ELSE doing[c]
        /\ doing' \in [Build -> {"idle", "served", "failed", "lost"} \cup Building]
    BY <1>5, <1>8, <2>1 DEF AskBackup, Await, Building
  <2>3. UNCHANGED <<walked, dumped, packed, workDirs, listed, bootDue, bootList, stuck, sweptBy>>
    BY <1>8 DEF AskBackup, sweepVars
  <2>4. BuildTypes'
    BY <2>2, <2>3 DEF BuildInv, BuildTypes
  <2>5. Counted'
    <3>1. CASE b \in RouteBuild /\ backupsInFlight >= 1
      <4>1. UNCHANGED backupsInFlight /\ doing'[b] = "failed"
        BY <1>5, <1>8, <3>1 DEF AskBackup, Await
      <4>2. QED
        BY <2>2, <4>1 DEF BuildInv, Counted, Build, Building, Working
    <3>2. CASE b \in RouteBuild /\ backupsInFlight < 1
      <4>1. backupsInFlight = 0 /\ backupsInFlight' = 1
        BY <1>8, <3>2 DEF AskBackup, BuildInv, Counted
      <4>2. QED
        BY <2>2, <4>1 DEF BuildInv, Counted, Build
    <3>3. CASE b \notin RouteBuild
      <4>1. UNCHANGED backupsInFlight
        BY <1>8, <3>3 DEF AskBackup, BuildInv, Counted
      <4>2. QED
        BY <2>2, <3>3, <4>1 DEF BuildInv, Counted, Build
    <3>4. QED
      BY <3>1, <3>2, <3>3 DEF BuildInv, Counted
  <2>6. OneRestore' /\ BootSweeps'
    <3>1. \A s \in SafetyBuild : doing[s] \notin Building
      BY <1>8 DEF AskBackup, GateIsClosed
    <3>2. QED
      BY <2>2, <2>3, <3>1 DEF BuildInv, OneRestore, BootSweeps, Build
  <2>7. Dumped'
    BY <1>4, <2>2, <2>3 DEF BuildInv, Dumped
  <2>8. WorkDirsFollowBuilds'
    BY <2>2, <2>3 DEF BuildInv, BuildTypes, WorkDirsFollowBuilds, Working
  <2>9. QED
    BY <1>3, <2>4, <2>5, <2>6, <2>7, <2>8 DEF BuildInv
<1>9. CASE Walk(b)
  <2>1. CASE Fail(b)
    BY <1>3, <1>4, <1>9, <2>1, Fails DEF Walk, Building
  <2>2. CASE ~Fail(b)
    <3>1. /\ doing[b] = "walk" /\ Await(b, "stat") /\ walked' = [walked EXCEPT ![b] = Names]
          /\ UNCHANGED <<backupsInFlight, dumped, packed, workDirs>> /\ UNCHANGED sweepVars
      BY <1>9, <2>2 DEF Walk
    <3>2. walked' \in [Build -> SUBSET (Document \cup Content \cup {Tmp(r) : r \in Request})]
      BY <1>5, <1>6, <3>1
    <3>3. Dumped'
      BY <1>4, <1>5, <1>7, <3>1 DEF Dumped, Await
    <3>4. QED
      BY <1>3, <1>4, <1>5, <3>1, <3>2, <3>3, GoesOn DEF Building, Working, sweepVars
  <2>3. QED
    BY <2>1, <2>2
<1>10. CASE Stat(b)
  <2>1. CASE Fail(b)
    BY <1>3, <1>4, <1>10, <2>1, Fails DEF Stat, Building
  <2>2. CASE ~Fail(b)
    <3>1. /\ doing[b] = "stat" /\ Await(b, "work")
          /\ UNCHANGED <<backupsInFlight, walked, dumped, packed, workDirs>> /\ UNCHANGED sweepVars
      BY <1>10, <2>2 DEF Stat
    <3>2. Dumped'
      BY <1>4, <1>5, <1>7, <3>1 DEF Dumped, Await
    <3>3. QED
      BY <1>3, <1>4, <1>5, <3>1, <3>2, GoesOn DEF Building, Working, sweepVars
  <2>3. QED
    BY <2>1, <2>2
<1>11. CASE ListWork(b)
  <2>1. CASE Fail(b)
    BY <1>3, <1>4, <1>11, <2>1, Fails DEF ListWork, Building
  <2>2. CASE ~Fail(b)
    <3>1. /\ doing[b] = "work" /\ Await(b, "sweep") /\ listed' = [listed EXCEPT ![b] = workDirs]
          /\ UNCHANGED <<backupsInFlight, walked, dumped, packed, workDirs>>
          /\ UNCHANGED <<bootDue, bootList, stuck, sweptBy>>
      BY <1>11, <2>2 DEF ListWork
    <3>2. listed' \in [Build -> SUBSET Build]
      BY <1>5, <3>1 DEF BuildInv, BuildTypes
    <3>3. Dumped'
      BY <1>4, <1>5, <1>7, <3>1 DEF Dumped, Await
    <3>4. QED
      BY <1>3, <1>4, <1>5, <3>1, <3>2, <3>3, GoesOn DEF Building, Working
  <2>3. QED
    BY <2>1, <2>2
<1>12. CASE MakeWork(b)
  <2>1. /\ doing[b] = "sweep" /\ Await(b, "snapshot") /\ listed' = [listed EXCEPT ![b] = {}]
        /\ UNCHANGED <<backupsInFlight, walked, dumped, packed, bootDue, bootList, stuck>>
    BY <1>12 DEF MakeWork
  <2>2. PICK gone \in SUBSET listed[b] :
          /\ workDirs' = (workDirs \ gone) \cup {b}
          /\ SweptAway(gone, Kind(b))
    BY <1>12 DEF MakeWork
  <2>3. /\ \A c \in Build : doing'[c] = IF c = b THEN "snapshot" ELSE doing[c]
        /\ doing' \in [Build -> {"idle", "served", "failed", "lost"} \cup Building]
    BY <1>5, <2>1 DEF Await, Building, Working
  <2>4. Kind(b) \in Kinds
    BY DEF Kind, Kinds
  <2>5. \A c \in Build : sweptBy'[c] = IF c \in gone \cap workDirs /\ doing[c] \in Working
                                     THEN sweptBy[c] \cup {Kind(b)} ELSE sweptBy[c]
    BY <2>2 DEF SweptAway
  <2>6. sweptBy' \in [Build -> SUBSET Kinds]
    BY <2>2, <2>4 DEF SweptAway, BuildInv, BuildTypes
  <2>7. BuildTypes'
    BY <1>5, <2>1, <2>2, <2>3, <2>6 DEF BuildInv, BuildTypes
  <2>8. Counted'
    BY <2>1, <2>3 DEF BuildInv, Counted, Build, Building, Working
  <2>9. OneRestore' /\ BootSweeps'
    BY <2>1, <2>3 DEF BuildInv, OneRestore, BootSweeps, Build, Building, Working
  <2>10. Dumped'
    BY <1>4, <1>7, <2>1, <2>3 DEF Dumped
  <2>11. \A c \in Build : doing[c] \in Working => Kind(c) # Kind(b)
    <3>1. SUFFICES ASSUME NEW c \in Build, doing[c] \in Working, Kind(c) = Kind(b) PROVE FALSE
      OBVIOUS
    <3>2. doing[b] \in Building /\ doing[c] \in Building /\ b # c
      BY <2>1, <3>1 DEF Building, Working
    <3>3. (b \in RouteBuild /\ c \in RouteBuild) \/ (b \in SafetyBuild /\ c \in SafetyBuild)
      BY <3>1 DEF Kind, Build
    <3>4. QED
      BY <3>2, <3>3 DEF BuildInv, Counted, OneRestore
  <2>12. WorkDirsFollowBuilds'
    <3>1. ASSUME NEW c \in workDirs'
          PROVE  \/ doing'[c] \in Working
                 \/ doing'[c] = "lost" /\ (bootDue' \/ c \in bootList' \cup stuck')
      BY <2>1, <2>2, <2>3, <3>1 DEF BuildInv, BuildTypes, WorkDirsFollowBuilds, Working
    <3>2. ASSUME NEW c \in Build, doing'[c] \in Working
          PROVE  c \in workDirs' \/ sweptBy'[c] # {}
      BY <2>1, <2>2, <2>3, <2>5, <3>2 DEF BuildInv, WorkDirsFollowBuilds
    <3>3. ASSUME NEW c \in Build PROVE Kind(c) \notin sweptBy'[c]
      BY <2>5, <2>11, <3>3 DEF BuildInv, WorkDirsFollowBuilds
    <3>4. Kind(b)' = Kind(b) /\ \A c \in Build : Kind(c)' = Kind(c)
      BY DEF Kind
    <3>5. QED
      BY <3>1, <3>2, <3>3, <3>4 DEF WorkDirsFollowBuilds
  <2>13. QED
    BY <1>3, <2>7, <2>8, <2>9, <2>10, <2>12 DEF BuildInv
<1>13. CASE Snapshot(b)
  <2>1. /\ doing[b] = "snapshot" /\ Await(b, "dump") /\ dumped' = [dumped EXCEPT ![b] = rows]
        /\ UNCHANGED <<backupsInFlight, walked, packed, workDirs>> /\ UNCHANGED sweepVars
    BY <1>13 DEF Snapshot
  <2>2. dumped' \in [Build -> SUBSET (Document \cup Content)]
    BY <1>5, <1>6, <2>1
  <2>3. Dumped'
    BY <1>4, <1>5, <1>6, <1>7, <2>1 DEF Dumped, Await
  <2>4. QED
    BY <1>3, <1>4, <1>5, <2>1, <2>2, <2>3, GoesOn DEF Building, Working, sweepVars
<1>14. CASE Dump(b)
  <2>1. CASE Fail(b)
    BY <1>3, <1>4, <1>14, <2>1, Fails DEF Dump, Building, Working
  <2>2. CASE ~Fail(b)
    <3>1. /\ doing[b] = "dump" /\ Await(b, "pack")
          /\ UNCHANGED <<backupsInFlight, walked, dumped, packed, workDirs>> /\ UNCHANGED sweepVars
      BY <1>14, <2>2 DEF Dump
    <3>2. Dumped'
      BY <1>4, <1>5, <1>7, <3>1 DEF Dumped, Await
    <3>3. QED
      BY <1>3, <1>4, <1>5, <3>1, <3>2, GoesOn DEF Building, Working, sweepVars
  <2>3. QED
    BY <2>1, <2>2
<1>15. CASE Pack(b)
  <2>1. /\ doing[b] = "pack" /\ Await(b, "read")
        /\ packed' = [packed EXCEPT ![b] = IF walked[b] = {} THEN {} ELSE Names]
        /\ UNCHANGED <<backupsInFlight, walked, dumped, workDirs>> /\ UNCHANGED sweepVars
    BY <1>15 DEF Pack
  <2>2. packed' \in [Build -> SUBSET (Document \cup Content \cup {Tmp(r) : r \in Request})]
    BY <1>5, <1>6, <2>1
  <2>3. Dumped'
    BY <1>4, <1>5, <1>6, <1>7, <2>1 DEF Dumped, Await
  <2>4. QED
    BY <1>3, <1>4, <1>5, <2>1, <2>2, <2>3, GoesOn DEF Building, Working, sweepVars
<1>16. CASE Read(b)
  <2>1. CASE Fail(b)
    BY <1>3, <1>4, <1>16, <2>1, Fails DEF Read, Building, Working
  <2>2. CASE ~Fail(b)
    <3>1. /\ doing[b] = "read" /\ Await(b, "stream")
          /\ UNCHANGED <<backupsInFlight, walked, dumped, packed, workDirs>> /\ UNCHANGED sweepVars
      BY <1>16, <2>2 DEF Read
    <3>2. Dumped'
      BY <1>4, <1>5, <1>7, <3>1 DEF Dumped, Await
    <3>3. QED
      BY <1>3, <1>4, <1>5, <3>1, <3>2, GoesOn DEF Building, Working, sweepVars
  <2>3. QED
    BY <2>1, <2>2
<1>17. CASE Close(b)
  <2>1. /\ doing[b] = "stream" /\ Discount(b) /\ workDirs' = workDirs \ {b}
        /\ UNCHANGED <<walked, dumped, packed, listed, bootDue, bootList, stuck, sweptBy>>
    BY <1>17 DEF Close, sweepVars
  <2>2. /\ \A c \in Build : doing'[c] = IF c = b THEN "served" ELSE doing[c]
        /\ doing' \in [Build -> {"idle", "served", "failed", "lost"} \cup Building]
    BY <1>5, <1>17 DEF Close, Await
  <2>3. BuildTypes'
    BY <2>1, <2>2 DEF BuildInv, BuildTypes
  <2>4. Counted'
    BY <2>1, <2>2 DEF Discount, BuildInv, Counted, Build, Building, Working
  <2>5. OneRestore' /\ BootSweeps'
    BY <2>1, <2>2 DEF BuildInv, OneRestore, BootSweeps, Build, Building, Working
  <2>6. Dumped'
    BY <1>4, <1>7, <2>1, <2>2 DEF Dumped
  <2>7. WorkDirsFollowBuilds'
    BY <2>1, <2>2 DEF BuildInv, BuildTypes, WorkDirsFollowBuilds, Working
  <2>8. QED
    BY <1>3, <2>3, <2>4, <2>5, <2>6, <2>7 DEF BuildInv
<1>18. QED
    BY <1>8, <1>9, <1>10, <1>11, <1>12, <1>13, <1>14, <1>15, <1>16, <1>17

\* The boot sweep lists what is there, a build's directory too if it comes late.
LEMMA StepBootList == BuildInv /\ BootList => BuildInv'
<1> SUFFICES ASSUME BuildInv, BootList PROVE BuildInv'
    OBVIOUS
<1>1. /\ UNCHANGED <<stored, backupsInFlight, doing, walked, dumped, packed, workDirs>>
      /\ bootDue = TRUE /\ bootDue' = FALSE /\ bootList' = workDirs
      /\ UNCHANGED <<listed, stuck, sweptBy>>
    BY DEF BootList, issueVars, storeVars, BuildInv, BuildTypes
<1>2. BuildTypes' /\ Counted' /\ OneRestore' /\ BootSweeps' /\ Dumped'
    BY <1>1 DEF BuildInv, BuildTypes, Counted, OneRestore, BootSweeps, Dumped
<1>3. WorkDirsFollowBuilds'
    BY <1>1 DEF BuildInv, BuildTypes, WorkDirsFollowBuilds, Kind
<1>4. QED
    BY <1>2, <1>3 DEF BuildInv

\* What it removes of a build that runs is on that build's account, and what it fails to
\* remove is stuck.
LEMMA StepBootSweep == BuildInv /\ BootSweep => BuildInv'
<1> SUFFICES ASSUME BuildInv, BootSweep PROVE BuildInv'
    OBVIOUS
<1>1. /\ UNCHANGED <<stored, backupsInFlight, doing, walked, dumped, packed, listed, bootDue>>
      /\ bootList # {} /\ bootList' = {}
    BY DEF BootSweep, issueVars, storeVars
<1>2. PICK gone \in SUBSET bootList :
          /\ workDirs' = workDirs \ gone
          /\ stuck' = bootList \ gone
          /\ SweptAway(gone, "boot")
    BY DEF BootSweep
<1>3. /\ \A c \in Build : sweptBy'[c] = IF c \in gone \cap workDirs /\ doing[c] \in Working
                                    THEN sweptBy[c] \cup {"boot"} ELSE sweptBy[c]
      /\ sweptBy' \in [Build -> SUBSET Kinds]
    BY <1>2 DEF SweptAway, BuildInv, BuildTypes, Kinds
<1>4. BuildTypes' /\ Counted' /\ OneRestore' /\ BootSweeps' /\ Dumped'
    BY <1>1, <1>2, <1>3 DEF BuildInv, BuildTypes, Counted, OneRestore, BootSweeps, Dumped
<1>5. WorkDirsFollowBuilds'
    <2>1. \A c \in Build : Kind(c) # "boot" /\ Kind(c)' = Kind(c)
      BY DEF Kind
    <2>2. stuck = {} /\ ~bootDue
      BY <1>1 DEF BuildInv, BuildTypes, BootSweeps
    <2>3. QED
      BY <1>1, <1>2, <1>3, <2>1, <2>2 DEF BuildInv, BuildTypes, WorkDirsFollowBuilds
<1>6. QED
    BY <1>4, <1>5 DEF BuildInv

\* A death of the process ends every build and leaves the work directories to the next boot.
LEMMA StepCrashAll == BuildInv /\ CrashAll => BuildInv'
<1> SUFFICES ASSUME BuildInv, CrashAll PROVE BuildInv'
    OBVIOUS
<1>1. stored \subseteq stored'
    BY StoredStays DEF CrashAll
<1>2. /\ \A b \in Build : doing'[b] = IF doing[b] \in Building THEN "lost" ELSE doing[b]
      /\ \A b \in Build : doing'[b] \notin Building
      /\ doing' \in [Build -> {"idle", "served", "failed", "lost"} \cup Building]
    BY DEF CrashAll, BuildInv, BuildTypes, Building, Working
<1>3. \A b \in Build :
          /\ walked'[b] = IF doing[b] \in Building THEN {} ELSE walked[b]
          /\ dumped'[b] = IF doing[b] \in Building THEN {} ELSE dumped[b]
          /\ packed'[b] = IF doing[b] \in Building THEN {} ELSE packed[b]
    BY DEF CrashAll
<1>4. BuildTypes'
    BY <1>2 DEF CrashAll, BuildInv, BuildTypes
<1>5. Counted'
    BY <1>2 DEF CrashAll, Counted, Build
<1>6. OneRestore' /\ BootSweeps'
    BY <1>2 DEF CrashAll, OneRestore, BootSweeps, Build
<1>7. Dumped'
    BY <1>1, <1>2, <1>3 DEF BuildInv, Dumped
<1>8. WorkDirsFollowBuilds'
    BY <1>2 DEF CrashAll, BuildInv, BuildTypes, WorkDirsFollowBuilds, Building, Kind
<1>9. QED
    BY <1>4, <1>5, <1>6, <1>7, <1>8 DEF BuildInv

\* Every step of a backup beside the documents keeps both invariants.
LEMMA StepBoth == IInv /\ BuildInv /\ [Next]_vars => IInv' /\ BuildInv'
<1> SUFFICES ASSUME IInv, BuildInv, [Next]_vars PROVE IInv' /\ BuildInv'
    OBVIOUS
<1>1. ASSUME NEW r \in Request, Ask(r) \/ Serve(r), UNCHANGED buildVars
      PROVE  IInv' /\ BuildInv'
    BY <1>1, StepsBefore, StepServe, StepRequest
<1>2. ASSUME NEW b \in Build,
             \/ AskBackup(b) \/ Walk(b) \/ Stat(b) \/ ListWork(b) \/ MakeWork(b)
             \/ Snapshot(b) \/ Dump(b) \/ Pack(b) \/ Read(b) \/ Close(b)
      PROVE  IInv' /\ BuildInv'
    BY <1>2, StepBuild
<1>3. CASE BootList \/ BootSweep
    BY <1>3, StepBootList, StepBootSweep, StepIInv DEF BootList, BootSweep
<1>4. CASE CrashAll
    BY <1>4, StepCrashAll, StepCrash DEF CrashAll
<1>5. CASE UNCHANGED vars
  <2>1. IInv'
    BY <1>5, StepIInv DEF vars
  <2>2. BuildInv'
    BY <1>5 DEF vars, issueVars, buildVars, sweepVars, storeVars, BuildInv, BuildTypes, Counted,
       OneRestore, BootSweeps, Dumped, WorkDirsFollowBuilds
  <2>3. QED
    BY <2>1, <2>2
<1>6. QED
    BY <1>1, <1>2, <1>3, <1>4, <1>5 DEF Next, Comes

\* Both hold of every state of a backup beside the documents.
LEMMA BackupInvariant == Spec => [](IInv /\ BuildInv)
<1>1. Init => IInv /\ BuildInv
    BY InitIInv, InitBuildInv DEF Init
<1>2. QED
    BY <1>1, StepBoth, PTL DEF Spec

\* Every variable keeps its type, those of the documents too.
THEOREM BuildsAreTyped == Spec => []TypeOKBuild
<1>1. IInv /\ BuildInv => TypeOKBuild
    BY DEF IInv, BuildInv, BuildTypes, Counted, TypeOKBuild
<1>2. QED
    BY <1>1, BackupInvariant, PTL

\* The backups change nothing about the order of bytes and rows.
THEOREM BlobsFirstBesideBackups == Spec => []RowsHaveBlobs
<1>1. IInv => RowsHaveBlobs
    BY DEF IInv, Blobs, RowsHaveBlobs
<1>2. QED
    BY <1>1, BackupInvariant, PTL

\* However documents, uploads and builds interleave, an archive that buildBackup made of a store
\* that was not empty at its walk has the bytes of every row in its dump.
THEOREM Whole == Spec => []BackupIsWhole
<1>1. BuildInv => BackupIsWhole
    BY DEF BuildInv, Dumped, BackupIsWhole, Made
<1>2. QED
    BY <1>1, BackupInvariant, PTL

\* A work directory is there for a build that runs, or for a dead one until the boot sweep has
\* been, or has failed to remove it; and a build that runs is without its own only if the boot's
\* sweep, or that of a build of the other kind, has taken it (sweepAbandonedBackups, called by
\* buildBackup and by registerBackupRoutes).
THEOREM WorkDirs == Spec => []WorkDirsFollowBuilds
<1>1. BuildInv => WorkDirsFollowBuilds
    BY DEF BuildInv
<1>2. QED
    BY <1>1, BackupInvariant, PTL
=============================================================================
