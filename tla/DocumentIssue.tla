---------------------------- MODULE DocumentIssue ----------------------------
(***************************************************************************)
(* Issuing documents and storing files (services/documents.ts,             *)
(* documents-number.ts, documents-render.ts, blobs.ts, files.ts).          *)
(*                                                                         *)
(* A document is issued in one transaction, on one pooled connection: a    *)
(* numbered one (quote, NDA) takes the row of its number sequence, the PDF *)
(* is rendered in one of a few slots, its bytes are stored under their     *)
(* digest, the rows are inserted and the transaction commits.  A re-drafted *)
(* letter takes the row of its document last.  An upload stores its bytes  *)
(* with no transaction open and inserts its row in a short one.            *)
(*                                                                         *)
(* PostgreSQL is what the code relies on: a row that an open transaction   *)
(* has written is locked until that transaction ends, and a rollback       *)
(* leaves no trace.                                                        *)
(***************************************************************************)
EXTENDS Naturals, FiniteSets, Sequences, SequencesExt

CONSTANTS
    Quote,       \* requests for a numbered document
    Letter,      \* requests for an unnumbered one: letter, summary, report
    Redraft,     \* requests that render an issued letter again
    Upload,      \* file uploads
    Year,        \* the years the quotes may be dated in: one sequence each
    Content,     \* what the uploads may contain
    Free,        \* the holder of a lock nobody holds
    PoolMax,     \* connections in the pool (10 in the code)
    RenderMax,   \* RENDER_MAX_CONCURRENCY (2 in the code)
    MaxCrashes   \* bound: crashes in a behaviour

Document == Quote \cup Letter \cup Redraft
Request == Document \cup Upload

ASSUME IssueAssumption ==
    /\ Free \notin Request /\ Document \cap Upload = {}
    /\ PoolMax \in Nat \ {0} /\ RenderMax \in Nat \ {0} /\ MaxCrashes \in Nat

VARIABLES
    at,          \* the await each request is at
    conns,       \* who holds a connection of the pool for a transaction
    sequence,    \* document_number_sequences: last_value by year
    sequenceRow, \* the request whose transaction has written that row
    documentRow, \* the request whose transaction has written the letter's row
    year,        \* the year of each quote
    number,      \* the number each quote has been given, 0 before
    rendersInFlight,
    rendersWaiting,
    content,     \* what each upload contains
    tmp,         \* the .upload- files of the requests, complete or not
    stored,      \* the digests under files/
    rows,        \* the committed rows of files, by digest
    quotes,      \* the committed quotes
    crashes      \* crashes so far

databaseVars == <<sequence, sequenceRow, documentRow, number, rows, quotes>>
renderVars == <<rendersInFlight, rendersWaiting>>
storeVars == <<tmp, stored>>
inputVars == <<year, content, crashes>>
issueVars == <<at, conns, databaseVars, renderVars, storeVars, inputVars>>

Ended == {"issued", "refused", "lost"}
Awaits == {"number", "merge", "slot", "render", "save", "rename", "attach", "row", "commit"}
Inside == {r \in Document : at[r] \in Awaits}    \* in their transaction

\* The digest of what a request stores: a render is like no other content.
Digest(r) == IF r \in Upload THEN content[r] ELSE r

TypeOK ==
    /\ at \in [Request -> {"idle", "connect"} \cup Awaits \cup Ended]
    /\ IsFiniteSet(conns)
    /\ sequence \in [Year -> Nat] /\ sequenceRow \in [Year -> Quote \cup {Free}]
    /\ documentRow \in Redraft \cup {Free}
    /\ year \in [Quote -> Year] /\ number \in [Quote -> Nat]
    /\ rendersInFlight \in Nat /\ rendersWaiting \in Seq(Document)
    /\ content \in [Upload -> Content]
    /\ tmp \subseteq Request
    /\ stored \subseteq Document \cup Content /\ rows \subseteq Document \cup Content
    /\ quotes \subseteq Quote
    /\ crashes \in 0..MaxCrashes

\* Some files may have been uploaded before.
IssueInit ==
    /\ at = [r \in Request |-> "idle"]
    /\ conns = {}
    /\ sequence = [y \in Year |-> 0]
    /\ sequenceRow = [y \in Year |-> Free]
    /\ documentRow = Free
    /\ year \in [Quote -> Year]
    /\ number = [q \in Quote |-> 0]
    /\ rendersInFlight = 0
    /\ rendersWaiting = <<>>
    /\ content \in [Upload -> Content]
    /\ tmp = {}
    /\ stored \in SUBSET Content
    /\ rows = stored
    /\ quotes = {}
    /\ crashes = 0
-----------------------------------------------------------------------------
\* The end of a transaction, either way: its row locks and its connection go.
Release(r) ==
    /\ conns' = conns \ {r}
    /\ sequenceRow' = [y \in Year |-> IF sequenceRow[y] = r THEN Free ELSE sequenceRow[y]]
    /\ documentRow' = IF documentRow = r THEN Free ELSE documentRow

\* Any error inside db.transaction: ROLLBACK, and the route answers with it.
Rollback(r) ==
    /\ at' = [at EXCEPT ![r] = "refused"]
    /\ Release(r)
    /\ number' = IF r \in Quote THEN [number EXCEPT ![r] = 0] ELSE number
    /\ UNCHANGED <<sequence, rows, quotes>>

\* releaseRenderSlot: the slot goes to the first waiter, or is given back.
\* `from` is what the requests are waiting at once the caller has moved on.
HandSlotOn(from) ==
    IF rendersWaiting = <<>>
    THEN rendersInFlight' = rendersInFlight - 1 /\ at' = from /\ UNCHANGED rendersWaiting
    ELSE /\ at' = [from EXCEPT ![Head(rendersWaiting)] = "render"]
         /\ rendersWaiting' = Tail(rendersWaiting)
         /\ UNCHANGED rendersInFlight

\* The request arrives; a document waits for a connection, an upload streams.
Ask(r) ==
    /\ at[r] = "idle"
    /\ at' = [at EXCEPT ![r] = IF r \in Upload THEN "save" ELSE "connect"]
    /\ UNCHANGED <<conns, databaseVars, renderVars, storeVars, inputVars>>

\* BEGIN, then the record and the template are read; an archived record, a
\* missing template, an unknown or frozen document is refused.
Begin(r) ==
    /\ at[r] = "connect" /\ Cardinality(conns) < PoolMax
    /\ \/ /\ conns' = conns \cup {r}
          /\ at' = [at EXCEPT ![r] = IF r \in Quote THEN "number" ELSE "merge"]
       \/ at' = [at EXCEPT ![r] = "refused"] /\ UNCHANGED conns
    /\ UNCHANGED <<databaseVars, renderVars, storeVars, inputVars>>

\* A number taken in a transaction of its own: committed before the document.
AllocateNumberAhead(r) ==
    /\ at[r] = "number"
    /\ sequenceRow[year[r]] = Free
    /\ sequence' = [sequence EXCEPT ![year[r]] = @ + 1]
    /\ number' = [number EXCEPT ![r] = sequence[year[r]] + 1]
    /\ at' = [at EXCEPT ![r] = "merge"]
    /\ UNCHANGED <<conns, sequenceRow, documentRow, rows, quotes, renderVars, storeVars, inputVars>>

\* allocateNumber's upsert: the row is written once no other transaction has it.
AllocateNumber(r) ==
    /\ at[r] = "number"
    /\ sequenceRow[year[r]] = Free
    /\ sequenceRow' = [sequenceRow EXCEPT ![year[r]] = r]
    /\ number' = [number EXCEPT ![r] = sequence[year[r]] + 1]
    /\ at' = [at EXCEPT ![r] = "merge"]
    /\ UNCHANGED <<conns, sequence, documentRow, rows, quotes, renderVars, storeVars, inputVars>>

\* SET LOCAL lock_timeout: the upsert has waited 45 s for another's row.
LockTimeout(r) ==
    /\ at[r] = "number" /\ sequenceRow[year[r]] # Free
    /\ Rollback(r)
    /\ UNCHANGED <<renderVars, storeVars, inputVars>>

\* The merge passes the three caps and acquireRenderSlot is called, or it does not.
Merge(r) ==
    /\ at[r] = "merge"
    /\ \/ /\ rendersInFlight < RenderMax
          /\ rendersInFlight' = rendersInFlight + 1
          /\ at' = [at EXCEPT ![r] = "render"]
          /\ UNCHANGED <<conns, databaseVars, rendersWaiting>>
       \/ /\ rendersInFlight >= RenderMax
          /\ rendersWaiting' = Append(rendersWaiting, r)
          /\ at' = [at EXCEPT ![r] = "slot"]
          /\ UNCHANGED <<conns, databaseVars, rendersInFlight>>
       \/ Rollback(r) /\ UNCHANGED renderVars
    /\ UNCHANGED <<storeVars, inputVars>>

\* A waiter that gives up and stays in the queue, to be granted a slot later.
SlotTimeoutStays(r) ==
    /\ at[r] = "slot"
    /\ Rollback(r)
    /\ UNCHANGED <<renderVars, storeVars, inputVars>>

\* RENDER_QUEUE_TIMEOUT_MS: the waiter leaves the queue and RenderBusyError.
SlotTimeout(r) ==
    /\ at[r] = "slot"
    /\ \E i \in 1..Len(rendersWaiting) :
          rendersWaiting[i] = r /\ rendersWaiting' = RemoveAt(rendersWaiting, i)
    /\ Rollback(r)
    /\ UNCHANGED <<rendersInFlight, storeVars, inputVars>>

\* spawnRender resolves with a PDF; the finally releases the slot.
Rendered(r) ==
    /\ at[r] = "render"
    /\ HandSlotOn([at EXCEPT ![r] = "save"])
    /\ UNCHANGED <<conns, databaseVars, storeVars, inputVars>>

\* spawnRender rejects: exit code, size cap, no PDF, or the timer's SIGKILL.
RenderFails(r) ==
    /\ at[r] = "render"
    /\ HandSlotOn([at EXCEPT ![r] = "refused"])
    /\ Release(r)
    /\ number' = IF r \in Quote THEN [number EXCEPT ![r] = 0] ELSE number
    /\ UNCHANGED <<sequence, rows, quotes, storeVars, inputVars>>
-----------------------------------------------------------------------------
\* saveBlob after attachFile: the row is there before its bytes are.
OpenTmpLate(r) ==
    /\ at[r] = "save"
    /\ tmp' = tmp \cup {r}
    /\ rows' = IF r \in Upload THEN rows \cup {Digest(r)} ELSE rows
    /\ at' = [at EXCEPT ![r] = "rename"]
    /\ UNCHANGED <<conns, sequence, sequenceRow, documentRow, number, quotes,
                   renderVars, stored, inputVars>>

\* saveBlob opens its .upload- file and the bytes are piped into it.
OpenTmp(r) ==
    /\ at[r] = "save"
    /\ tmp' = tmp \cup {r}
    /\ at' = [at EXCEPT ![r] = "rename"]
    /\ UNCHANGED <<conns, databaseVars, renderVars, stored, inputVars>>

\* The digest is known: the tmp file is renamed to it, or dropped when that
\* content is stored already.  An upload that was truncated stops after it.
SettleTmp(r) ==
    /\ at[r] = "rename"
    /\ tmp' = tmp \ {r}
    /\ stored' = stored \cup {Digest(r)}
    /\ \/ at' = [at EXCEPT ![r] = "attach"]
       \/ r \in Upload /\ at' = [at EXCEPT ![r] = "refused"]
    /\ UNCHANGED <<conns, databaseVars, renderVars, inputVars>>

\* The pipeline, the stat or the rename rejects: the tmp file is removed.
SaveFails(r) ==
    /\ at[r] = "rename"
    /\ tmp' = tmp \ {r}
    /\ IF r \in Upload
       THEN at' = [at EXCEPT ![r] = "refused"] /\ UNCHANGED <<conns, databaseVars>>
       ELSE Rollback(r)
    /\ UNCHANGED <<stored, renderVars, inputVars>>

\* attachFile called with the pool: a second connection for the same request.
AttachOnPool(r) ==
    /\ at[r] = "attach"
    /\ Cardinality(conns) < PoolMax
    /\ \/ /\ r \in Upload
          /\ rows' = rows \cup {Digest(r)}
          /\ at' = [at EXCEPT ![r] = "issued"]
          /\ UNCHANGED <<conns, sequence, sequenceRow, documentRow, number, quotes>>
       \/ /\ r \in Document
          /\ at' = [at EXCEPT ![r] = IF r \in Redraft THEN "row" ELSE "commit"]
          /\ UNCHANGED <<conns, databaseVars>>
       \/ Rollback(r)
    /\ UNCHANGED <<renderVars, storeVars, inputVars>>

\* attachFile: an upload's short transaction on a connection of its own; for a
\* document a savepoint of its transaction, then the inserts.  Either re-reads
\* the record and refuses an archived one.
Attach(r) ==
    /\ at[r] = "attach"
    /\ \/ /\ r \in Upload /\ Cardinality(conns) < PoolMax
          /\ rows' = rows \cup {Digest(r)}
          /\ at' = [at EXCEPT ![r] = "issued"]
          /\ UNCHANGED <<conns, sequence, sequenceRow, documentRow, number, quotes>>
       \/ /\ r \in Document
          /\ at' = [at EXCEPT ![r] = IF r \in Redraft THEN "row" ELSE "commit"]
          /\ UNCHANGED <<conns, databaseVars>>
       \/ (r \in Upload => Cardinality(conns) < PoolMax) /\ Rollback(r)
    /\ UNCHANGED <<renderVars, storeVars, inputVars>>

\* redraftLetter's UPDATE of documents and of document_letters, or no row of
\* a letter that is not frozen came back.
UpdateRow(r) ==
    /\ at[r] = "row"
    /\ documentRow = Free
    /\ \/ /\ documentRow' = r
          /\ at' = [at EXCEPT ![r] = "commit"]
          /\ UNCHANGED <<conns, sequence, sequenceRow, number, rows, quotes>>
       \/ Rollback(r)
    /\ UNCHANGED <<renderVars, storeVars, inputVars>>

\* COMMIT: the number, the file and the document become visible together.
Commit(r) ==
    /\ at[r] = "commit"
    /\ at' = [at EXCEPT ![r] = "issued"]
    /\ rows' = rows \cup {Digest(r)}
    /\ IF r \in Quote
       THEN /\ sequence' = [sequence EXCEPT ![year[r]] = number[r]]
            /\ quotes' = quotes \cup {r}
       ELSE UNCHANGED <<sequence, quotes>>
    /\ Release(r)
    /\ UNCHANGED <<number, renderVars, storeVars, inputVars>>

\* The process dies and is started again: PostgreSQL rolls back, the slots are
\* counted from zero, the tmp files stay.
Crash ==
    /\ crashes < MaxCrashes
    /\ crashes' = crashes + 1
    /\ at' = [r \in Request |-> IF at[r] \in {"idle"} \cup Ended THEN at[r] ELSE "lost"]
    /\ conns' = {}
    /\ sequenceRow' = [y \in Year |-> Free]
    /\ documentRow' = Free
    /\ number' = [q \in Quote |-> IF q \in quotes THEN number[q] ELSE 0]
    /\ rendersInFlight' = 0
    /\ rendersWaiting' = <<>>
    /\ UNCHANGED <<sequence, rows, quotes, storeVars, year, content>>

\* What the server does for a request once it has come.
Serve(r) ==
    \/ Begin(r) \/ Merge(r) \/ SlotTimeout(r) \/ Rendered(r) \/ RenderFails(r)
    \/ OpenTmp(r) \/ SettleTmp(r) \/ SaveFails(r) \/ Attach(r) \/ Commit(r)
    \/ r \in Quote /\ (AllocateNumber(r) \/ LockTimeout(r))
    \/ r \in Redraft /\ UpdateRow(r)

IssueNext == (\E r \in Request : Ask(r) \/ Serve(r)) \/ Crash

IssueSpec == IssueInit /\ [][IssueNext]_issueVars /\ \A r \in Request : WF_issueVars(Serve(r))
-----------------------------------------------------------------------------
\* documents-number.ts promises numbers without gaps: the numbers of the
\* committed quotes of a year are 1 to last_value, each once, whatever was
\* refused, timed out or lost in between.
NumbersAreGapless ==
    \A y \in Year :
        LET issued == {q \in quotes : year[q] = y}
        IN  /\ {number[q] : q \in issued} = 1..sequence[y]
            /\ Cardinality(issued) = sequence[y]

\* No render slot is lost or granted twice on any path out of renderPdf: the
\* count is the number of renders, and nobody queues beside a free slot.
SlotsAreAccounted ==
    /\ rendersInFlight = Cardinality({r \in Document : at[r] = "render"})
    /\ rendersInFlight <= RenderMax
    /\ ToSet(rendersWaiting) = {r \in Document : at[r] = "slot"}
    /\ rendersWaiting # <<>> => rendersInFlight = RenderMax

\* A row of files that anyone can see has its bytes under files/, across
\* failures and crashes: attachFile comes after saveBlob on every path.
RowsHaveBlobs == rows \subseteq stored

\* Every request is answered, or lost in a crash: no wait for a connection, a
\* sequence row, a render slot or a document row can close a circle.
IssueEnds == \A r \in Request : (at[r] # "idle") ~> (at[r] \in Ended)
=============================================================================
