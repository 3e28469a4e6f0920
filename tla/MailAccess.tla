------------------------------ MODULE MailAccess ------------------------------
(***************************************************************************)
(* What uses the sign-in of an OAuth mailbox, and what replaces it:        *)
(* sends (services/mail-send.ts), the account's sync loop and its queue    *)
(* (AccountSync of services/mail-sync.ts), the renewal of the access token *)
(* both go through (services/mail-oauth.ts) and signing in again           *)
(* (services/mail-oauth-signin.ts, mail-accounts.ts).                      *)
(*                                                                         *)
(* Nothing is locked across a round trip to the provider: the credentials  *)
(* are read, the token is renewed, and what came back is stored later.     *)
(* The manager that stops and starts the loop is SyncManager's; here the   *)
(* loop is told to stop and, once it has ended, there is a new one.        *)
(***************************************************************************)
EXTENDS Naturals, FiniteSets, Sequences, SequencesExt

CONSTANTS
    Sender,       \* calls of sendMail
    SignIn,       \* sign-ins a user may begin
    Loop,         \* the account's AccountSync
    First,        \* the sign-in the account was made with
    Provider,     \* the kinds of provider to consider
    MaxToken,     \* bound: refresh tokens ever issued
    MaxExpiries,  \* bound: how often the access token is let expire
    MaxFaults     \* bound: network faults, revocations and crashes

\* "keeps": a renewal returns no refresh token (Google); "rotates": it returns
\* a new one and the old ones stay good (Microsoft); "retires": it also retires
\* what was issued from the same token before.
ASSUME AccessAssumption ==
    /\ Provider \subseteq {"keeps", "rotates", "retires"}
    /\ Loop \notin Sender /\ First \notin SignIn /\ "pass" \notin Sender
    /\ MaxToken \in Nat \ {0} /\ MaxExpiries \in Nat /\ MaxFaults \in Nat

VARIABLES
    provider,
    issued,     \* refresh tokens issued: token n is the n-th, with its sign-in
                \* and the token it was renewed from
    alive,      \* the refresh tokens the provider honours
    row,        \* mail_accounts: the refresh token, whether the access token
                \* stored with it is usable, and the status
    latest,     \* history: the sign-in stored last
    signin,     \* each sign-in: its step, and the token it has got
    at,         \* the step of each send and of the loop
    held,       \* the refresh token each send and the loop has read
    loop,       \* the loop's job, whether it is connected, told to stop, in
                \* backoff, and the status it is about to write
    queue,      \* the appends the loop has accepted
    delivered,  \* sends whose message the SMTP server has accepted
    copies,     \* sends with a copy in the Sent folder
    recorded,   \* sends with a row in mail_messages
    unsure,     \* sends that failed without anybody knowing what the server did
    expiries,
    faults

grantVars == <<provider, issued, alive>>
accountVars == <<row, latest>>
loopVars == <<loop, queue>>
mailVars == <<delivered, copies, recorded, unsure>>
boundVars == <<expiries, faults>>
vars == <<grantVars, accountVars, signin, at, held, loopVars, mailVars, boundVars>>

Actor == Sender \cup {Loop}
Token == 1..MaxToken
Answered == {"sent", "refused", "failed", "lost"}

TypeOK ==
    /\ provider \in Provider
    /\ issued \in Seq([of : SignIn \cup {First}, from : 0..MaxToken])
    /\ alive \subseteq 1..Len(issued)
    /\ row \in [token : Token, fresh : BOOLEAN, status : {"active", "error", "auth_required"}]
    /\ latest \in SignIn \cup {First}
    /\ signin \in [SignIn -> [step : {"idle", "outstanding", "exchange", "store", "ended"},
                              token : 0..MaxToken]]
    /\ at \in [Actor -> {"idle", "load", "renew", "persist", "work", "append", "ingest",
                         "write", "stopped"} \cup Answered]
    /\ held \in [Actor -> [token : 0..MaxToken, got : 0..MaxToken]]
    /\ loop \in [job : Sender \cup {"pass"}, connected : BOOLEAN, told : BOOLEAN,
                 backoff : BOOLEAN, verdict : {"active", "error", "auth_required"}]
    /\ queue \in Seq(Sender)
    /\ delivered \cup copies \cup recorded \cup unsure \subseteq Sender

Nothing == [token |-> 0, got |-> 0]
NewLoop == [job |-> "pass", connected |-> FALSE, told |-> FALSE, backoff |-> FALSE,
            verdict |-> "active"]

Init ==
    /\ provider \in Provider
    /\ issued = <<[of |-> First, from |-> 0]>>
    /\ alive = {1}
    /\ row = [token |-> 1, fresh |-> FALSE, status |-> "active"]
    /\ latest = First
    /\ signin = [i \in SignIn |-> [step |-> "idle", token |-> 0]]
    /\ at = [a \in Actor |-> "idle"]
    /\ held = [a \in Actor |-> Nothing]
    /\ loop = NewLoop
    /\ queue = <<>>
    /\ delivered = {} /\ copies = {} /\ recorded = {} /\ unsure = {}
    /\ expiries = 0
    /\ faults = 0
-----------------------------------------------------------------------------
Goes(a, step) == at' = [at EXCEPT ![a] = step]
Fault == faults < MaxFaults /\ faults' = faults + 1

\* The loop's failure: a queued task is rejected and a pass has its status
\* written; either way the client is dropped.
LoopFails(verdict) ==
    /\ loop' = [loop EXCEPT !.connected = FALSE, !.verdict = verdict]
    /\ at' = IF loop.job = "pass" THEN [at EXCEPT ![Loop] = "write"]
             ELSE [at EXCEPT ![Loop] = "idle",
                             ![loop.job] = IF @ = "append" THEN "ingest" ELSE @]

\* An actor's connection fails: SmtpSendError for a send, a failed job for the loop.
Fails(a, verdict) ==
    IF a = Loop THEN LoopFails(verdict) ELSE Goes(a, "refused") /\ UNCHANGED loop

\* getAccountCredentialsAsSystem and isUsable: with a usable access token there
\* is nothing to renew.
Load(a) ==
    /\ at[a] = "load"
    /\ held' = [held EXCEPT ![a] = [token |-> row.token, got |-> 0]]
    /\ Goes(a, IF row.fresh THEN "work" ELSE "renew")
    /\ UNCHANGED <<grantVars, accountVars, signin, loopVars, mailVars, boundVars>>

\* The provider issues a refresh token, of a sign-in, from a token (0: a code).
Issue(i, from) ==
    /\ Len(issued) < MaxToken
    /\ issued' = Append(issued, [of |-> i, from |-> from])
    /\ alive' = (IF provider = "retires" /\ from # 0
                 THEN {t \in alive : issued[t].from # from} ELSE alive) \cup {Len(issued) + 1}

\* ensureAccessToken's request: a grant, whose refresh token is the old one if it
\* has none of its own (as any may, and as all have at the bound), invalid_grant,
\* or no answer.
Renew(a) ==
    /\ at[a] = "renew"
    /\ LET t == held[a].token IN
          \/ /\ t \in alive
             /\ IF provider = "keeps" \/ Len(issued) = MaxToken
                THEN held' = [held EXCEPT ![a].got = t] /\ UNCHANGED <<issued, alive>>
                ELSE /\ Issue(issued[t].of, t)
                     /\ held' = [held EXCEPT ![a].got = Len(issued) + 1]
             /\ Goes(a, "persist")
             /\ UNCHANGED <<loop, faults>>
          \/ /\ t \notin alive
             /\ Fails(a, "auth_required")
             /\ UNCHANGED <<issued, alive, held, faults>>
          \/ /\ Fault
             /\ Fails(a, "error")
             /\ UNCHANGED <<issued, alive, held>>
    /\ UNCHANGED <<provider, accountVars, signin, queue, mailVars, expiries>>

\* A persist that writes whatever the row holds by now.
PersistAnyway(a) ==
    /\ at[a] = "persist"
    /\ row' = [row EXCEPT !.token = held[a].got, !.fresh = TRUE]
    /\ Goes(a, "work")
    /\ UNCHANGED <<grantVars, latest, signin, held, loopVars, mailVars, boundVars>>

\* persistRefreshedToken: only over the refresh token the renewal was made with.
Persist(a) ==
    /\ at[a] = "persist"
    /\ row' = IF row.token = held[a].token
              THEN [row EXCEPT !.token = held[a].got, !.fresh = TRUE] ELSE row
    /\ Goes(a, "work")
    /\ UNCHANGED <<grantVars, latest, signin, held, loopVars, mailVars, boundVars>>
-----------------------------------------------------------------------------
\* sendMail: an account that is not active is refused before anything is composed.
Send(s) ==
    /\ at[s] = "idle"
    /\ Goes(s, IF row.status = "active" THEN "load" ELSE "refused")
    /\ UNCHANGED <<grantVars, accountVars, signin, held, loopVars, mailVars, boundVars>>

\* transport.sendMail: accepted, refused, or the connection is lost after the
\* message was handed over.
Smtp(s) ==
    /\ at[s] = "work"
    /\ \/ delivered' = delivered \cup {s} /\ Goes(s, "append") /\ UNCHANGED <<unsure, faults>>
       \/ Fault /\ Goes(s, "refused") /\ UNCHANGED <<delivered, unsure>>
       \/ /\ Fault
          /\ delivered' = delivered \cup {s} /\ unsure' = unsure \cup {s}
          /\ Goes(s, "refused")
    /\ UNCHANGED <<grantVars, accountVars, signin, held, loopVars, copies, recorded, expiries>>

\* appendSent, for a provider that does not file its own copy: queued for the
\* loop, or refused at once while it is stopping or in backoff.
Queue(s) ==
    /\ at[s] = "append" /\ s \notin ToSet(queue) /\ loop.job # s
    /\ IF provider = "keeps" \/ loop.told \/ at[Loop] = "stopped" \/ loop.backoff
       THEN Goes(s, "ingest") /\ UNCHANGED queue
       ELSE queue' = Append(queue, s) /\ UNCHANGED at
    /\ UNCHANGED <<grantVars, accountVars, signin, held, loop, mailVars, boundVars>>

\* An APPEND whose failure to be made in time fails the send.
AppendTimeoutFails(s) ==
    /\ at[s] = "append" /\ (s \in ToSet(queue) \/ loop.job = s)
    /\ Goes(s, "refused")
    /\ UNCHANGED <<grantVars, accountVars, signin, held, loopVars, mailVars, boundVars>>

\* withTimeout: the send goes on; the append stays with the loop.
AppendTimeout(s) ==
    /\ at[s] = "append" /\ (s \in ToSet(queue) \/ loop.job = s)
    /\ Goes(s, "ingest")
    /\ UNCHANGED <<grantVars, accountVars, signin, held, loopVars, mailVars, boundVars>>

\* ingestMessage of the bytes that were sent, or a duplicate of what the pass has
\* ingested; a failure is the call's.
Ingest(s) ==
    /\ at[s] = "ingest"
    /\ \/ recorded' = recorded \cup {s} /\ Goes(s, "sent") /\ UNCHANGED faults
       \/ Fault /\ Goes(s, "failed") /\ UNCHANGED recorded
    /\ UNCHANGED <<grantVars, accountVars, signin, held, loopVars, delivered, copies, unsure, expiries>>
-----------------------------------------------------------------------------
\* The loop wakes for the first queued task or for a pass; it keeps its client.
Wake ==
    /\ at[Loop] = "idle" /\ ~loop.told
    /\ IF queue = <<>>
       THEN loop' = [loop EXCEPT !.job = "pass"] /\ UNCHANGED queue
       ELSE loop' = [loop EXCEPT !.job = Head(queue)] /\ queue' = Tail(queue)
    /\ Goes(Loop, IF loop.connected THEN "work" ELSE "load")
    /\ UNCHANGED <<grantVars, accountVars, signin, held, mailVars, boundVars>>

\* A queued append on the loop's connection.
LoopAppends ==
    /\ at[Loop] = "work" /\ loop.job # "pass"
    /\ \/ /\ copies' = copies \cup {loop.job}
          /\ loop' = [loop EXCEPT !.connected = TRUE, !.job = "pass"]
          /\ at' = [at EXCEPT ![Loop] = "idle",
                              ![loop.job] = IF @ = "append" THEN "ingest" ELSE @]
          /\ UNCHANGED faults
       \/ Fault /\ LoopFails("error") /\ UNCHANGED copies
    /\ UNCHANGED <<grantVars, accountVars, signin, held, queue, delivered, recorded, unsure, expiries>>

\* A pass: what is in Sent is ingested.  A loop that was told to stop writes
\* nothing after a success, and its failure all the same.
LoopPasses ==
    /\ at[Loop] = "work" /\ loop.job = "pass"
    /\ \/ /\ recorded' = recorded \cup copies
          /\ loop' = [loop EXCEPT !.connected = TRUE, !.verdict = "active"]
          /\ Goes(Loop, IF loop.told THEN "stopped" ELSE "write")
          /\ UNCHANGED faults
       \/ Fault /\ LoopFails("error") /\ UNCHANGED recorded
    /\ UNCHANGED <<grantVars, accountVars, signin, held, queue, delivered, copies, unsure, expiries>>

\* A write that leaves auth_required for the next sign-in to clear.
WriteStateKeepsLapse ==
    /\ at[Loop] = "write"
    /\ row' = IF row.status = "auth_required" THEN row ELSE [row EXCEPT !.status = loop.verdict]
    /\ loop' = [loop EXCEPT !.backoff = loop.verdict # "active"]
    /\ Goes(Loop, "idle")
    /\ UNCHANGED <<grantVars, latest, signin, held, queue, mailVars, boundVars>>

\* writeAccountState, whatever the row says by now.
WriteState ==
    /\ at[Loop] = "write"
    /\ row' = [row EXCEPT !.status = loop.verdict]
    /\ loop' = [loop EXCEPT !.backoff = loop.verdict # "active"]
    /\ Goes(Loop, "idle")
    /\ UNCHANGED <<grantVars, latest, signin, held, queue, mailVars, boundVars>>

\* A loop that was told to stop ends where it next looks: its queue is rejected.
Teardown ==
    /\ at[Loop] = "idle" /\ loop.told
    /\ queue' = <<>>
    /\ at' = [a \in Actor |-> IF a = Loop THEN "stopped"
                              ELSE IF a \in ToSet(queue) /\ at[a] = "append" THEN "ingest" ELSE at[a]]
    /\ loop' = [loop EXCEPT !.connected = FALSE]
    /\ UNCHANGED <<grantVars, accountVars, signin, held, mailVars, boundVars>>

\* The manager has waited for the old loop and makes a new one.
NewSync ==
    /\ at[Loop] = "stopped"
    /\ queue' = <<>>
    /\ at' = [a \in Actor |-> IF a = Loop THEN "idle"
                              ELSE IF a \in ToSet(queue) /\ at[a] = "append" THEN "ingest" ELSE at[a]]
    /\ held' = [held EXCEPT ![Loop] = Nothing]
    /\ loop' = NewLoop
    /\ UNCHANGED <<grantVars, accountVars, signin, mailVars, boundVars>>
-----------------------------------------------------------------------------
\* startSignin: a state is issued and the user is sent to the provider.
StartSignin(i) ==
    /\ signin[i].step = "idle"
    /\ signin' = [signin EXCEPT ![i].step = "outstanding"]
    /\ UNCHANGED <<grantVars, accountVars, at, held, loopVars, mailVars, boundVars>>

\* The callback: the state is spent, or it has expired, been evicted by a later
\* one, or comes back with a refusal.
Redeem(i) ==
    /\ signin[i].step = "outstanding"
    /\ \E step \in {"exchange", "ended"} : signin' = [signin EXCEPT ![i].step = step]
    /\ UNCHANGED <<grantVars, accountVars, at, held, loopVars, mailVars, boundVars>>

\* The code is exchanged for a grant with a refresh token, or it is not.
Exchange(i) ==
    /\ signin[i].step = "exchange"
    /\ \/ Issue(i, 0) /\ signin' = [signin EXCEPT ![i] = [step |-> "store", token |-> Len(issued) + 1]]
       \/ signin' = [signin EXCEPT ![i].step = "ended"] /\ UNCHANGED <<issued, alive>>
    /\ UNCHANGED <<provider, accountVars, at, held, loopVars, mailVars, boundVars>>

\* replaceOAuthCredentials and the notification: the row has the new grant and
\* is active, and the loop is told to stop; or the account is archived by now.
Store(i) ==
    /\ signin[i].step = "store"
    /\ signin' = [signin EXCEPT ![i].step = "ended"]
    /\ \/ /\ row' = [token |-> signin[i].token, fresh |-> TRUE, status |-> "active"]
          /\ latest' = i
          /\ loop' = [loop EXCEPT !.told = at[Loop] # "stopped"]
       \/ UNCHANGED <<accountVars, loop>>
    /\ UNCHANGED <<grantVars, at, held, queue, mailVars, boundVars>>

\* The access token runs out.
Expire ==
    /\ row.fresh /\ expiries < MaxExpiries
    /\ expiries' = expiries + 1
    /\ row' = [row EXCEPT !.fresh = FALSE]
    /\ UNCHANGED <<grantVars, latest, signin, at, held, loopVars, mailVars, faults>>

\* The user withdraws the consent at the provider: every grant so far is dead.
Revoke ==
    /\ Fault
    /\ alive # {}
    /\ alive' = {}
    /\ UNCHANGED <<provider, issued, accountVars, signin, at, held, loopVars, mailVars, expiries>>

\* The process dies and boots: sends, states and the loop with its queue are gone.
Crash ==
    /\ Fault
    /\ at' = [a \in Actor |-> IF a = Loop THEN "idle"
                              ELSE IF at[a] \in {"idle"} \cup Answered THEN at[a] ELSE "lost"]
    /\ held' = [a \in Actor |-> Nothing]
    /\ signin' = [i \in SignIn |-> IF signin[i].step = "idle" THEN signin[i]
                                   ELSE [signin[i] EXCEPT !.step = "ended"]]
    /\ loop' = NewLoop
    /\ queue' = <<>>
    /\ UNCHANGED <<grantVars, accountVars, mailVars, expiries>>

Serve(s) ==
    Load(s) \/ Renew(s) \/ Persist(s) \/ Smtp(s) \/ Queue(s) \/ AppendTimeout(s) \/ Ingest(s)
RunLoop ==
    \/ Wake \/ Load(Loop) \/ Renew(Loop) \/ Persist(Loop)
    \/ LoopAppends \/ LoopPasses \/ WriteState \/ Teardown \/ NewSync

Next ==
    \/ \E s \in Sender : Send(s) \/ Serve(s)
    \/ RunLoop
    \/ \E i \in SignIn : StartSignin(i) \/ Redeem(i) \/ Exchange(i) \/ Store(i)
    \/ Expire \/ Revoke \/ Crash

Spec == Init /\ [][Next]_vars /\ WF_vars(RunLoop)
-----------------------------------------------------------------------------
\* The grant in the row descends from the sign-in that was stored last: no
\* renewal that began with an older grant is stored over a newer sign-in.
NewestSignInStays == issued[row.token].of = latest

\* What a send answers is so: a send that is refused was not delivered, unless
\* the SMTP server was lost after it had the message; one that is answered was
\* delivered and is recorded; and Sent and the records hold nothing undelivered.
SendIsTruthful ==
    /\ \A s \in Sender :
          /\ at[s] = "refused" /\ s \in delivered => s \in unsure
          /\ at[s] = "sent" => s \in delivered \cap recorded
    /\ copies \cup recorded \subseteq delivered

\* A lapsed sign-in does not stick: once the row holds a grant that stays good,
\* the account is active for good, although a pass that began with the old grant
\* may write auth_required after the sign-in.
LapseHeals == <>[](row.token \in alive) => <>[](row.status = "active")
=============================================================================
