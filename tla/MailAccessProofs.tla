-------------------------- MODULE MailAccessProofs --------------------------
(***************************************************************************)
(* Theorems of module MailAccess, for any sends, sign-ins, providers and   *)
(* faults.  The inductive invariant says of whose sign-in each refresh     *)
(* token is that a send, the loop or a callback carries across an await,   *)
(* and which sends the SMTP server has accepted at each of their steps.    *)
(***************************************************************************)
EXTENDS MailAccess, SequenceTheorems, TLAPS

\* The grant in the row is that of the sign-in stored last.
Holds == row.token \in 1..Len(issued) /\ issued[row.token].of = latest

\* What a renewal carries: the token it read, and one of the same sign-in.
Carries(a) ==
    /\ at[a] \in {"renew", "persist"} => held[a].token \in 1..Len(issued)
    /\ at[a] = "persist" =>
          /\ held[a].got \in 1..Len(issued)
          /\ issued[held[a].got].of = issued[held[a].token].of

\* What a callback is about to store is its own sign-in's.
Stores(i) ==
    signin[i].step = "store" =>
        signin[i].token \in 1..Len(issued) /\ issued[signin[i].token].of = i

Grants ==
    /\ Holds
    /\ \A a \in Actor : Carries(a)
    /\ \A i \in SignIn : Stores(i)

\* What the SMTP server has of a send, by its step and by its answer.
Before == {"idle", "load", "renew", "persist", "work"}
Answers(s) ==
    /\ at[s] \in Before => s \notin delivered
    /\ at[s] \in {"append", "ingest"} => s \in delivered
    /\ at[s] = "refused" /\ s \in delivered => s \in unsure
    /\ at[s] = "sent" => s \in delivered \cap recorded

\* What the loop files, what it has accepted to file, and what is filed.
Files ==
    /\ loop.job # "pass" => loop.job \in delivered
    /\ \A i \in 1..Len(queue) : queue[i] \in delivered
    /\ copies \cup recorded \subseteq delivered

Sends == (\A s \in Sender : Answers(s)) /\ Files

IInv == TypeOK /\ Grants /\ Sends
-----------------------------------------------------------------------------
(* The parts of the type invariant that a step of the loop or of the provider changes. *)

Grant == [of : SignIn \cup {First}, from : 0..MaxToken]
At == {"idle", "load", "renew", "persist", "work", "append", "ingest", "write", "stopped"}
      \cup Answered
LoopState == [job : Sender \cup {"pass"}, connected : BOOLEAN, told : BOOLEAN,
              backoff : BOOLEAN, verdict : {"active", "error", "auth_required"}]

\* A new refresh token is the last one; the others stay what they were.
LEMMA Issues ==
    ASSUME TypeOK, NEW i \in SignIn \cup {First}, NEW from \in 0..MaxToken, Issue(i, from)
    PROVE  /\ issued' \in Seq(Grant)
           /\ Len(issued) \in Nat
           /\ Len(issued') = Len(issued) + 1
           /\ Len(issued) + 1 \in Token
           /\ \A t \in 1..Len(issued) : issued'[t] = issued[t]
           /\ issued'[Len(issued) + 1].of = i
           /\ alive' \subseteq 1..Len(issued')
<1> DEFINE n == Len(issued)
           g == [of |-> i, from |-> from]
<1>1. issued \in Seq(Grant) /\ alive \subseteq 1..n /\ n \in Nat
    BY LenProperties DEF TypeOK, Grant
<1>2. g \in Grant /\ g.of = i
    BY DEF Grant
<1>3. issued' = Append(issued, g) /\ n < MaxToken
      /\ alive' \subseteq alive \cup {n + 1}
    BY DEF Issue
<1>4. n + 1 \in Token
    BY <1>1, <1>3, AccessAssumption DEF Token
<1> HIDE DEF g
<1>5. /\ issued' \in Seq(Grant)
      /\ Len(issued') = n + 1
      /\ \A t \in 1..n : issued'[t] = issued[t]
      /\ issued'[n + 1] = g
    BY <1>1, <1>2, <1>3, AppendProperties
<1>6. alive' \subseteq 1..(n + 1)
    BY <1>1, <1>3
<1>7. QED
    BY <1>1, <1>2, <1>4, <1>5, <1>6

\* The loop's failure: its own step and that of the send it worked for.
LEMMA LoopFailure ==
    ASSUME TypeOK, NEW verdict \in {"active", "error", "auth_required"}, LoopFails(verdict)
    PROVE  /\ at' \in [Actor -> At] /\ loop' \in LoopState
           /\ loop'.job = loop.job
           /\ at'[Loop] \in {"write", "idle"}
           /\ \A s \in Sender : at'[s] = at[s] \/ (at[s] = "append" /\ at'[s] = "ingest")
<1>1. at \in [Actor -> At] /\ loop \in LoopState /\ Loop \in Actor /\ Sender \subseteq Actor
    BY DEF TypeOK, At, LoopState, Actor
<1>2. loop' = [loop EXCEPT !.connected = FALSE, !.verdict = verdict]
    BY DEF LoopFails
<1>3. loop' \in LoopState /\ loop'.job = loop.job
    BY <1>1, <1>2 DEF LoopState
<1>4. CASE loop.job = "pass"
  <2>1. at' = [at EXCEPT ![Loop] = "write"]
    BY <1>4 DEF LoopFails
  <2>2. QED
    BY <1>1, <1>3, <2>1, AccessAssumption DEF At
<1>5. CASE loop.job # "pass"
  <2>1. loop.job \in Sender /\ loop.job # Loop
    BY <1>1, <1>5, AccessAssumption DEF LoopState
  <2>2. \A a \in Actor : at'[a] = IF a = Loop THEN "idle"
                                  ELSE IF a = loop.job /\ at[a] = "append" THEN "ingest"
                                  ELSE at[a]
    BY <1>1, <1>5, <2>1 DEF LoopFails
  <2>3. at' \in [Actor -> At]
    BY <1>1, <1>5, <2>1 DEF LoopFails, At
  <2>4. QED
    BY <1>1, <1>3, <2>2, <2>3, AccessAssumption
<1>6. QED
    BY <1>4, <1>5

\* A teardown and a new loop let go of the sends that wait in the queue.
LEMMA LetsGo ==
    ASSUME TypeOK, NEW step \in At,
           at' = [a \in Actor |-> IF a = Loop THEN step
                                  ELSE IF a \in ToSet(queue) /\ at[a] = "append" THEN "ingest"
                                  ELSE at[a]]
    PROVE  /\ at' \in [Actor -> At]
           /\ at'[Loop] = step
           /\ \A s \in Sender : at'[s] = at[s] \/ (at[s] = "append" /\ at'[s] = "ingest")
<1>1. at \in [Actor -> At] /\ Loop \in Actor /\ Sender \subseteq Actor
    BY DEF TypeOK, At, Actor
<1>2. \A a \in Actor : at'[a] \in At
    BY <1>1 DEF At
<1>3. QED
    BY <1>1, <1>2, AccessAssumption
-----------------------------------------------------------------------------
(* Types. *)

\* The state an account starts in has the types.
LEMMA InitTypes == Init => TypeOK
<1> SUFFICES ASSUME Init PROVE TypeOK
    OBVIOUS
<1> DEFINE g == [of |-> First, from |-> 0]
<1>1. g \in Grant
    BY AccessAssumption DEF Grant
<1>2. issued = <<g>> /\ <<g>> \in Seq(Grant) /\ Len(<<g>>) = 1
    BY <1>1 DEF Init
<1>3. alive \subseteq 1..Len(issued)
    BY <1>2 DEF Init
<1>4. 1 \in Token
    BY AccessAssumption DEF Token
<1>5. queue \in Seq(Sender)
    BY EmptySeq DEF Init
<1>6. NewLoop \in LoopState
    BY DEF NewLoop, LoopState
<1>7. Nothing \in [token : 0..MaxToken, got : 0..MaxToken]
    BY AccessAssumption DEF Nothing
<1>8. signin \in [SignIn -> [step : {"idle", "outstanding", "exchange", "store", "ended"},
                             token : 0..MaxToken]]
    BY AccessAssumption DEF Init
<1>9. QED
    BY <1>2, <1>3, <1>4, <1>5, <1>6, <1>7, <1>8 DEF Init, TypeOK, Grant, LoopState

\* Every step keeps the types.
LEMMA StepTypes == TypeOK /\ Grants /\ [Next]_vars => TypeOK'
<1> SUFFICES ASSUME TypeOK, Grants, [Next]_vars PROVE TypeOK'
    OBVIOUS
<1> USE AccessAssumption
    DEF Goes, Fault, grantVars, accountVars, loopVars, mailVars, boundVars
<1>0. /\ at \in [Actor -> At] /\ loop \in LoopState /\ issued \in Seq(Grant)
      /\ Loop \in Actor /\ Sender \subseteq Actor /\ Len(issued) \in Nat
    BY LenProperties DEF TypeOK, At, LoopState, Actor, Grant
<1>1. ASSUME NEW a \in Actor, Load(a) PROVE TypeOK'
    BY <1>1 DEF Load, TypeOK, Token
<1>2. ASSUME NEW a \in Actor, Renew(a) PROVE TypeOK'
  <2> DEFINE t == held[a].token
  <2>1. t \in 1..Len(issued) /\ t \in 0..MaxToken
    BY <1>2 DEF Renew, Grants, Carries, TypeOK
  <2>2. issued[t].of \in SignIn \cup {First}
    <3>1. issued[t] \in Grant
      BY <1>0, <2>1, ElementOfSeq
    <3>2. QED
      BY <3>1 DEF Grant
  <2>3. CASE /\ held' = [held EXCEPT ![a].got = t] /\ UNCHANGED <<issued, alive>>
             /\ Goes(a, "persist") /\ UNCHANGED loop
    BY <1>2, <2>1, <2>3 DEF Renew, TypeOK
  <2>4. CASE /\ Issue(issued[t].of, t) /\ held' = [held EXCEPT ![a].got = Len(issued) + 1]
             /\ Goes(a, "persist") /\ UNCHANGED loop
    <3>1. issued' \in Seq(Grant) /\ alive' \subseteq 1..Len(issued') /\ Len(issued) + 1 \in Token
      BY <2>1, <2>2, <2>4, Issues
    <3>2. held' \in [Actor -> [token : 0..MaxToken, got : 0..MaxToken]]
      BY <2>4, <3>1 DEF TypeOK, Token
    <3>3. QED
      BY <1>2, <2>4, <3>1, <3>2 DEF Renew, TypeOK, Grant
  <2>5. CASE /\ UNCHANGED <<issued, alive, held>>
             /\ \E v \in {"error", "auth_required"} : Fails(a, v)
    <3>1. CASE a = Loop
      <4>1. at' \in [Actor -> At] /\ loop' \in LoopState
        BY <2>5, <3>1, LoopFailure DEF Fails
      <4>2. QED
        BY <1>2, <2>5, <4>1 DEF Renew, TypeOK, At, LoopState
    <3>2. CASE a # Loop
      BY <1>2, <2>5, <3>2 DEF Renew, Fails, TypeOK, Answered
    <3>3. QED
      BY <3>1, <3>2
  <2>6. QED
    BY <1>2, <2>3, <2>4, <2>5 DEF Renew
<1>3. ASSUME NEW a \in Actor, Persist(a) PROVE TypeOK'
  <2>1. held[a].got \in Token
    BY <1>0, <1>3 DEF Persist, Grants, Carries, TypeOK, Token
  <2>2. QED
    BY <1>3, <2>1 DEF Persist, TypeOK
<1>4. ASSUME NEW s \in Sender, Send(s) PROVE TypeOK'
    BY <1>0, <1>4 DEF Send, TypeOK, Answered
<1>5. ASSUME NEW s \in Sender, Smtp(s) PROVE TypeOK'
  <2>1. at' \in [Actor -> At] /\ delivered' \subseteq Sender /\ unsure' \subseteq Sender
    <3>1. at' \in {[at EXCEPT ![s] = "append"], [at EXCEPT ![s] = "refused"]}
          /\ delivered' \in {delivered, delivered \cup {s}}
          /\ unsure' \in {unsure, unsure \cup {s}}
      BY <1>5 DEF Smtp
    <3>2. at' \in [Actor -> At]
      BY <1>0, <3>1 DEF At, Answered
    <3>3. QED
      BY <3>1, <3>2 DEF TypeOK
  <2>2. QED
    BY <1>5, <2>1 DEF Smtp, TypeOK, At
<1>6. ASSUME NEW s \in Sender, Queue(s) PROVE TypeOK'
  <2>1. Append(queue, s) \in Seq(Sender)
    BY AppendProperties DEF TypeOK
  <2>2. queue' \in {queue, Append(queue, s)} /\ at' \in {at, [at EXCEPT ![s] = "ingest"]}
    BY <1>6 DEF Queue
  <2>3. queue' \in Seq(Sender) /\ at' \in [Actor -> At]
    BY <1>0, <2>1, <2>2 DEF TypeOK, At
  <2>4. QED
    BY <1>6, <2>3 DEF Queue, TypeOK, At
<1>7. ASSUME NEW s \in Sender, AppendTimeout(s) PROVE TypeOK'
    BY <1>0, <1>7 DEF AppendTimeout, TypeOK
<1>8. ASSUME NEW s \in Sender, Ingest(s) PROVE TypeOK'
  <2>1. at' \in [Actor -> At] /\ recorded' \subseteq Sender
    <3>1. at' \in {[at EXCEPT ![s] = "sent"], [at EXCEPT ![s] = "failed"]}
          /\ recorded' \in {recorded, recorded \cup {s}}
      BY <1>8 DEF Ingest
    <3>2. at' \in [Actor -> At]
      BY <1>0, <3>1 DEF At, Answered
    <3>3. QED
      BY <3>1, <3>2 DEF TypeOK
  <2>2. QED
    BY <1>8, <2>1 DEF Ingest, TypeOK, At
<1>9. CASE Wake
  <2>1. loop' \in LoopState /\ queue' \in Seq(Sender)
    <3>1. CASE queue = <<>>
      BY <1>0, <1>9, <3>1 DEF Wake, TypeOK, LoopState
    <3>2. CASE queue # <<>>
      <4>1. Head(queue) \in Sender /\ Tail(queue) \in Seq(Sender)
        BY <3>2, HeadTailProperties DEF TypeOK
      <4>2. QED
        BY <1>0, <1>9, <3>2, <4>1 DEF Wake, LoopState
    <3>3. QED
      BY <3>1, <3>2
  <2>2. QED
    BY <1>0, <1>9, <2>1 DEF Wake, TypeOK, LoopState
<1>10. CASE LoopAppends
  <2>1. loop.job \in Sender
    BY <1>0, <1>10 DEF LoopAppends, LoopState
  <2>2. at' \in [Actor -> At] /\ loop' \in LoopState /\ copies' \subseteq Sender
    <3>1. CASE LoopFails("error") /\ UNCHANGED copies
      BY <3>1, LoopFailure DEF TypeOK
    <3>2. CASE ~(LoopFails("error") /\ UNCHANGED copies)
      <4>1. /\ copies' = copies \cup {loop.job}
            /\ loop' = [loop EXCEPT !.connected = TRUE, !.job = "pass"]
            /\ at' = [at EXCEPT ![Loop] = "idle",
                                ![loop.job] = IF @ = "append" THEN "ingest" ELSE @]
        BY <1>10, <3>2 DEF LoopAppends
      <4>2. copies' \subseteq Sender
        BY <2>1, <4>1 DEF TypeOK
      <4>3. loop' \in LoopState
        BY <1>0, <4>1 DEF LoopState
      <4>4. at' \in [Actor -> At]
        BY <1>0, <2>1, <4>1 DEF At
      <4>5. QED
        BY <4>2, <4>3, <4>4
    <3>3. QED
      BY <3>1, <3>2
  <2>3. QED
    BY <1>10, <2>2 DEF LoopAppends, TypeOK, At, LoopState
<1>11. CASE LoopPasses
  <2>1. at' \in [Actor -> At] /\ loop' \in LoopState /\ recorded' \subseteq Sender
    <3>1. CASE LoopFails("error") /\ UNCHANGED recorded
      BY <3>1, LoopFailure DEF TypeOK
    <3>2. CASE ~(LoopFails("error") /\ UNCHANGED recorded)
      BY <1>0, <1>11, <3>2 DEF LoopPasses, TypeOK, At, LoopState
    <3>3. QED
      BY <3>1, <3>2
  <2>2. QED
    BY <1>11, <2>1 DEF LoopPasses, TypeOK, At, LoopState
<1>12. CASE WriteState
    BY <1>0, <1>12 DEF WriteState, TypeOK, LoopState
<1>13. CASE Teardown
  <2>1. at' \in [Actor -> At] /\ loop' \in LoopState /\ queue' \in Seq(Sender)
    BY <1>0, <1>13, LetsGo, EmptySeq DEF Teardown, At, LoopState
  <2>2. QED
    BY <1>13, <2>1 DEF Teardown, TypeOK, At, LoopState
<1>14. CASE NewSync
  <2>1. at' \in [Actor -> At] /\ loop' \in LoopState /\ queue' \in Seq(Sender)
    <3>1. loop' \in LoopState /\ queue' \in Seq(Sender)
      BY <1>14, EmptySeq DEF NewSync, NewLoop, LoopState
    <3>2. at' \in [Actor -> At]
      BY <1>14, LetsGo DEF NewSync, At
    <3>3. QED
      BY <3>1, <3>2
  <2>2. held' \in [Actor -> [token : 0..MaxToken, got : 0..MaxToken]]
    <3>1. Nothing \in [token : 0..MaxToken, got : 0..MaxToken]
      BY DEF Nothing
    <3>2. QED
      BY <1>14, <3>1 DEF NewSync, TypeOK
  <2>3. QED
    BY <1>14, <2>1, <2>2 DEF NewSync, TypeOK, At, LoopState
<1>15. ASSUME NEW i \in SignIn, StartSignin(i) PROVE TypeOK'
    BY <1>15 DEF StartSignin, TypeOK
<1>16. ASSUME NEW i \in SignIn, Redeem(i) PROVE TypeOK'
    BY <1>16 DEF Redeem, TypeOK
<1>17. ASSUME NEW i \in SignIn, Exchange(i) PROVE TypeOK'
  <2>1. CASE Issue(i, 0) /\ signin' = [signin EXCEPT ![i] =
                                            [step |-> "store", token |-> Len(issued) + 1]]
    <3>1. issued' \in Seq(Grant) /\ alive' \subseteq 1..Len(issued') /\ Len(issued) + 1 \in Token
      BY <2>1, Issues
    <3>2. signin' \in [SignIn -> [step : {"idle", "outstanding", "exchange", "store", "ended"},
                                  token : 0..MaxToken]]
      BY <2>1, <3>1 DEF TypeOK, Token
    <3>3. QED
      BY <1>17, <3>1, <3>2 DEF Exchange, TypeOK, Grant
  <2>2. CASE signin' = [signin EXCEPT ![i].step = "ended"] /\ UNCHANGED <<issued, alive>>
    BY <1>17, <2>2 DEF Exchange, TypeOK
  <2>3. QED
    BY <1>17, <2>1, <2>2 DEF Exchange
<1>18. ASSUME NEW i \in SignIn, Store(i) PROVE TypeOK'
  <2>1. signin[i].token \in Token
    BY <1>0, <1>18 DEF Store, Grants, Stores, TypeOK, Token
  <2>2. QED
    <3>1. signin' \in [SignIn -> [step : {"idle", "outstanding", "exchange", "store", "ended"},
                                  token : 0..MaxToken]]
      BY <1>18 DEF Store, TypeOK
    <3>2. loop' \in LoopState
      BY <1>0, <1>18 DEF Store, LoopState
    <3>3. row' \in [token : Token, fresh : BOOLEAN, status : {"active", "error", "auth_required"}]
          /\ latest' \in SignIn \cup {First}
      <4>1. CASE /\ row' = [token |-> signin[i].token, fresh |-> TRUE, status |-> "active"]
                 /\ latest' = i
        BY <2>1, <4>1
      <4>2. CASE UNCHANGED <<row, latest>>
        BY <4>2 DEF TypeOK
      <4>3. QED
        BY <1>18, <4>1, <4>2 DEF Store
    <3>4. QED
      BY <1>18, <3>1, <3>2, <3>3 DEF Store, TypeOK, LoopState
<1>19. CASE Expire
    BY <1>19 DEF Expire, TypeOK
<1>20. CASE Revoke
    BY <1>20 DEF Revoke, TypeOK
<1>21. CASE Crash
  <2>1. queue' \in Seq(Sender) /\ loop' \in LoopState
    BY <1>21, EmptySeq DEF Crash, NewLoop, LoopState
  <2>2. at' \in [Actor -> At]
    BY <1>0, <1>21 DEF Crash, At, Answered
  <2>3. held' \in [Actor -> [token : 0..MaxToken, got : 0..MaxToken]]
    BY <1>21 DEF Crash, Nothing
  <2>4. signin' \in [SignIn -> [step : {"idle", "outstanding", "exchange", "store", "ended"},
                                token : 0..MaxToken]]
    BY <1>21 DEF Crash, TypeOK
  <2>5. QED
    BY <1>21, <2>1, <2>2, <2>3, <2>4 DEF Crash, TypeOK, At, LoopState
<1>22. CASE UNCHANGED vars
    BY <1>22 DEF vars, TypeOK
<1>23. QED
  BY <1>0, <1>1, <1>2, <1>3, <1>4, <1>5, <1>6, <1>7, <1>8, <1>9, <1>10, <1>11, <1>12, <1>13,
     <1>14, <1>15, <1>16, <1>17, <1>18, <1>19, <1>20, <1>21, <1>22 DEF Next, Serve, RunLoop
-----------------------------------------------------------------------------
(* Grants. *)

\* Tokens once issued stay what they were, and so does what is said of those
\* that are carried on unchanged.
LEMMA KeepsGrants ==
    ASSUME Grants,
           \A t \in 1..Len(issued) : t \in 1..Len(issued') /\ issued'[t] = issued[t]
    PROVE  /\ row'.token = row.token /\ latest' = latest => Holds'
           /\ \A a \in Actor :
                (at'[a] \in {"renew", "persist"} => at'[a] = at[a] /\ held'[a] = held[a])
                    => Carries(a)'
           /\ \A i \in SignIn :
                (signin'[i].step = "store" => signin'[i] = signin[i]) => Stores(i)'
<1>1. row'.token = row.token /\ latest' = latest => Holds'
    BY DEF Grants, Holds
<1>2. ASSUME NEW a \in Actor,
             at'[a] \in {"renew", "persist"} => at'[a] = at[a] /\ held'[a] = held[a]
      PROVE  Carries(a)'
    BY <1>2 DEF Grants, Carries
<1>3. ASSUME NEW i \in SignIn, signin'[i].step = "store" => signin'[i] = signin[i]
      PROVE  Stores(i)'
    BY <1>3 DEF Grants, Stores
<1>4. QED
    BY <1>1, <1>2, <1>3

\* No step stores the grant of an older sign-in over a newer one.
LEMMA StepGrants == TypeOK /\ Grants /\ [Next]_vars => Grants'
<1> SUFFICES ASSUME TypeOK, Grants, [Next]_vars PROVE Grants'
    OBVIOUS
<1> USE AccessAssumption
    DEF Goes, Fault, grantVars, accountVars, loopVars, mailVars, boundVars
<1> DEFINE Lasting == \A t \in 1..Len(issued) : t \in 1..Len(issued') /\ issued'[t] = issued[t]
           SameRow == row'.token = row.token /\ latest' = latest
           SameHeld == \A a \in Actor :
                         at'[a] \in {"renew", "persist"} => at'[a] = at[a] /\ held'[a] = held[a]
           SameSignIns == \A i \in SignIn :
                            signin'[i].step = "store" => signin'[i] = signin[i]
<1>0. /\ at \in [Actor -> At] /\ loop \in LoopState /\ issued \in Seq(Grant)
      /\ held \in [Actor -> [token : 0..MaxToken, got : 0..MaxToken]]
      /\ Loop \in Actor /\ Sender \subseteq Actor /\ Len(issued) \in Nat
    BY LenProperties DEF TypeOK, At, LoopState, Actor, Grant
<1>a. ASSUME Lasting, SameRow, SameHeld, SameSignIns PROVE Grants'
    BY <1>a, KeepsGrants DEF Grants
<1>b. ASSUME issued' = issued PROVE Lasting
    BY <1>b
<1>1. ASSUME NEW a \in Actor, Load(a) PROVE Grants'
  <2>1. Lasting /\ SameRow /\ SameSignIns
    BY <1>1 DEF Load
  <2>2. ASSUME NEW b \in Actor, b # a PROVE Carries(b)'
    <3>1. at'[b] = at[b] /\ held'[b] = held[b]
      BY <1>0, <1>1, <2>2 DEF Load
    <3>2. QED
      BY <2>1, <3>1, KeepsGrants
  <2>3. at'[a] \in {"work", "renew"} /\ held'[a].token = row.token /\ issued' = issued
    BY <1>0, <1>1 DEF Load
  <2>4. Carries(a)'
    BY <2>3 DEF Grants, Holds, Carries
  <2>5. Holds' /\ \A i \in SignIn : Stores(i)'
    BY <2>1, KeepsGrants
  <2>6. QED
    BY <2>2, <2>4, <2>5 DEF Grants
<1>2. ASSUME NEW a \in Actor, Renew(a) PROVE Grants'
  <2> DEFINE t == held[a].token
  <2>1. t \in 1..Len(issued) /\ t \in 0..MaxToken
    BY <1>0, <1>2 DEF Renew, Grants, Carries
  <2>2. issued[t].of \in SignIn \cup {First}
    <3>1. issued[t] \in Grant
      BY <1>0, <2>1, ElementOfSeq
    <3>2. QED
      BY <3>1 DEF Grant
  <2>3. SameRow /\ SameSignIns
    BY <1>2 DEF Renew
  <2>4. ASSUME Lasting, NEW got \in 1..Len(issued'), issued'[got].of = issued[t].of,
               held' = [held EXCEPT ![a].got = got], Goes(a, "persist")
        PROVE  Grants'
    <3>1. ASSUME NEW b \in Actor, b # a PROVE Carries(b)'
      <4>1. at'[b] = at[b] /\ held'[b] = held[b]
        BY <1>0, <2>4, <3>1
      <4>2. QED
        BY <2>4, <4>1, KeepsGrants
    <3>2. at'[a] = "persist" /\ held'[a].token = t /\ held'[a].got = got
      BY <1>0, <2>4
    <3>3. Carries(a)'
      BY <2>1, <2>4, <3>2 DEF Carries
    <3>4. Holds' /\ \A i \in SignIn : Stores(i)'
      BY <2>3, <2>4, KeepsGrants
    <3>5. QED
      BY <3>1, <3>3, <3>4 DEF Grants
  <2>5. CASE /\ held' = [held EXCEPT ![a].got = t] /\ UNCHANGED <<issued, alive>>
             /\ Goes(a, "persist") /\ UNCHANGED loop
    BY <2>1, <2>4, <2>5
  <2>6. CASE /\ Issue(issued[t].of, t) /\ held' = [held EXCEPT ![a].got = Len(issued) + 1]
             /\ Goes(a, "persist") /\ UNCHANGED loop
    <3>1. /\ Len(issued') = Len(issued) + 1
          /\ \A u \in 1..Len(issued) : issued'[u] = issued[u]
          /\ issued'[Len(issued) + 1].of = issued[t].of
      BY <2>1, <2>2, <2>6, Issues
    <3>2. Lasting /\ Len(issued) + 1 \in 1..Len(issued')
      BY <1>0, <3>1
    <3>3. QED
      BY <2>4, <2>6, <3>1, <3>2
  <2>7. CASE /\ UNCHANGED <<issued, alive, held>>
             /\ \E v \in {"error", "auth_required"} : Fails(a, v)
    <3>1. SameHeld
      <4>1. CASE a = Loop
        BY <1>0, <2>7, <4>1, LoopFailure DEF Fails, Actor
      <4>2. CASE a # Loop
        BY <1>0, <2>7, <4>2 DEF Fails
      <4>3. QED
        BY <4>1, <4>2
    <3>2. QED
      BY <1>a, <2>3, <2>7, <3>1
  <2>8. QED
    BY <1>2, <2>5, <2>6, <2>7 DEF Renew
<1>3. ASSUME NEW a \in Actor, Persist(a) PROVE Grants'
  <2>1. Lasting /\ SameSignIns
    BY <1>3 DEF Persist
  <2>2. SameHeld
    BY <1>0, <1>3 DEF Persist
  <2>3. Holds'
    <3>1. CASE row.token = held[a].token
      <4>1. row'.token = held[a].got
        BY <1>3, <3>1 DEF Persist, TypeOK
      <4>2. QED
        BY <1>3, <3>1, <4>1 DEF Persist, Grants, Holds, Carries
    <3>2. CASE row.token # held[a].token
      BY <1>3, <3>2 DEF Persist, Grants, Holds
    <3>3. QED
      BY <3>1, <3>2
  <2>4. QED
    BY <2>1, <2>2, <2>3, KeepsGrants DEF Grants
<1>4. ASSUME NEW s \in Sender, Send(s) PROVE Grants'
    BY <1>0, <1>4, <1>a DEF Send
<1>5. ASSUME NEW s \in Sender, Smtp(s) PROVE Grants'
    BY <1>0, <1>5, <1>a DEF Smtp
<1>6. ASSUME NEW s \in Sender, Queue(s) PROVE Grants'
    BY <1>0, <1>6, <1>a DEF Queue
<1>7. ASSUME NEW s \in Sender, AppendTimeout(s) PROVE Grants'
    BY <1>0, <1>7, <1>a DEF AppendTimeout
<1>8. ASSUME NEW s \in Sender, Ingest(s) PROVE Grants'
    BY <1>0, <1>8, <1>a DEF Ingest
<1>9. CASE Wake
    BY <1>0, <1>9, <1>a DEF Wake
<1>10. CASE LoopAppends
  <2>1. SameHeld
    <3>1. CASE LoopFails("error")
      BY <1>0, <1>10, <3>1, LoopFailure DEF LoopAppends, Actor
    <3>2. CASE ~LoopFails("error")
      <4>1. loop.job \in Sender
        BY <1>0, <1>10 DEF LoopAppends, LoopState
      <4>2. QED
        BY <1>0, <1>10, <3>2, <4>1 DEF LoopAppends
    <3>3. QED
      BY <3>1, <3>2
  <2>2. QED
    BY <1>10, <1>a, <2>1 DEF LoopAppends
<1>11. CASE LoopPasses
  <2>1. SameHeld
    <3>1. CASE LoopFails("error")
      BY <1>0, <1>11, <3>1, LoopFailure DEF LoopPasses, Actor
    <3>2. CASE ~LoopFails("error")
      BY <1>0, <1>11, <3>2 DEF LoopPasses
    <3>3. QED
      BY <3>1, <3>2
  <2>2. QED
    BY <1>11, <1>a, <2>1 DEF LoopPasses
<1>12. CASE WriteState
    BY <1>0, <1>12, <1>a DEF WriteState, TypeOK
<1>13. CASE Teardown
  <2>1. SameHeld
    BY <1>0, <1>13, LetsGo DEF Teardown, Actor, At
  <2>2. QED
    BY <1>13, <1>a, <2>1 DEF Teardown
<1>14. CASE NewSync
  <2>1. SameHeld
    <3>1. at'[Loop] = "idle" /\ \A s \in Sender : at'[s] = at[s] \/ at'[s] = "ingest"
      BY <1>0, <1>14, LetsGo DEF NewSync, At
    <3>2. \A s \in Sender : held'[s] = held[s]
      BY <1>0, <1>14 DEF NewSync
    <3>3. QED
      BY <3>1, <3>2 DEF Actor
  <2>2. QED
    BY <1>14, <1>a, <2>1 DEF NewSync
<1>15. ASSUME NEW i \in SignIn, StartSignin(i) PROVE Grants'
    BY <1>15, <1>a DEF StartSignin, TypeOK
<1>16. ASSUME NEW i \in SignIn, Redeem(i) PROVE Grants'
    BY <1>16, <1>a DEF Redeem, TypeOK
<1>17. ASSUME NEW i \in SignIn, Exchange(i) PROVE Grants'
  <2>1. SameRow /\ SameHeld
    BY <1>17 DEF Exchange
  <2>2. CASE Issue(i, 0) /\ signin' = [signin EXCEPT ![i] =
                                            [step |-> "store", token |-> Len(issued) + 1]]
    <3>1. /\ Len(issued') = Len(issued) + 1
          /\ \A u \in 1..Len(issued) : issued'[u] = issued[u]
          /\ issued'[Len(issued) + 1].of = i
      BY <2>2, Issues
    <3>2. Lasting /\ Len(issued) + 1 \in 1..Len(issued')
      BY <1>0, <3>1
    <3>3. ASSUME NEW j \in SignIn PROVE Stores(j)'
      <4>1. CASE j = i
        <5>1. signin'[i].token = Len(issued) + 1
          BY <2>2 DEF TypeOK
        <5>2. QED
          BY <3>1, <3>2, <4>1, <5>1 DEF Stores
      <4>2. CASE j # i
        <5>1. signin'[j] = signin[j]
          BY <2>2, <4>2 DEF TypeOK
        <5>2. QED
          BY <3>2, <5>1, KeepsGrants
      <4>3. QED
        BY <4>1, <4>2
    <3>4. QED
      BY <2>1, <3>2, <3>3, KeepsGrants DEF Grants
  <2>3. CASE signin' = [signin EXCEPT ![i].step = "ended"] /\ UNCHANGED <<issued, alive>>
    BY <1>a, <2>1, <2>3 DEF TypeOK
  <2>4. QED
    BY <1>17, <2>2, <2>3 DEF Exchange
<1>18. ASSUME NEW i \in SignIn, Store(i) PROVE Grants'
  <2>1. Lasting /\ SameHeld
    BY <1>18 DEF Store
  <2>2. SameSignIns
    BY <1>18 DEF Store, TypeOK
  <2>3. Holds'
    <3>1. CASE /\ row' = [token |-> signin[i].token, fresh |-> TRUE, status |-> "active"]
               /\ latest' = i
      BY <1>18, <3>1 DEF Store, Grants, Stores, Holds
    <3>2. CASE UNCHANGED <<row, latest>>
      BY <2>1, <3>2, KeepsGrants
    <3>3. QED
      BY <1>18, <3>1, <3>2 DEF Store
  <2>4. QED
    BY <2>1, <2>2, <2>3, KeepsGrants DEF Grants
<1>19. CASE Expire
    BY <1>19, <1>a DEF Expire, TypeOK
<1>20. CASE Revoke
    BY <1>20, <1>a DEF Revoke
<1>21. CASE Crash
  <2>1. SameHeld
    BY <1>0, <1>21 DEF Crash, Answered
  <2>2. SameSignIns
    BY <1>21 DEF Crash, TypeOK
  <2>3. QED
    BY <1>21, <1>a, <2>1, <2>2 DEF Crash
<1>22. CASE UNCHANGED vars
    BY <1>22, <1>a DEF vars
<1>23. QED
  BY <1>0, <1>1, <1>2, <1>3, <1>4, <1>5, <1>6, <1>7, <1>8, <1>9, <1>10, <1>11, <1>12, <1>13,
     <1>14, <1>15, <1>16, <1>17, <1>18, <1>19, <1>20, <1>21, <1>22 DEF Next, Serve, RunLoop
-----------------------------------------------------------------------------
(* Sends. *)

\* A send that moves on without the SMTP server, and a loop that takes no new job.
GoesOn(s) ==
    \/ at'[s] = at[s]
    \/ at[s] = "append" /\ at'[s] = "ingest"
    \/ at[s] \in Before /\ at'[s] \in Before \cup {"refused"}
    \/ at'[s] \in {"lost", "failed"}

\* It keeps what is said of the sends.
LEMMA KeepsSends ==
    ASSUME Sends, delivered' = delivered, unsure' = unsure, recorded \subseteq recorded'
    PROVE  /\ \A s \in Sender : GoesOn(s) => Answers(s)'
           /\ /\ loop'.job \in {loop.job, "pass"}
              /\ queue' \in {queue, <<>>}
              /\ copies' = copies
              /\ recorded' \subseteq recorded \cup copies
              => Files'
<1>1. ASSUME NEW s \in Sender, GoesOn(s) PROVE Answers(s)'
    BY <1>1 DEF Sends, Answers, GoesOn, Before
<1>2. ASSUME loop'.job \in {loop.job, "pass"}, queue' \in {queue, <<>>}, copies' = copies,
             recorded' \subseteq recorded \cup copies
      PROVE  Files'
  <2>1. \A i \in 1..Len(queue') : queue'[i] \in delivered
    <3>1. CASE queue' = queue
      BY <3>1 DEF Sends, Files
    <3>2. CASE queue' = <<>>
      BY <3>2
    <3>3. QED
      BY <1>2, <3>1, <3>2
  <2>2. QED
    BY <1>2, <2>1 DEF Sends, Files
<1>3. QED
    BY <1>1, <1>2

\* No step makes an answer untrue, and nothing is filed that was not delivered.
LEMMA StepSends == TypeOK /\ Sends /\ [Next]_vars => Sends'
<1> SUFFICES ASSUME TypeOK, Sends, [Next]_vars PROVE Sends'
    OBVIOUS
<1> USE AccessAssumption
    DEF Goes, Fault, grantVars, accountVars, loopVars, mailVars, boundVars
<1> DEFINE SameMail == delivered' = delivered /\ unsure' = unsure /\ recorded \subseteq recorded'
           OldFiles == /\ loop'.job \in {loop.job, "pass"}
                       /\ queue' \in {queue, <<>>}
                       /\ copies' = copies
                       /\ recorded' \subseteq recorded \cup copies
<1>0. /\ at \in [Actor -> At] /\ loop \in LoopState
      /\ Loop \in Actor /\ Sender \subseteq Actor
      /\ queue \in Seq(Sender) /\ Len(queue) \in Nat
    BY LenProperties DEF TypeOK, At, LoopState, Actor
<1>a. ASSUME SameMail, OldFiles, \A s \in Sender : GoesOn(s) PROVE Sends'
    BY <1>a, KeepsSends DEF Sends
<1>1. ASSUME NEW a \in Actor, Load(a) PROVE Sends'
  <2>1. \A s \in Sender : GoesOn(s)
    BY <1>0, <1>1 DEF Load, GoesOn, Before
  <2>2. QED
    BY <1>1, <1>a, <2>1 DEF Load
<1>2. ASSUME NEW a \in Actor, Renew(a) PROVE Sends'
  <2>1. CASE Goes(a, "persist") /\ UNCHANGED loop
    <3>1. \A s \in Sender : GoesOn(s)
      BY <1>0, <1>2, <2>1 DEF Renew, GoesOn, Before
    <3>2. QED
      BY <1>2, <1>a, <2>1, <3>1 DEF Renew
  <2>2. CASE \E v \in {"error", "auth_required"} : Fails(a, v)
    <3>1. (\A s \in Sender : GoesOn(s)) /\ loop'.job = loop.job
      <4>1. CASE a = Loop
        BY <2>2, <4>1, LoopFailure DEF Fails, GoesOn
      <4>2. CASE a # Loop
        BY <1>0, <1>2, <2>2, <4>2 DEF Renew, Fails, GoesOn, Before
      <4>3. QED
        BY <4>1, <4>2
    <3>2. QED
      BY <1>2, <1>a, <3>1 DEF Renew
  <2>3. QED
    BY <1>2, <2>1, <2>2 DEF Renew
<1>3. ASSUME NEW a \in Actor, Persist(a) PROVE Sends'
  <2>1. \A s \in Sender : GoesOn(s)
    BY <1>0, <1>3 DEF Persist, GoesOn, Before
  <2>2. QED
    BY <1>3, <1>a, <2>1 DEF Persist
<1>4. ASSUME NEW s \in Sender, Send(s) PROVE Sends'
  <2>1. \A r \in Sender : GoesOn(r)
    BY <1>0, <1>4 DEF Send, GoesOn, Before
  <2>2. QED
    BY <1>4, <1>a, <2>1 DEF Send
<1>5. ASSUME NEW s \in Sender, Smtp(s) PROVE Sends'
  <2>1. \A r \in Sender \ {s} : at'[r] = at[r] /\ (r \in delivered' <=> r \in delivered)
                                /\ (r \in unsure' <=> r \in unsure)
    BY <1>0, <1>5 DEF Smtp
  <2>2. delivered \subseteq delivered' /\ UNCHANGED <<loop, queue, copies, recorded>>
    BY <1>5 DEF Smtp
  <2>3. \A r \in Sender \ {s} : Answers(r)'
    BY <2>1, <2>2 DEF Sends, Answers
  <2>4. Answers(s)'
    <3>1. s \notin delivered
      BY <1>5 DEF Smtp, Sends, Answers, Before
    <3>2. \/ at'[s] = "append" /\ s \in delivered'
          \/ at'[s] = "refused" /\ s \notin delivered'
          \/ at'[s] = "refused" /\ s \in unsure'
      BY <1>0, <1>5, <3>1 DEF Smtp
    <3>3. QED
      BY <3>2 DEF Answers, Before
  <2>5. Files'
    BY <2>2 DEF Sends, Files
  <2>6. QED
    BY <2>3, <2>4, <2>5 DEF Sends
<1>6. ASSUME NEW s \in Sender, Queue(s) PROVE Sends'
  <2>1. \A r \in Sender : GoesOn(r)
    BY <1>0, <1>6 DEF Queue, GoesOn
  <2>2. SameMail
    BY <1>6 DEF Queue
  <2>3. Files'
    <3>1. CASE queue' = queue
      BY <1>6, <3>1 DEF Queue, Sends, Files
    <3>2. CASE queue' = Append(queue, s)
      <4>1. /\ Len(queue') = Len(queue) + 1
            /\ \A i \in 1..Len(queue) : queue'[i] = queue[i]
            /\ queue'[Len(queue) + 1] = s
        BY <1>0, <3>2, AppendProperties
      <4>2. s \in delivered
        BY <1>6 DEF Queue, Sends, Answers
      <4>3. \A i \in 1..Len(queue') : queue'[i] \in delivered
        BY <1>0, <4>1, <4>2 DEF Sends, Files
      <4>4. QED
        BY <1>6, <4>3 DEF Queue, Sends, Files
    <3>3. QED
      BY <1>6, <3>1, <3>2 DEF Queue
  <2>4. QED
    BY <2>1, <2>2, <2>3, KeepsSends DEF Sends
<1>7. ASSUME NEW s \in Sender, AppendTimeout(s) PROVE Sends'
  <2>1. \A r \in Sender : GoesOn(r)
    BY <1>0, <1>7 DEF AppendTimeout, GoesOn
  <2>2. QED
    BY <1>7, <1>a, <2>1 DEF AppendTimeout
<1>8. ASSUME NEW s \in Sender, Ingest(s) PROVE Sends'
  <2>1. \A r \in Sender \ {s} : GoesOn(r)
    BY <1>0, <1>8 DEF Ingest, GoesOn
  <2>2. SameMail /\ UNCHANGED <<loop, queue, copies>>
    BY <1>8 DEF Ingest
  <2>3. s \in delivered
    BY <1>8 DEF Ingest, Sends, Answers
  <2>4. Answers(s)'
    <3>1. \/ at'[s] = "sent" /\ s \in recorded'
          \/ at'[s] = "failed"
      BY <1>0, <1>8 DEF Ingest
    <3>2. QED
      BY <2>2, <2>3, <3>1 DEF Answers, Before
  <2>5. recorded' \subseteq recorded \cup {s}
    BY <1>8 DEF Ingest
  <2>6. Files'
    BY <2>2, <2>3, <2>5 DEF Sends, Files
  <2>7. QED
    BY <2>1, <2>2, <2>4, <2>6, KeepsSends DEF Sends
<1>9. CASE Wake
  <2>1. \A s \in Sender : GoesOn(s)
    BY <1>0, <1>9 DEF Wake, GoesOn
  <2>2. SameMail /\ UNCHANGED <<copies, recorded>>
    BY <1>9 DEF Wake
  <2>3. Files'
    <3>1. CASE queue = <<>>
      BY <1>0, <1>9, <3>1, KeepsSends DEF Wake, LoopState
    <3>2. CASE queue # <<>>
      <4>1. loop'.job = Head(queue) /\ queue' = Tail(queue)
        BY <1>0, <1>9, <3>2 DEF Wake, LoopState
      <4>2. /\ Head(queue) = queue[1] /\ Len(Tail(queue)) = Len(queue) - 1 /\ Len(queue) \geq 1
            /\ \A i \in 1..Len(Tail(queue)) : Tail(queue)[i] = queue[i + 1]
        BY <1>0, <3>2, HeadTailProperties
      <4>3. loop'.job \in delivered /\ \A i \in 1..Len(queue') : queue'[i] \in delivered
        BY <1>0, <4>1, <4>2 DEF Sends, Files
      <4>4. QED
        BY <2>2, <4>3 DEF Sends, Files
    <3>3. QED
      BY <3>1, <3>2
  <2>4. QED
    BY <2>1, <2>2, <2>3, KeepsSends DEF Sends
<1>10. CASE LoopAppends
  <2>1. SameMail /\ UNCHANGED <<queue, recorded>>
    BY <1>10 DEF LoopAppends
  <2>2. CASE LoopFails("error") /\ UNCHANGED copies
    <3>1. (\A s \in Sender : GoesOn(s)) /\ loop'.job = loop.job
      BY <2>2, LoopFailure DEF GoesOn
    <3>2. QED
      BY <1>a, <2>1, <2>2, <3>1
  <2>3. CASE ~(LoopFails("error") /\ UNCHANGED copies)
    <3>1. /\ copies' = copies \cup {loop.job}
          /\ loop' = [loop EXCEPT !.connected = TRUE, !.job = "pass"]
          /\ at' = [at EXCEPT ![Loop] = "idle",
                              ![loop.job] = IF @ = "append" THEN "ingest" ELSE @]
      BY <1>10, <2>3 DEF LoopAppends
    <3>2. loop.job \in Sender /\ loop.job \in delivered /\ loop'.job = "pass"
      BY <1>0, <1>10, <3>1 DEF LoopAppends, LoopState, Sends, Files
    <3>3. \A s \in Sender : GoesOn(s)
      BY <1>0, <3>1, <3>2 DEF GoesOn
    <3>4. Files'
      BY <2>1, <3>1, <3>2 DEF Sends, Files
    <3>5. QED
      BY <2>1, <3>3, <3>4, KeepsSends DEF Sends
  <2>4. QED
    BY <2>2, <2>3
<1>11. CASE LoopPasses
  <2>1. UNCHANGED <<delivered, unsure, copies, queue>>
    BY <1>11 DEF LoopPasses
  <2>2. CASE LoopFails("error") /\ UNCHANGED recorded
    <3>1. (\A s \in Sender : GoesOn(s)) /\ loop'.job = loop.job
      BY <2>2, LoopFailure DEF GoesOn
    <3>2. QED
      BY <1>a, <2>1, <2>2, <3>1
  <2>3. CASE ~(LoopFails("error") /\ UNCHANGED recorded)
    <3>1. (\A s \in Sender : GoesOn(s)) /\ loop'.job = loop.job /\ recorded' = recorded \cup copies
      BY <1>0, <1>11, <2>3 DEF LoopPasses, GoesOn, LoopState
    <3>2. QED
      BY <1>a, <2>1, <3>1
  <2>4. QED
    BY <2>2, <2>3
<1>12. CASE WriteState
  <2>1. (\A s \in Sender : GoesOn(s)) /\ loop'.job = loop.job
    BY <1>0, <1>12 DEF WriteState, GoesOn, LoopState
  <2>2. QED
    BY <1>12, <1>a, <2>1 DEF WriteState
<1>13. CASE Teardown
  <2>1. (\A s \in Sender : GoesOn(s)) /\ loop'.job = loop.job
    BY <1>0, <1>13, LetsGo DEF Teardown, GoesOn, At, LoopState
  <2>2. QED
    BY <1>13, <1>a, <2>1 DEF Teardown
<1>14. CASE NewSync
  <2>1. at' = [a \in Actor |-> IF a = Loop THEN "idle"
                               ELSE IF a \in ToSet(queue) /\ at[a] = "append" THEN "ingest"
                               ELSE at[a]]
    BY <1>14 DEF NewSync
  <2>2. \A s \in Sender : GoesOn(s)
    BY <1>0, <2>1, LetsGo DEF GoesOn, At
  <2>3. QED
    BY <1>14, <1>a, <2>2 DEF NewSync, NewLoop
<1>15. ASSUME NEW i \in SignIn, StartSignin(i) PROVE Sends'
    BY <1>15, <1>a DEF StartSignin, GoesOn
<1>16. ASSUME NEW i \in SignIn, Redeem(i) PROVE Sends'
    BY <1>16, <1>a DEF Redeem, GoesOn
<1>17. ASSUME NEW i \in SignIn, Exchange(i) PROVE Sends'
    BY <1>17, <1>a DEF Exchange, GoesOn
<1>18. ASSUME NEW i \in SignIn, Store(i) PROVE Sends'
    BY <1>0, <1>18, <1>a DEF Store, GoesOn, LoopState
<1>19. CASE Expire
    BY <1>19, <1>a DEF Expire, GoesOn
<1>20. CASE Revoke
    BY <1>20, <1>a DEF Revoke, GoesOn
<1>21. CASE Crash
  <2>1. \A s \in Sender : GoesOn(s)
    BY <1>0, <1>21 DEF Crash, GoesOn
  <2>2. QED
    BY <1>21, <1>a, <2>1 DEF Crash, NewLoop
<1>22. CASE UNCHANGED vars
    BY <1>22, <1>a DEF vars, GoesOn
<1>23. QED
  BY <1>0, <1>1, <1>2, <1>3, <1>4, <1>5, <1>6, <1>7, <1>8, <1>9, <1>10, <1>11, <1>12, <1>13,
     <1>14, <1>15, <1>16, <1>17, <1>18, <1>19, <1>20, <1>21, <1>22 DEF Next, Serve, RunLoop
-----------------------------------------------------------------------------
\* The invariant holds of the first state, and every step keeps it.
LEMMA InitIInv == Init => IInv
<1> SUFFICES ASSUME Init PROVE IInv
    OBVIOUS
<1>1. TypeOK
    BY InitTypes
<1>2. issued = <<[of |-> First, from |-> 0]>> /\ row.token = 1 /\ latest = First
    BY DEF Init
<1>3. Len(issued) = 1 /\ issued[1].of = First
    BY <1>2
<1>4. Grants
    BY <1>2, <1>3 DEF Init, Grants, Holds, Carries, Stores
<1>5. Sends
    BY AccessAssumption DEF Init, Sends, Answers, Files, NewLoop, Actor
<1>6. QED
    BY <1>1, <1>4, <1>5 DEF IInv

\* Every step keeps the inductive invariant.
LEMMA StepIInv == IInv /\ [Next]_vars => IInv'
    BY StepTypes, StepGrants, StepSends DEF IInv

\* The inductive invariant of the account, its loop and the sends.
LEMMA Invariant == Spec => []IInv
    BY InitIInv, StepIInv, PTL DEF Spec

\* Every reachable state has the types of MailAccess.
THEOREM Types == Spec => []TypeOK
    BY Invariant, PTL DEF IInv

\* However renewals, sign-ins and crashes interleave, the account keeps the
\* grant of the sign-in that was stored last.
THEOREM Newest == Spec => []NewestSignInStays
<1>1. IInv => NewestSignInStays
    BY DEF IInv, Grants, Holds, NewestSignInStays
<1>2. QED
    BY <1>1, Invariant, PTL

\* However a send, its timeout and the loop that files its copy interleave, what
\* the send answers is what the SMTP server and the records hold.
THEOREM Truthful == Spec => []SendIsTruthful
<1>1. IInv => SendIsTruthful
    BY DEF IInv, Sends, Answers, Files, SendIsTruthful
<1>2. QED
    BY <1>1, Invariant, PTL
=============================================================================
