--------------------------- MODULE SessionsProofs ---------------------------
(***************************************************************************)
(* Theorems of Sessions, for any number of requests, accounts, tokens and  *)
(* links, and any lifetimes.                                               *)
(***************************************************************************)
EXTENDS Sessions, FiniteSetTheorems, TLAPS

-----------------------------------------------------------------------------
(* The inductive invariant.                                                 *)

\* What a handler holds between its awaits: a string signed by now, and the id
\* of a row that has existed; a row it is about to purge has expired.
HandlerOk(r) ==
  /\ job[r].iat <= now
  /\ pc[r] \in {"rotate", "purge"} => job[r].row \in 1..lastToken
  /\ pc[r] \in {"signup", "sign"} => job[r].row \in 0..lastToken
  /\ pc[r] \in {"hash", "expire"} => job[r].row \in 1..lastLink
  /\ pc[r] = "purge" => \A t \in tokens : t.id = job[r].row => t.expires <= now

\* A stored token has not been exchanged, and outlives its JWT.
TokenOk(t) ==
  /\ t.id <= lastToken
  /\ t.iat + Lifetime <= t.expires
  /\ exchanged[t.id] = 0

\* A stored link has not set a password.
LinkOk(l) == l.id <= lastLink /\ redeemed[l.id] = 0

\* Ids to come have no history.
Fresh ==
  /\ \A i \in TokenIds : i > lastToken => exchanged[i] = 0
  /\ \A i \in LinkIds : i > lastLink => redeemed[i] = 0

Held == \A s \in held : s[2] <= now

\* The id is the key.
Distinct == \A t, u \in tokens : t.id = u.id => t = u

TokensOnce == \A i \in TokenIds : exchanged[i] <= 1
LinksOnce  == \A i \in LinkIds : redeemed[i] <= 1

Rows ==
  /\ Distinct
  /\ \A t \in tokens : TokenOk(t)
  /\ \A l \in links : LinkOk(l)
  /\ Fresh
  /\ Held
  /\ TokensOnce
  /\ LinksOnce
  /\ SessionsKept

Inv == TypeOK /\ Rows /\ \A r \in Requests : HandlerOk(r)

\* The locals a handler starts with, and the writes of one.
LEMMA Jobs ==
  /\ Blank \in Job /\ Blank.iat = 1 /\ Blank.row = 0
  /\ \A a \in Accounts : [Blank EXCEPT !.user = a] \in Job
  /\ \A a \in Accounts, s \in Seconds : [Blank EXCEPT !.user = a, !.iat = s] \in Job
  /\ \A a \in Accounts, i \in Nat : [Blank EXCEPT !.user = a, !.row = i] \in Job
  /\ \A j \in Job, s \in Seconds : [j EXCEPT !.iat = s] \in Job
<1>1. 1 \in Seconds
  BY BoundsAssumption DEF Seconds
<1>2. (CHOOSE a \in Accounts : TRUE) \in Accounts
  BY AccountsAssumption
<1>. QED
  BY <1>1, <1>2 DEF Blank, Job

\* Nothing is stored at the start.
LEMMA InitInv == Init => Inv
<1> SUFFICES ASSUME Init PROVE Inv
  OBVIOUS
<1> USE AccountsAssumption, BoundsAssumption DEF Init
<1>0. Blank \in Job /\ Blank.iat = 1 /\ Blank.row = 0
  BY Jobs
<1>1. TypeOK
  <2>1. now \in Seconds /\ lastToken \in 0..MaxTokens /\ lastLink \in 0..MaxLinks
    BY DEF Seconds
  <2>2. pc \in [Requests -> Steps] /\ job \in [Requests -> Job]
    BY <1>0 DEF Steps
  <2>3. exchanged \in [TokenIds -> Nat] /\ redeemed \in [LinkIds -> Nat]
    OBVIOUS
  <2>. QED
    BY <2>1, <2>2, <2>3 DEF TypeOK
<1>2. Rows /\ \A r \in Requests : HandlerOk(r)
  BY <1>0 DEF Rows, Distinct, HandlerOk, TokenOk, LinkOk, Fresh, Held, TokensOnce, LinksOnce, SessionsKept
<1>. QED
  BY <1>1, <1>2 DEF Inv

\* Every step keeps the types.
LEMMA TypeStep == Inv /\ [Next]_vars => TypeOK'
<1> SUFFICES ASSUME Inv, [Next]_vars PROVE TypeOK'
  OBVIOUS
<1>0. Blank \in Job
  BY Jobs
<1> USE <1>0, BoundsAssumption, LifetimeAssumption DEF Inv, TypeOK, db, handler, history, Steps, Start, Goto, Leave, Finish
<1>1. ASSUME NEW r \in Requests, NEW a \in Accounts,
             Login(r, a) \/ VerifyOtp(r, a) \/ ForgotPassword(r, a)
      PROVE  TypeOK'
  <2>1. [Blank EXCEPT !.user = a] \in Job
    BY Jobs
  <2>. QED
    BY <1>1, <2>1 DEF Login, VerifyOtp, ForgotPassword
<1>2. ASSUME NEW r \in Requests, NEW s \in held, Refresh(r, s) PROVE TypeOK'
  <2>1. [Blank EXCEPT !.user = s[1], !.iat = s[2]] \in Job
    BY Jobs DEF String
  <2>. QED
    BY <1>2, <2>1 DEF Refresh
<1>3. ASSUME NEW r \in Requests, NEW l \in links, ResetPassword(r, l) PROVE TypeOK'
  <2>1. [Blank EXCEPT !.user = l.user, !.row = l.id] \in Job
    <3>1. l.user \in Accounts /\ l.id \in Nat
      BY DEF Link, LinkIds
    <3>. QED
      BY <3>1, Jobs
  <2>2. PICK step \in {"expire", "hash"} :
          Start(r, step, [Blank EXCEPT !.user = l.user, !.row = l.id])
    BY <1>3 DEF ResetPassword
  <2>3. pc' \in [Requests -> Steps] /\ job' \in [Requests -> Job]
    BY <2>1, <2>2
  <2>4. UNCHANGED <<db, now, held, caught, history>>
    BY <1>3 DEF ResetPassword
  <2>. QED
    BY <2>3, <2>4
<1>4. ASSUME NEW r \in Requests, SignUp(r) PROVE TypeOK'
  BY <1>4 DEF SignUp, Job
<1>5. ASSUME NEW r \in Requests, Sign(r) PROVE TypeOK'
  <2>1. [job[r] EXCEPT !.iat = now] \in Job
    BY Jobs
  <2>. QED
    BY <1>5, <2>1 DEF Sign
<1>6. ASSUME NEW r \in Requests, Store(r) PROVE TypeOK'
  <2>1. NewToken(r) \in Token
    BY <1>6 DEF Store, NewToken, Token, Job, TokenIds, Seconds
  <2>2. Signed(r) \in String
    BY DEF Signed, String, Job
  <2>3. StringOf(NewToken(r)) = Signed(r)
    BY DEF StringOf, NewToken, Signed
  <2>4. lastToken' \in 0..MaxTokens /\ survivors' \subseteq TokenIds
    BY <1>6 DEF Store, TokenIds
  <2>5. held' \subseteq String /\ live' \subseteq held'
    BY <1>6, <2>2 DEF Store
  <2>6. tokens' \subseteq Token /\ \A t, u \in tokens' : StringOf(t) = StringOf(u) => t = u
    BY <1>6, <2>1, <2>3 DEF Store, TokenTaken
  <2>7. pc' \in [Requests -> Steps] /\ job' \in [Requests -> Job] /\ caught' \subseteq Requests
    BY <1>6 DEF Store
  <2>. QED
    BY <1>6, <2>4, <2>5, <2>6, <2>7 DEF Store
<1>7. ASSUME NEW r \in Requests,
             StoreRefused(r) \/ FindNothing(r) \/ RotateRefused(r) \/ SetRefused(r)
               \/ Mail(r) \/ Drop(r)
      PROVE  TypeOK'
  BY <1>7 DEF StoreRefused, FindNothing, RotateRefused, SetRefused, Mail, Drop
<1>8. ASSUME NEW r \in Requests, Find(r) PROVE TypeOK'
  <2>1. PICK t \in tokens :
          /\ job' = [job EXCEPT ![r] = [Blank EXCEPT !.user = t.user, !.row = t.id]]
          /\ Goto(r, "purge") \/ Goto(r, "sign")
    BY <1>8 DEF Find
  <2>2. [Blank EXCEPT !.user = t.user, !.row = t.id] \in Job
    <3>1. t.user \in Accounts /\ t.id \in Nat
      BY DEF Token, TokenIds
    <3>. QED
      BY <3>1, Jobs
  <2>3. pc' \in [Requests -> Steps] /\ job' \in [Requests -> Job]
    BY <2>1, <2>2
  <2>4. UNCHANGED <<db, now, held, caught, history>>
    BY <1>8 DEF Find
  <2>. QED
    BY <2>3, <2>4
<1>9. ASSUME NEW r \in Requests, Purge(r) PROVE TypeOK'
  BY <1>9 DEF Purge, RowsWith
<1>10. ASSUME NEW r \in Requests, Rotate(r) PROVE TypeOK'
  <2>1. \A i \in TokenIds : [exchanged EXCEPT ![i] = @ + 1] \in [TokenIds -> Nat]
    OBVIOUS
  <2>2. job[r].row \in TokenIds
    BY <1>10 DEF Rotate, RowsWith, Token
  <2>. QED
    BY <1>10, <2>1, <2>2 DEF Rotate, RowsWith
<1>11. ASSUME NEW s \in held, Logout(s) PROVE TypeOK'
  BY <1>11 DEF Logout
<1>12. ASSUME NEW r \in Requests, Discard(r) PROVE TypeOK'
  BY <1>12 DEF Discard
<1>13. ASSUME NEW r \in Requests, CreateLink(r) PROVE TypeOK'
  <2>1. lastLink' \in 0..MaxLinks /\ lastLink' \in LinkIds
    BY <1>13 DEF CreateLink, LinkIds
  <2>2. [id |-> lastLink', user |-> job[r].user, expires |-> now + ResetLifetime] \in Link
    BY <2>1 DEF Link, Job, Seconds
  <2>. QED
    BY <1>13, <2>1, <2>2 DEF CreateLink
<1>14. ASSUME NEW r \in Requests, ExpireLink(r) PROVE TypeOK'
  BY <1>14 DEF ExpireLink
<1>15. ASSUME NEW r \in Requests, SetPassword(r) PROVE TypeOK'
  <2>1. \A i \in LinkIds : [redeemed EXCEPT ![i] = @ + 1] \in [LinkIds -> Nat]
    OBVIOUS
  <2>2. job[r].row \in LinkIds
    BY <1>15 DEF SetPassword, LinkValid, LinkLeft, Link
  <2>3. tokens' \subseteq tokens
    BY <1>15 DEF SetPassword, Ended
  <2>4. survivors' \subseteq TokenIds
    BY <1>15, <2>3 DEF SetPassword, Token
  <2>5. users' = users /\ links' \subseteq links /\ redeemed' \in [LinkIds -> Nat]
    BY <1>15, <2>1, <2>2 DEF SetPassword
  <2>6. pc' \in [Requests -> Steps] /\ job' \in [Requests -> Job] /\ caught' \subseteq Requests
    BY <1>15 DEF SetPassword, Carrying
  <2>. QED
    BY <1>15, <2>3, <2>4, <2>5, <2>6 DEF SetPassword
<1>16. ASSUME Tick PROVE TypeOK'
  BY <1>16 DEF Tick, Seconds
<1>17. CASE UNCHANGED vars
  BY <1>17 DEF vars
<1>. QED
  BY <1>1, <1>2, <1>3, <1>4, <1>5, <1>6, <1>7, <1>8, <1>9, <1>10, <1>11, <1>12, <1>13,
     <1>14, <1>15, <1>16, <1>17
  DEF Next, Arrival, SignInStep, RefreshStep, ResetStep

\* No step reuses an id or turns the clock back.
Grows ==
  /\ now <= now' /\ lastToken <= lastToken' /\ lastLink <= lastLink'
  /\ \A t \in tokens' : t \in tokens \/ t.id > lastToken

\* So a handler that is not moved stays right.
LEMMA Unmoved ==
  ASSUME Inv, TypeOK', Grows, NEW x \in Requests, pc'[x] = pc[x], job'[x] = job[x]
  PROVE  HandlerOk(x)'
<1>1. HandlerOk(x) /\ job[x].row \in Nat /\ job[x].iat \in Nat
  BY DEF Inv, TypeOK, Job, Seconds
<1>2. now \in Nat /\ now' \in Nat /\ lastToken \in Nat /\ lastToken' \in Nat
      /\ lastLink \in Nat /\ lastLink' \in Nat
  BY BoundsAssumption DEF Inv, TypeOK, Seconds
<1>3. \A t \in tokens' : t.id \in Nat /\ t.expires \in Nat
  BY DEF TypeOK, Token, TokenIds
<1>4. job'[x].iat <= now'
  BY <1>1, <1>2 DEF HandlerOk, Grows
<1>5. pc'[x] \in {"rotate", "purge"} => job'[x].row \in 1..lastToken'
  BY <1>1, <1>2 DEF HandlerOk, Grows
<1>6. pc'[x] \in {"signup", "sign"} => job'[x].row \in 0..lastToken'
  BY <1>1, <1>2 DEF HandlerOk, Grows
<1>7. pc'[x] \in {"hash", "expire"} => job'[x].row \in 1..lastLink'
  BY <1>1, <1>2 DEF HandlerOk, Grows
<1>8. pc'[x] = "purge" => \A t \in tokens' : t.id = job'[x].row => t.expires <= now'
  BY <1>1, <1>2, <1>3 DEF HandlerOk, Grows
<1>. QED
  BY <1>4, <1>5, <1>6, <1>7, <1>8 DEF HandlerOk

\* A step that touches no row keeps what is true of the rows.
LEMMA Quiet ==
  ASSUME Inv, UNCHANGED <<tokens, links, lastToken, lastLink, now, held, history>>
  PROVE  Rows' /\ Grows
<1>1. now \in Int /\ lastToken \in Int /\ lastLink \in Int
  BY DEF Inv, TypeOK, Seconds
<1>2. Rows'
  BY DEF Inv, Rows, Distinct, TokenOk, LinkOk, Fresh, Held, TokensOnce, LinksOnce, SessionsKept, history
<1>. QED
  BY <1>1, <1>2 DEF Grows

\* The handler r is the only one a step moves.
OthersStay(r) == \A x \in Requests \ {r} : pc'[x] = pc[x] /\ job'[x] = job[x]

\* Then it is enough to look at it.
LEMMA Local ==
  ASSUME Inv, TypeOK', Rows', Grows, NEW r \in Requests, HandlerOk(r)', OthersStay(r)
  PROVE  Inv'
BY Unmoved DEF Inv, OthersStay

\* A handler that has ended holds nothing.
LEMMA Finished ==
  ASSUME Inv, TypeOK', Grows, NEW r \in Requests, Leave(r)
  PROVE  HandlerOk(r)' /\ OthersStay(r)
<1>1. OthersStay(r) /\ pc'[r] = "idle" /\ job'[r] = Blank
  BY DEF Inv, TypeOK, Leave, OthersStay
<1>2. 1 <= now'
  BY BoundsAssumption DEF TypeOK, Seconds
<1>. QED
  BY <1>1, <1>2, Jobs DEF HandlerOk

\* A handler that goes on.
LEMMA Moves ==
  ASSUME Inv, NEW r \in Requests, NEW step, NEW j
  PROVE  /\ Start(r, step, j) => OthersStay(r) /\ pc'[r] = step /\ job'[r] = j
         /\ Goto(r, step) /\ UNCHANGED job => OthersStay(r) /\ pc'[r] = step /\ job'[r] = job[r]
         /\ Goto(r, step) /\ job' = [job EXCEPT ![r] = j]
              => OthersStay(r) /\ pc'[r] = step /\ job'[r] = j
BY DEF Inv, TypeOK, Start, Goto, OthersStay

\* Every step keeps the invariant.
LEMMA InvStep == Inv /\ [Next]_vars => Inv'
<1> SUFFICES ASSUME Inv, [Next]_vars PROVE Inv'
  OBVIOUS
<1> USE DEF Finish
<1>0. TypeOK'
  BY TypeStep
<1>a. now \in Nat /\ lastToken \in Nat /\ lastLink \in Nat /\ Lifetime \in Nat
  BY BoundsAssumption, LifetimeAssumption DEF Inv, TypeOK, Seconds
<1>b. \A r \in Requests : HandlerOk(r)
  BY DEF Inv
<1>1. ASSUME NEW r \in Requests, NEW a \in Accounts,
             Login(r, a) \/ VerifyOtp(r, a) \/ ForgotPassword(r, a)
      PROVE  Inv'
  <2>1. PICK step \in {"sign", "signup", "discard"} : Start(r, step, [Blank EXCEPT !.user = a])
    BY <1>1 DEF Login, VerifyOtp, ForgotPassword
  <2>2. UNCHANGED <<db, now, held, history>>
    BY <1>1 DEF Login, VerifyOtp, ForgotPassword
  <2>3. Rows' /\ Grows
    BY <2>2, Quiet DEF db
  <2>4. OthersStay(r) /\ pc'[r] = step /\ job'[r] = [Blank EXCEPT !.user = a]
    BY <2>1, Moves
  <2>5. job'[r].iat = 1 /\ job'[r].row = 0
    BY <2>4, Jobs DEF Blank
  <2>6. HandlerOk(r)'
    BY <1>0, <1>a, <2>2, <2>4, <2>5, BoundsAssumption DEF HandlerOk, TypeOK, Seconds, db
  <2>. QED
    BY <1>0, <2>3, <2>4, <2>6, Local
<1>2. ASSUME NEW r \in Requests, NEW s \in held, Refresh(r, s) PROVE Inv'
  <2>1. UNCHANGED <<db, now, held, history>>
    BY <1>2 DEF Refresh
  <2>2. Rows' /\ Grows
    BY <2>1, Quiet DEF db
  <2>3. OthersStay(r) /\ pc'[r] = "find" /\ job'[r] = [Blank EXCEPT !.user = s[1], !.iat = s[2]]
    BY <1>2, Moves DEF Refresh
  <2>4. job'[r].iat = s[2] /\ s[2] <= now
    BY <2>3 DEF Blank, Inv, Rows, Held
  <2>5. HandlerOk(r)'
    BY <2>1, <2>3, <2>4 DEF HandlerOk
  <2>. QED
    BY <1>0, <2>2, <2>3, <2>5, Local
<1>3. ASSUME NEW r \in Requests, NEW l \in links, ResetPassword(r, l) PROVE Inv'
  <2>1. UNCHANGED <<db, now, held, history>>
    BY <1>3 DEF ResetPassword
  <2>2. Rows' /\ Grows
    BY <2>1, Quiet DEF db
  <2>3. PICK step \in {"expire", "hash"} :
          Start(r, step, [Blank EXCEPT !.user = l.user, !.row = l.id])
    BY <1>3 DEF ResetPassword
  <2>4. OthersStay(r) /\ pc'[r] = step /\ job'[r] = [Blank EXCEPT !.user = l.user, !.row = l.id]
    BY <2>3, Moves
  <2>5. job'[r].iat = 1 /\ job'[r].row = l.id
    BY <2>4 DEF Blank
  <2>6. l.id \in 1..lastLink
    BY <1>a DEF Inv, Rows, LinkOk, TypeOK, Link, LinkIds
  <2>7. HandlerOk(r)'
    BY <1>0, <2>1, <2>4, <2>5, <2>6, BoundsAssumption DEF HandlerOk, TypeOK, Seconds, db
  <2>. QED
    BY <1>0, <2>2, <2>4, <2>7, Local
<1>4. ASSUME NEW r \in Requests, SignUp(r) PROVE Inv'
  <2>1. Rows' /\ Grows
    BY <1>4, Quiet DEF SignUp
  <2>2. CASE Finish(r)
    BY <1>0, <2>1, <2>2, Finished, Local
  <2>3. CASE Goto(r, "sign") /\ UNCHANGED job
    <3>1. OthersStay(r) /\ pc'[r] = "sign" /\ job'[r] = job[r]
      BY <2>3, Moves
    <3>2. HandlerOk(r)'
      BY <1>4, <1>b, <3>1 DEF HandlerOk, SignUp
    <3>. QED
      BY <1>0, <2>1, <3>1, <3>2, Local
  <2>. QED
    BY <1>4, <2>2, <2>3 DEF SignUp
<1>5. ASSUME NEW r \in Requests, Sign(r) PROVE Inv'
  <2>1. UNCHANGED <<db, now, held, history>>
    BY <1>5 DEF Sign
  <2>2. Rows' /\ Grows
    BY <2>1, Quiet DEF db
  <2>3. PICK step \in {"rotate", "store"} :
          /\ Goto(r, step)
          /\ step = "rotate" => job[r].row # 0
    BY <1>5 DEF Sign
  <2>4. OthersStay(r) /\ pc'[r] = step /\ job'[r] = [job[r] EXCEPT !.iat = now]
    BY <1>5, <2>3, Moves DEF Sign
  <2>5. job'[r].iat = now /\ job'[r].row = job[r].row /\ job[r].row \in Nat
    BY <2>4 DEF Inv, TypeOK, Job
  <2>6. job[r].row \in 0..lastToken
    BY <1>5, <1>b DEF Sign, HandlerOk
  <2>7. HandlerOk(r)'
    BY <1>a, <2>1, <2>3, <2>4, <2>5, <2>6 DEF HandlerOk, db
  <2>. QED
    BY <1>0, <2>2, <2>4, <2>7, Local
<1>6. ASSUME NEW r \in Requests, Store(r) PROVE Inv'
  <2>1. NewToken(r).id = lastToken + 1 /\ NewToken(r).expires = now + Lifetime
        /\ NewToken(r).iat = job[r].iat /\ StringOf(NewToken(r)) = Signed(r)
    BY DEF NewToken, StringOf, Signed
  <2>2. job[r].iat <= now /\ job[r].iat \in Nat
    BY <1>b DEF HandlerOk, Inv, TypeOK, Job, Seconds
  <2>3. Grows
    BY <1>6, <1>a, <2>1 DEF Grows, Store
  <2>4. lastToken + 1 \in TokenIds /\ exchanged[lastToken + 1] = 0
    BY <1>6, <1>a, BoundsAssumption DEF Store, TokenIds, Inv, Rows, Fresh
  <2>5. \A t \in tokens' : TokenOk(t)'
    <3> SUFFICES ASSUME NEW t \in tokens' PROVE TokenOk(t)'
      OBVIOUS
    <3>1. CASE t \in tokens
      <4>1. TokenOk(t) /\ t.id \in Nat
        BY <3>1 DEF Inv, Rows, TypeOK, Token, TokenIds
      <4>. QED
        BY <1>6, <1>a, <4>1 DEF Store, TokenOk
    <3>2. CASE t = NewToken(r)
      <4>1. t.id = lastToken + 1 /\ t.iat + Lifetime <= t.expires
        BY <1>a, <2>1, <2>2, <3>2
      <4>. QED
        BY <1>6, <1>a, <2>4, <4>1 DEF Store, TokenOk
    <3>. QED
      BY <1>6, <3>1, <3>2 DEF Store
  <2>6. \A l \in links' : LinkOk(l)'
    BY <1>6 DEF Store, Inv, Rows, LinkOk
  <2>7. Fresh'
    BY <1>6, <1>a DEF Store, Inv, Rows, Fresh, TokenIds
  <2>8. Held'
    BY <1>6, <2>2 DEF Store, Inv, Rows, Held, Signed
  <2>9. TokensOnce' /\ LinksOnce'
    BY <1>6 DEF Store, Inv, Rows, TokensOnce, LinksOnce
  <2>10. SessionsKept'
    BY <1>6, <2>1 DEF Store, Inv, Rows, SessionsKept
  <2>12. Distinct'
    <3>1. \A t \in tokens : t.id # lastToken + 1
      BY <1>a DEF Inv, Rows, TokenOk, TypeOK, Token, TokenIds
    <3>. QED
      BY <1>6, <2>1, <3>1 DEF Store, Inv, Rows, Distinct
  <2>11. HandlerOk(r)' /\ OthersStay(r)
    BY <1>6, <1>0, <2>3, Finished DEF Store
  <2>. QED
    BY <1>0, <2>3, <2>12, <2>5, <2>6, <2>7, <2>8, <2>9, <2>10, <2>11, Local DEF Rows
<1>7. ASSUME NEW r \in Requests,
             StoreRefused(r) \/ FindNothing(r) \/ RotateRefused(r) \/ SetRefused(r)
               \/ Mail(r) \/ Drop(r)
      PROVE  Inv'
  <2>1. Finish(r) /\ UNCHANGED <<db, now, held, history>>
    BY <1>7 DEF StoreRefused, FindNothing, RotateRefused, SetRefused, Mail, Drop
  <2>. QED
    BY <1>0, <2>1, Quiet, Finished, Local DEF db
<1>8. ASSUME NEW r \in Requests, Find(r) PROVE Inv'
  <2>1. UNCHANGED <<db, now, held, history>>
    BY <1>8 DEF Find
  <2>2. Rows' /\ Grows
    BY <2>1, Quiet DEF db
  <2>3. PICK t \in tokens, step \in {"purge", "sign"} :
          /\ job' = [job EXCEPT ![r] = [Blank EXCEPT !.user = t.user, !.row = t.id]]
          /\ Goto(r, step)
          /\ step = "purge" => PerhapsPast(t.expires)
    BY <1>8 DEF Find
  <2>4. OthersStay(r) /\ pc'[r] = step /\ job'[r] = [Blank EXCEPT !.user = t.user, !.row = t.id]
    BY <2>3, Moves
  <2>5. job'[r].iat = 1 /\ job'[r].row = t.id
    BY <2>4 DEF Blank
  <2>6. t.id \in 1..lastToken /\ t.expires \in Nat
    BY <1>a DEF Inv, Rows, TokenOk, TypeOK, Token, TokenIds
  <2>7. step = "purge" => \A u \in tokens : u.id = t.id => u.expires <= now
    <3>1. \A u \in tokens : u.id = t.id => u = t
      BY DEF Inv, Rows, Distinct
    <3>. QED
      BY <1>a, <2>3, <2>6, <3>1 DEF PerhapsPast
  <2>8. 1 <= now
    BY BoundsAssumption DEF Inv, TypeOK, Seconds
  <2>9. HandlerOk(r)'
    BY <1>a, <2>1, <2>4, <2>5, <2>6, <2>7, <2>8 DEF HandlerOk, db
  <2>. QED
    BY <1>0, <2>2, <2>4, <2>9, Local
<1>9. ASSUME NEW r \in Requests, Purge(r) PROVE Inv'
  <2>1. tokens' \subseteq tokens
    BY <1>9 DEF Purge
  <2>2. Grows
    BY <1>9, <1>a, <2>1 DEF Purge, Grows
  <2>3. SessionsKept'
    <3> SUFFICES ASSUME NEW s \in live, now < s[2] + Lifetime
                 PROVE  \E t \in tokens' : StringOf(t) = s
      BY <1>9 DEF Purge, SessionsKept, history
    <3>1. PICK t \in tokens : StringOf(t) = s
      BY DEF Inv, Rows, SessionsKept
    <3>2. t.iat + Lifetime <= t.expires /\ t.iat = s[2] /\ t.iat \in Nat /\ t.expires \in Nat
      BY <3>1 DEF Inv, Rows, TokenOk, TypeOK, Token, Seconds, StringOf
    <3>3. t.id # job[r].row
      BY <1>9, <1>a, <1>b, <3>2 DEF Purge, HandlerOk
    <3>. QED
      BY <1>9, <3>1, <3>3 DEF Purge, RowsWith
  <2>4. Rows'
    BY <1>9, <2>1, <2>3
    DEF Purge, Inv, Rows, Distinct, TokenOk, LinkOk, Fresh, Held, TokensOnce, LinksOnce, history
  <2>. QED
    BY <1>9, <1>0, <2>2, <2>4, Finished, Local DEF Purge
<1>10. ASSUME NEW r \in Requests, Rotate(r) PROVE Inv'
  <2>1. tokens' \subseteq tokens /\ \A t \in tokens' : t.id # job[r].row
    BY <1>10 DEF Rotate, RowsWith
  <2>2. Grows
    BY <1>10, <1>a, <2>1 DEF Rotate, Grows
  <2>3. PICK u \in tokens : u.id = job[r].row
    BY <1>10 DEF Rotate, RowsWith
  <2>4. u.id \in TokenIds /\ u.id <= lastToken /\ exchanged[u.id] = 0 /\ u.id \in Nat
    BY <2>3 DEF Inv, Rows, TokenOk, TypeOK, Token, TokenIds
  <2>5. exchanged' = [exchanged EXCEPT ![u.id] = 1]
    BY <1>10, <2>3, <2>4 DEF Rotate
  <2>6. \A i \in TokenIds : exchanged'[i] = IF i = u.id THEN 1 ELSE exchanged[i]
    BY <2>5 DEF Inv, TypeOK
  <2>7. \A t \in tokens' : TokenOk(t)'
    <3>1. \A t \in tokens' : TokenOk(t) /\ t.id \in TokenIds /\ t.id # u.id
      BY <2>1, <2>3 DEF Inv, Rows, TypeOK, Token
    <3>. QED
      BY <1>10, <2>6, <3>1 DEF Rotate, TokenOk
  <2>8. Fresh' /\ TokensOnce'
    BY <1>10, <1>a, <2>4, <2>6 DEF Rotate, Inv, Rows, Fresh, TokensOnce, TokenIds
  <2>9. Distinct' /\ (\A l \in links' : LinkOk(l)') /\ Held' /\ LinksOnce'
    BY <1>10, <2>1 DEF Rotate, Inv, Rows, Distinct, LinkOk, Held, LinksOnce
  <2>10. SessionsKept'
    BY <1>10 DEF Rotate, RowsWith, Inv, Rows, SessionsKept
  <2>11. OthersStay(r) /\ pc'[r] = "store" /\ job'[r] = job[r]
    BY <1>10, Moves DEF Rotate
  <2>12. HandlerOk(r)'
    BY <1>10, <1>b, <2>11 DEF Rotate, HandlerOk
  <2>. QED
    BY <1>0, <2>2, <2>7, <2>8, <2>9, <2>10, <2>11, <2>12, Local DEF Rows
<1>11. ASSUME NEW s \in held, Logout(s) PROVE Inv'
  <2>1. tokens' \subseteq tokens
    BY <1>11 DEF Logout
  <2>2. Grows
    BY <1>11, <1>a, <2>1 DEF Logout, Grows
  <2>3. SessionsKept'
    BY <1>11 DEF Logout, Inv, Rows, SessionsKept
  <2>4. Rows'
    BY <1>11, <2>1, <2>3
    DEF Logout, Inv, Rows, Distinct, TokenOk, LinkOk, Fresh, Held, TokensOnce, LinksOnce
  <2>5. \A r \in Requests : HandlerOk(r)'
    BY <1>11, <1>0, <2>2, Unmoved DEF Logout, handler
  <2>. QED
    BY <1>0, <2>4, <2>5 DEF Inv
<1>12. ASSUME NEW r \in Requests, Discard(r) PROVE Inv'
  <2>1. Grows
    BY <1>12, <1>a DEF Discard, Grows
  <2>2. Rows'
    BY <1>12
    DEF Discard, Inv, Rows, Distinct, TokenOk, LinkOk, Fresh, Held, TokensOnce, LinksOnce,
        SessionsKept, history
  <2>3. OthersStay(r) /\ pc'[r] = "link" /\ job'[r] = job[r]
    BY <1>12, Moves DEF Discard
  <2>4. HandlerOk(r)'
    BY <1>12, <1>b, <2>3 DEF Discard, HandlerOk
  <2>. QED
    BY <1>0, <2>1, <2>2, <2>3, <2>4, Local
<1>13. ASSUME NEW r \in Requests, CreateLink(r) PROVE Inv'
  <2>1. Grows
    BY <1>13, <1>a DEF CreateLink, Grows
  <2>2. \A l \in links' : LinkOk(l)'
    <3>1. lastLink + 1 \in LinkIds /\ redeemed[lastLink + 1] = 0
      BY <1>13, <1>a, BoundsAssumption DEF CreateLink, LinkIds, Inv, Rows, Fresh
    <3>2. \A l \in links : LinkOk(l) /\ l.id \in Nat
      BY DEF Inv, Rows, TypeOK, Link, LinkIds
    <3>. QED
      BY <1>13, <1>a, <3>1, <3>2 DEF CreateLink, LinkOk, history
  <2>3. Rows'
    BY <1>13, <1>a, <2>2
    DEF CreateLink, Inv, Rows, Distinct, TokenOk, Fresh, LinkIds, Held, TokensOnce, LinksOnce,
        SessionsKept, history
  <2>4. OthersStay(r) /\ pc'[r] = "mail" /\ job'[r] = job[r]
    BY <1>13, Moves DEF CreateLink
  <2>5. HandlerOk(r)'
    BY <1>13, <1>b, <2>4 DEF CreateLink, HandlerOk
  <2>. QED
    BY <1>0, <2>1, <2>3, <2>4, <2>5, Local
<1>14. ASSUME NEW r \in Requests, ExpireLink(r) PROVE Inv'
  <2>1. Grows
    BY <1>14, <1>a DEF ExpireLink, Grows
  <2>2. Rows'
    BY <1>14
    DEF ExpireLink, Inv, Rows, Distinct, TokenOk, LinkOk, Fresh, Held, TokensOnce, LinksOnce,
        SessionsKept, history
  <2>. QED
    BY <1>14, <1>0, <2>1, <2>2, Finished, Local DEF ExpireLink
<1>15. ASSUME NEW r \in Requests, SetPassword(r) PROVE Inv'
  <2>1. Grows
    BY <1>15, <1>a DEF SetPassword, Grows
  <2>2. PICK l \in links : l.id = job[r].row
    BY <1>15 DEF SetPassword, LinkValid, LinkLeft
  <2>3. l.id \in LinkIds /\ l.id <= lastLink /\ redeemed[l.id] = 0 /\ l.id \in Nat
    BY <2>2 DEF Inv, Rows, LinkOk, TypeOK, Link, LinkIds
  <2>4. redeemed' = [redeemed EXCEPT ![l.id] = 1]
    BY <1>15, <2>2, <2>3 DEF SetPassword
  <2>5. \A i \in LinkIds : redeemed'[i] = IF i = l.id THEN 1 ELSE redeemed[i]
    BY <2>4 DEF Inv, TypeOK
  <2>6. \A k \in links' : LinkOk(k)'
    <3>1. \A k \in links' : LinkOk(k) /\ k.id \in LinkIds /\ k.id # l.id
      BY <1>15, <2>2 DEF SetPassword, LinkLeft, Inv, Rows, TypeOK, Link
    <3>. QED
      BY <1>15, <2>5, <3>1 DEF SetPassword, LinkOk
  <2>7. Fresh' /\ LinksOnce'
    BY <1>15, <1>a, <2>3, <2>5 DEF SetPassword, Inv, Rows, Fresh, LinksOnce, LinkIds
  <2>8. SessionsKept'
    BY <1>15 DEF SetPassword, Ended, Inv, Rows, SessionsKept, StringOf
  <2>9. Distinct' /\ (\A t \in tokens' : TokenOk(t)') /\ Held' /\ TokensOnce'
    BY <1>15 DEF SetPassword, Inv, Rows, Distinct, TokenOk, Held, TokensOnce
  <2>. QED
    BY <1>15, <1>0, <2>1, <2>6, <2>7, <2>8, <2>9, Finished, Local DEF SetPassword, Rows
<1>16. ASSUME Tick PROVE Inv'
  <2>1. now' = now + 1 /\ UNCHANGED <<db, handler, held, history>>
    BY <1>16 DEF Tick
  <2>2. Grows
    BY <1>a, <2>1 DEF Grows, db
  <2>3. \A s \in held : s[2] \in Nat
    BY DEF Inv, TypeOK, String, Seconds
  <2>4. Held' /\ SessionsKept'
    BY <1>a, <2>1, <2>3 DEF Inv, TypeOK, Rows, Held, SessionsKept, db, history
  <2>5. Rows'
    BY <2>1, <2>4
    DEF Inv, Rows, Distinct, TokenOk, LinkOk, Fresh, TokensOnce, LinksOnce, db, history
  <2>6. \A r \in Requests : HandlerOk(r)'
    BY <1>0, <2>1, <2>2, Unmoved DEF handler
  <2>. QED
    BY <1>0, <2>5, <2>6 DEF Inv
<1>17. CASE UNCHANGED vars
  <2>1. Rows' /\ Grows
    BY <1>17, Quiet DEF vars, db
  <2>2. \A r \in Requests : HandlerOk(r)'
    BY <1>0, <1>17, <2>1, Unmoved DEF vars, handler
  <2>. QED
    BY <1>0, <2>1, <2>2 DEF Inv
<1>. QED
  BY <1>1, <1>2, <1>3, <1>4, <1>5, <1>6, <1>7, <1>8, <1>9, <1>10, <1>11, <1>12, <1>13,
     <1>14, <1>15, <1>16, <1>17
  DEF Next, Arrival, SignInStep, RefreshStep, ResetStep

-----------------------------------------------------------------------------
(* The number of links.                                                     *)

\* Requests that have discarded the links of an account and not yet made theirs.
Linking(a) == {r \in Requests : pc[r] = "link" /\ job[r].user = a}

\* Each of them will add one.
Counted(a) ==
  /\ IsFiniteSet(LinksOf(a))
  /\ Cardinality(LinksOf(a)) + Cardinality(Linking(a)) <= Cardinality(Requests)

LinksCounted == \A a \in Accounts : Counted(a)

\* No link and no request about to create one is new.
Calm ==
  /\ links' \subseteq links
  /\ \A r \in Requests : pc'[r] = "link" => pc[r] = "link" /\ job'[r] = job[r]

\* Sets of requests are finite, and no larger than all of them.
LEMMA RequestsFinite ==
  /\ Cardinality(Requests) \in Nat
  /\ \A S \in SUBSET Requests :
       IsFiniteSet(S) /\ Cardinality(S) \in Nat /\ Cardinality(S) <= Cardinality(Requests)
BY BoundsAssumption, FS_CardinalityType, FS_Subset

\* A calm step keeps the count.
LEMMA CalmCounted ==
  ASSUME LinksCounted, Calm, NEW a \in Accounts
  PROVE  Counted(a)'
<1>1. LinksOf(a)' \subseteq LinksOf(a) /\ Linking(a)' \subseteq Linking(a)
  BY DEF Calm, LinksOf, Linking
<1>2. IsFiniteSet(LinksOf(a)) /\ IsFiniteSet(Linking(a))
  BY RequestsFinite DEF LinksCounted, Counted, Linking
<1>3. /\ IsFiniteSet(LinksOf(a)')
      /\ Cardinality(LinksOf(a)') <= Cardinality(LinksOf(a))
      /\ Cardinality(Linking(a)') <= Cardinality(Linking(a))
  BY <1>1, <1>2, FS_Subset
<1>4. /\ Cardinality(LinksOf(a)) \in Nat /\ Cardinality(Linking(a)) \in Nat
      /\ Cardinality(LinksOf(a)') \in Nat /\ Cardinality(Linking(a)') \in Nat
  BY <1>1, <1>2, <1>3, FS_Subset, FS_CardinalityType
<1>. QED
  BY <1>3, <1>4, RequestsFinite DEF LinksCounted, Counted

\* All steps but two are calm.
LEMMA MostAreCalm ==
  Inv /\ [Next]_vars => Calm \/ \E r \in Requests : Discard(r) \/ CreateLink(r)
<1> SUFFICES ASSUME Inv, [Next]_vars, ~\E r \in Requests : Discard(r) \/ CreateLink(r)
             PROVE  Calm
  OBVIOUS
<1>1. ASSUME NEW r \in Requests, OthersStay(r), pc'[r] # "link", links' \subseteq links
      PROVE  Calm
  BY <1>1 DEF Calm, OthersStay
<1>2. ASSUME NEW r \in Requests, Leave(r) PROVE OthersStay(r) /\ pc'[r] # "link"
  BY <1>2 DEF Leave, OthersStay, Inv, TypeOK
<1>3. ASSUME NEW r \in Requests, Arrival(r) PROVE Calm
  <2>1. PICK step \in Steps \ {"link"}, j \in {job'[r]} : Start(r, step, j)
    BY <1>3 DEF Arrival, Login, VerifyOtp, ForgotPassword, Refresh, ResetPassword, Steps, Start, Inv, TypeOK
  <2>2. links' = links
    BY <1>3 DEF Arrival, Login, VerifyOtp, ForgotPassword, Refresh, ResetPassword, db
  <2>. QED
    BY <1>1, <2>1, <2>2, Moves
<1>4. ASSUME NEW r \in Requests, SignUp(r) \/ Sign(r) \/ Find(r) \/ Rotate(r) PROVE Calm
  <2>1. OthersStay(r)
    BY <1>4 DEF SignUp, Sign, Find, Rotate, Goto, Finish, Leave, OthersStay, Inv, TypeOK
  <2>2. pc'[r] # "link" /\ links' = links
    BY <1>4 DEF SignUp, Sign, Find, Rotate, Goto, Finish, Leave, db, Inv, TypeOK
  <2>. QED
    BY <1>1, <2>1, <2>2
<1>5. ASSUME NEW r \in Requests,
             \/ Store(r) \/ StoreRefused(r) \/ FindNothing(r) \/ Purge(r) \/ RotateRefused(r)
             \/ Mail(r) \/ ExpireLink(r) \/ SetPassword(r) \/ SetRefused(r) \/ Drop(r)
      PROVE  Calm
  <2>1. Leave(r) /\ links' \subseteq links
    BY <1>5
    DEF Finish, Store, StoreRefused, FindNothing, Purge, RotateRefused, Mail, ExpireLink, SetPassword,
        SetRefused, Drop, db
  <2>. QED
    BY <1>1, <1>2, <2>1
<1>6. CASE Tick \/ (\E s \in held : Logout(s)) \/ UNCHANGED vars
  BY <1>6 DEF Tick, Logout, vars, db, handler, Calm
<1>. QED
  BY <1>3, <1>4, <1>5, <1>6 DEF Next, SignInStep, RefreshStep, ResetStep

\* The other two keep the count too: who discards leaves no link, and who
\* creates one is not about to any more.
LEMMA CountStep == Inv /\ LinksCounted /\ [Next]_vars => LinksCounted'
<1> SUFFICES ASSUME Inv, LinksCounted, [Next]_vars, NEW a \in Accounts
             PROVE  Counted(a)'
  BY DEF LinksCounted
<1>1. CASE Calm
  BY <1>1, CalmCounted
<1>2. ASSUME NEW r \in Requests, Discard(r), job[r].user = a
      PROVE  Counted(a)'
  <2>1. LinksOf(a)' = {}
    BY <1>2 DEF Discard, LinksOf
  <2>2. Linking(a)' \in SUBSET Requests
    BY DEF Linking
  <2>. QED
    BY <2>1, <2>2, FS_EmptySet, RequestsFinite DEF Counted
<1>3. ASSUME NEW r \in Requests, CreateLink(r), job[r].user = a
      PROVE  Counted(a)'
  <2>1. PICK l : LinksOf(a)' = LinksOf(a) \cup {l}
    <3>1. LinksOf(a)' = LinksOf(a) \cup {[id |-> lastLink + 1, user |-> a, expires |-> now + ResetLifetime]}
      BY <1>3 DEF CreateLink, LinksOf
    <3>. QED
      BY <3>1
  <2>2. Linking(a)' = Linking(a) \ {r} /\ r \in Linking(a)
    BY <1>3 DEF CreateLink, Linking, Goto, Inv, TypeOK
  <2>3. IsFiniteSet(LinksOf(a)) /\ Cardinality(LinksOf(a)) \in Nat
    BY FS_CardinalityType DEF LinksCounted, Counted
  <2>4. IsFiniteSet(Linking(a)) /\ Cardinality(Linking(a)) \in Nat
    BY RequestsFinite DEF Linking
  <2>5. IsFiniteSet(LinksOf(a)') /\ Cardinality(LinksOf(a)') \in Nat
        /\ Cardinality(LinksOf(a)') <= Cardinality(LinksOf(a)) + 1
    <3> DEFINE More == LinksOf(a) \cup {l}
    <3>1. IsFiniteSet(More) /\ Cardinality(More) \in {Cardinality(LinksOf(a)), Cardinality(LinksOf(a)) + 1}
      BY <2>3, FS_AddElement
    <3>2. Cardinality(More) <= Cardinality(LinksOf(a)) + 1 /\ Cardinality(More) \in Nat
      BY <2>3, <3>1
    <3>. QED
      BY <2>1, <3>1, <3>2
  <2>6. Cardinality(Linking(a)') = Cardinality(Linking(a)) - 1
    BY <2>2, <2>4, FS_RemoveElement
  <2>. QED
    BY <2>3, <2>4, <2>5, <2>6, RequestsFinite DEF LinksCounted, Counted
<1>4. ASSUME NEW r \in Requests, Discard(r) \/ CreateLink(r), job[r].user # a
      PROVE  Counted(a)'
  <2>1. LinksOf(a)' = LinksOf(a)
    BY <1>4 DEF Discard, CreateLink, LinksOf
  <2>2. Linking(a)' = Linking(a)
    BY <1>4 DEF Discard, CreateLink, Linking, Goto, Inv, TypeOK
  <2>. QED
    BY <2>1, <2>2 DEF LinksCounted, Counted
<1>. QED
  BY <1>1, <1>2, <1>3, <1>4, MostAreCalm

-----------------------------------------------------------------------------
(* The sessions that outlive a reset.                                       *)

\* A token that is about to be rotated belongs to the account that was read with it.
Owns(r) ==
  pc[r] \in {"signup", "sign", "rotate"} =>
    \A t \in tokens : t.id = job[r].row => t.user = job[r].user

\* A request with a session in hand stores it next, or once it has signed it.
Awaits(r) == pc[r] = "store" \/ (pc[r] = "sign" /\ job[r].row = 0)

\* The histories speak of requests that will store, and of ids given out.
Outlived ==
  /\ \A r \in Requests : Owns(r)
  /\ \A r \in caught : Awaits(r)
  /\ \A i \in survivors : i <= lastToken

\* No step but Store adds a token.
LEMMA Tokens ==
  Inv /\ [Next]_vars => Grows /\ (tokens' \subseteq tokens \/ \E r \in Requests : Store(r))
<1> SUFFICES ASSUME Inv, [Next]_vars
             PROVE  Grows /\ (tokens' \subseteq tokens \/ \E r \in Requests : Store(r))
  OBVIOUS
<1>1. now \in Nat /\ lastToken \in Nat /\ lastLink \in Nat
  BY BoundsAssumption DEF Inv, TypeOK, Seconds
<1>2. ASSUME NEW r \in Requests, Store(r) PROVE Grows
  BY <1>1, <1>2 DEF Store, NewToken, Grows
<1>3. ASSUME tokens' \subseteq tokens, now' \in {now, now + 1}, lastToken' = lastToken,
             lastLink' \in {lastLink, lastLink + 1}
      PROVE  Grows
  BY <1>1, <1>3 DEF Grows
<1>4. ASSUME NEW r \in Requests, Arrival(r)
      PROVE  UNCHANGED <<db, now>>
  BY <1>4 DEF Arrival, Login, VerifyOtp, ForgotPassword, Refresh, ResetPassword
<1>5. ASSUME NEW r \in Requests, SignInStep(r) \/ Drop(r), ~Store(r)
      PROVE  UNCHANGED <<tokens, lastToken, lastLink, now>>
  BY <1>5 DEF SignInStep, SignUp, Sign, StoreRefused, Drop, db
<1>6. ASSUME NEW r \in Requests, RefreshStep(r)
      PROVE  tokens' \subseteq tokens /\ UNCHANGED <<lastToken, lastLink, now>>
  BY <1>6 DEF RefreshStep, Find, FindNothing, Purge, Rotate, RotateRefused, db
<1>7. ASSUME NEW r \in Requests, ResetStep(r)
      PROVE  /\ tokens' \subseteq tokens /\ UNCHANGED <<lastToken, now>>
             /\ lastLink' \in {lastLink, lastLink + 1}
  BY <1>7 DEF ResetStep, Discard, CreateLink, Mail, ExpireLink, SetPassword, SetRefused, db
<1>8. CASE Tick \/ (\E s \in held : Logout(s)) \/ UNCHANGED vars
  <2>1. tokens' \subseteq tokens /\ lastToken' = lastToken /\ lastLink' = lastLink
        /\ now' \in {now, now + 1}
    BY <1>8 DEF Tick, Logout, vars, db
  <2>. QED
    BY <1>3, <2>1
<1>. QED
  BY <1>2, <1>3, <1>4, <1>5, <1>6, <1>7, <1>8 DEF Next, db

\* What a handler owns it owns until it moves.
LEMMA StillOwns ==
  ASSUME Inv, Outlived, Grows, NEW x \in Requests, pc'[x] = pc[x], job'[x] = job[x]
  PROVE  Owns(x)'
<1>1. pc[x] \in {"signup", "sign", "rotate"} => job[x].row \in Nat /\ job[x].row <= lastToken
  BY DEF Inv, HandlerOk, TypeOK
<1>2. \A t \in tokens' : t \in tokens \/ t.id > lastToken
  BY DEF Grows
<1>3. lastToken \in Nat
  BY DEF Inv, TypeOK
<1>. QED
  BY <1>1, <1>2, <1>3 DEF Outlived, Owns

\* Every step keeps the histories sound.
LEMMA OutlivedStep == Inv /\ Outlived /\ [Next]_vars => Outlived'
<1> SUFFICES ASSUME Inv, Outlived, [Next]_vars PROVE Outlived'
  OBVIOUS
<1>a. Grows
  BY Tokens
<1>b. /\ lastToken \in Nat /\ pc \in [Requests -> Steps] /\ job \in [Requests -> Job]
      /\ \A t \in tokens : t.id \in Nat \ {0} /\ t.id <= lastToken
      /\ caught \subseteq Requests
      /\ \A r \in caught : Awaits(r)
      /\ \A i \in survivors : i <= lastToken /\ i \in Nat
  BY DEF Inv, TypeOK, Rows, TokenOk, Token, TokenIds, Outlived
<1>1. ASSUME NEW r \in Requests, OthersStay(r), Owns(r)', UNCHANGED <<lastToken, survivors>>,
             caught' \subseteq caught \cup {r}, r \in caught' => Awaits(r)'
      PROVE  Outlived'
  <2>1. \A x \in Requests : Owns(x)'
    BY <1>1, <1>a, StillOwns DEF OthersStay
  <2>2. \A x \in caught' : Awaits(x)'
    BY <1>1, <1>b DEF OthersStay, Awaits
  <2>. QED
    BY <1>1, <1>b, <2>1, <2>2 DEF Outlived
<1>2. ASSUME NEW r \in Requests, Leave(r)
      PROVE  OthersStay(r) /\ pc'[r] = "idle" /\ Owns(r)'
  BY <1>2, <1>b DEF Leave, OthersStay, Owns
<1>3. ASSUME NEW r \in Requests, NEW a \in Accounts,
             Login(r, a) \/ VerifyOtp(r, a) \/ ForgotPassword(r, a)
      PROVE  Outlived'
  <2>1. PICK step \in {"sign", "signup", "discard"} : Start(r, step, [Blank EXCEPT !.user = a])
    BY <1>3 DEF Login, VerifyOtp, ForgotPassword
  <2>2. OthersStay(r) /\ job'[r] = [Blank EXCEPT !.user = a]
    BY <2>1, Moves
  <2>3. job'[r].row = 0
    BY <2>2 DEF Blank
  <2>4. UNCHANGED <<tokens, lastToken, survivors, caught>> /\ pc[r] = "idle"
    BY <1>3 DEF Login, VerifyOtp, ForgotPassword, Start, db, history
  <2>5. Owns(r)'
    BY <1>b, <2>3, <2>4 DEF Owns
  <2>6. r \notin caught'
    BY <1>b, <2>4 DEF Awaits
  <2>. QED
    BY <1>1, <2>2, <2>4, <2>5, <2>6
<1>4. ASSUME NEW r \in Requests,
             (\E s \in held : Refresh(r, s)) \/ (\E l \in links : ResetPassword(r, l))
      PROVE  Outlived'
  <2>1. PICK step \in {"find", "expire", "hash"}, j \in {job'[r]} : Start(r, step, j)
    BY <1>4, <1>b DEF Refresh, ResetPassword, Start
  <2>2. OthersStay(r) /\ pc'[r] = step
    BY <2>1, Moves
  <2>3. UNCHANGED <<lastToken, survivors, caught>> /\ pc[r] = "idle"
    BY <1>4 DEF Refresh, ResetPassword, Start, db, history
  <2>4. Owns(r)'
    BY <2>2 DEF Owns
  <2>5. r \notin caught'
    BY <1>b, <2>3 DEF Awaits
  <2>. QED
    BY <1>1, <2>2, <2>3, <2>4, <2>5
<1>5. ASSUME NEW r \in Requests,
             \/ StoreRefused(r) \/ FindNothing(r) \/ Purge(r) \/ RotateRefused(r)
             \/ Mail(r) \/ ExpireLink(r) \/ SetRefused(r) \/ Drop(r)
      PROVE  Outlived'
  <2>1. Leave(r) /\ caught' = caught \ {r} /\ UNCHANGED <<lastToken, survivors>>
    BY <1>5
    DEF Finish, StoreRefused, FindNothing, Purge, RotateRefused, Mail, ExpireLink, SetRefused, Drop,
        db, history
  <2>. QED
    BY <1>1, <1>2, <2>1
<1>6. ASSUME NEW r \in Requests, SignUp(r) PROVE Outlived'
  <2>1. UNCHANGED <<tokens, lastToken, survivors>> /\ pc[r] = "signup"
    BY <1>6 DEF SignUp, history
  <2>2. CASE Finish(r)
    BY <1>1, <1>2, <2>1, <2>2 DEF Finish
  <2>3. CASE Goto(r, "sign") /\ UNCHANGED <<job, caught>>
    <3>1. OthersStay(r) /\ pc'[r] = "sign" /\ job'[r] = job[r]
      BY <2>3, Moves
    <3>2. Owns(r)'
      BY <2>1, <3>1 DEF Outlived, Owns
    <3>3. r \notin caught'
      BY <1>b, <2>1, <2>3 DEF Awaits
    <3>. QED
      BY <1>1, <2>1, <2>3, <3>1, <3>2, <3>3
  <2>. QED
    BY <1>6, <2>2, <2>3 DEF SignUp
<1>7. ASSUME NEW r \in Requests, Sign(r) PROVE Outlived'
  <2>1. UNCHANGED <<tokens, lastToken, survivors, caught>> /\ pc[r] = "sign"
    BY <1>7 DEF Sign, db, history
  <2>2. OthersStay(r) /\ job'[r] = [job[r] EXCEPT !.iat = now]
    BY <1>7, <1>b DEF Sign, Goto, OthersStay
  <2>3. job'[r].user = job[r].user /\ job'[r].row = job[r].row
    BY <1>b, <2>2 DEF Job
  <2>4. Owns(r)'
    BY <2>1, <2>3 DEF Outlived, Owns
  <2>5. r \in caught => pc'[r] = "store"
    BY <1>7, <1>b, <2>1 DEF Sign, Goto, Awaits
  <2>. QED
    BY <1>1, <2>1, <2>2, <2>4, <2>5 DEF Awaits
<1>8. ASSUME NEW r \in Requests, Find(r) PROVE Outlived'
  <2>1. UNCHANGED <<tokens, lastToken, survivors, caught>> /\ pc[r] = "find"
    BY <1>8 DEF Find, db, history
  <2>2. PICK t \in tokens : job'[r] = [Blank EXCEPT !.user = t.user, !.row = t.id]
    BY <1>8, <1>b DEF Find
  <2>3. OthersStay(r)
    BY <1>8, <1>b DEF Find, Goto, OthersStay
  <2>4. job'[r].user = t.user /\ job'[r].row = t.id
    BY <2>2 DEF Blank
  <2>5. Owns(r)'
    BY <2>1, <2>4 DEF Owns, Inv, Rows, Distinct
  <2>6. r \notin caught'
    BY <1>b, <2>1 DEF Awaits
  <2>. QED
    BY <1>1, <2>1, <2>3, <2>5, <2>6
<1>9. ASSUME NEW r \in Requests, Store(r) PROVE Outlived'
  <2>1. Leave(r) /\ caught' = caught \ {r} /\ lastToken' = lastToken + 1
    BY <1>9 DEF Store, Finish
  <2>2. survivors' \subseteq survivors \cup {lastToken + 1}
    BY <1>9 DEF Store
  <2>3. OthersStay(r) /\ Owns(r)'
    BY <1>2, <2>1
  <2>4. \A x \in Requests : Owns(x)'
    BY <1>a, <2>3, StillOwns DEF OthersStay
  <2>5. \A x \in caught' : Awaits(x)'
    BY <1>b, <2>1, <2>3 DEF OthersStay, Awaits
  <2>6. \A i \in survivors' : i <= lastToken'
    BY <1>b, <2>1, <2>2
  <2>. QED
    BY <2>4, <2>5, <2>6 DEF Outlived
<1>10. ASSUME NEW r \in Requests, Rotate(r) PROVE Outlived'
  <2>1. UNCHANGED <<lastToken, survivors, job>> /\ caught' \subseteq caught \cup {r}
    BY <1>10 DEF Rotate
  <2>2. OthersStay(r) /\ pc'[r] = "store"
    BY <1>10, Moves DEF Rotate
  <2>3. Owns(r)' /\ Awaits(r)'
    BY <2>2 DEF Owns, Awaits
  <2>. QED
    BY <1>1, <2>1, <2>2, <2>3
<1>11. ASSUME NEW r \in Requests, Discard(r) \/ CreateLink(r) PROVE Outlived'
  <2>1. UNCHANGED <<lastToken, survivors, caught, job>> /\ pc[r] \in {"discard", "link"}
    BY <1>11 DEF Discard, CreateLink, history
  <2>2. OthersStay(r) /\ pc'[r] \in {"link", "mail"}
    BY <1>11, Moves DEF Discard, CreateLink
  <2>3. Owns(r)'
    BY <2>2 DEF Owns
  <2>4. r \notin caught'
    BY <1>b, <2>1 DEF Awaits
  <2>. QED
    BY <1>1, <2>1, <2>2, <2>3, <2>4
<1>12. ASSUME NEW r \in Requests, SetPassword(r) PROVE Outlived'
  <2>1. Leave(r) /\ lastToken' = lastToken /\ survivors' = survivors
    BY <1>12 DEF SetPassword, Ended
  <2>2. caught' = (caught \cup Carrying(job[r].user)) \ {r}
    BY <1>12 DEF SetPassword
  <2>3. OthersStay(r) /\ Owns(r)'
    BY <1>2, <2>1
  <2>4. \A x \in Requests : Owns(x)'
    BY <1>a, <2>3, StillOwns DEF OthersStay
  <2>5. \A x \in caught' : Awaits(x)'
    BY <1>b, <2>2, <2>3 DEF OthersStay, Awaits, Carrying
  <2>. QED
    BY <1>b, <2>1, <2>4, <2>5 DEF Outlived
<1>13. CASE Tick \/ (\E s \in held : Logout(s)) \/ UNCHANGED vars
  <2>1. UNCHANGED <<pc, job, caught, lastToken, survivors>>
    BY <1>13 DEF Tick, Logout, vars, db, handler, history
  <2>2. \A x \in Requests : Owns(x)'
    BY <1>a, <2>1, StillOwns
  <2>3. \A x \in caught' : Awaits(x)'
    BY <1>b, <2>1 DEF Awaits
  <2>. QED
    BY <1>b, <2>1, <2>2, <2>3 DEF Outlived
<1>. QED
  BY <1>3, <1>4, <1>5, <1>6, <1>7, <1>8, <1>9, <1>10, <1>11, <1>12, <1>13
  DEF Next, Arrival, SignInStep, RefreshStep, ResetStep

\* Requests that will store a session of an account that was reset.
Catching(a) == {r \in caught : job[r].user = a}

\* Each of them will add one survivor, and no reset catches itself.
Outnumbered(a) ==
  /\ IsFiniteSet(SurvivorsOf(a))
  /\ Cardinality(SurvivorsOf(a)) + Cardinality(Catching(a)) < Cardinality(Requests)

AllOutnumbered == \A a \in Accounts : Outnumbered(a)

\* No session of the account survives anew and no request is caught with one.
Gentle(a) == SurvivorsOf(a)' \subseteq SurvivorsOf(a) /\ Catching(a)' \subseteq Catching(a)

\* Both sets are finite.
LEMMA BothFinite ==
  ASSUME Inv, AllOutnumbered, NEW a \in Accounts
  PROVE  /\ IsFiniteSet(SurvivorsOf(a)) /\ Cardinality(SurvivorsOf(a)) \in Nat
         /\ IsFiniteSet(Catching(a)) /\ Cardinality(Catching(a)) \in Nat
         /\ Cardinality(SurvivorsOf(a)) + Cardinality(Catching(a)) < Cardinality(Requests)
         /\ Cardinality(Requests) \in Nat
<1>1. Catching(a) \in SUBSET Requests
  BY DEF Catching, Inv, TypeOK
<1>2. IsFiniteSet(SurvivorsOf(a)) /\ Cardinality(SurvivorsOf(a)) \in Nat
  BY FS_CardinalityType DEF AllOutnumbered, Outnumbered
<1>. QED
  BY <1>1, <1>2, RequestsFinite DEF AllOutnumbered, Outnumbered

\* A gentle step keeps the count.
LEMMA GentleCounted ==
  ASSUME Inv, AllOutnumbered, NEW a \in Accounts, Gentle(a)
  PROVE  Outnumbered(a)'
<1>1. /\ IsFiniteSet(SurvivorsOf(a)') /\ Cardinality(SurvivorsOf(a)') \in Nat
      /\ Cardinality(SurvivorsOf(a)') <= Cardinality(SurvivorsOf(a))
  BY BothFinite, FS_Subset, FS_CardinalityType DEF Gentle
<1>2. /\ Cardinality(Catching(a)') \in Nat
      /\ Cardinality(Catching(a)') <= Cardinality(Catching(a))
  BY BothFinite, FS_Subset, FS_CardinalityType DEF Gentle
<1>. QED
  BY <1>1, <1>2, BothFinite DEF Outnumbered

\* All steps are gentle but three: a reset of the account, and an exchange of a
\* survivor or a caught request's storing.
LEMMA MostAreGentle ==
  ASSUME Inv, Outlived, [Next]_vars, NEW a \in Accounts
  PROVE  Gentle(a) \/ \E r \in Requests : job[r].user = a /\ (Store(r) \/ Rotate(r) \/ SetPassword(r))
<1> SUFFICES ASSUME ~\E r \in Requests : job[r].user = a /\ (Store(r) \/ Rotate(r) \/ SetPassword(r))
             PROVE  Gentle(a)
  OBVIOUS
<1>b. /\ pc \in [Requests -> Steps] /\ job \in [Requests -> Job] /\ caught \subseteq Requests
      /\ \A r \in caught : pc[r] \in {"sign", "store"}
  BY DEF Inv, TypeOK, Outlived, Awaits
<1>1. ASSUME tokens' \subseteq tokens, survivors' = survivors, caught' \subseteq caught,
             \A x \in caught' : job'[x].user = job[x].user
      PROVE  Gentle(a)
  BY <1>1 DEF Gentle, SurvivorsOf, Catching
<1>2. ASSUME NEW r \in Requests, NEW j, job' = [job EXCEPT ![r] = j], tokens' \subseteq tokens,
             survivors' = survivors, caught' \subseteq caught \ {r}
      PROVE  Gentle(a)
  BY <1>1, <1>2, <1>b
<1>3. ASSUME NEW r \in Requests, Arrival(r) PROVE Gentle(a)
  <2>1. /\ \E step, j \in {job'[r]} : pc[r] = "idle" /\ job' = [job EXCEPT ![r] = j]
        /\ UNCHANGED <<tokens, survivors, caught>>
    BY <1>3, <1>b
    DEF Arrival, Login, VerifyOtp, ForgotPassword, Refresh, ResetPassword, Start, db, history
  <2>. QED
    BY <1>2, <1>b, <2>1
<1>4. ASSUME NEW r \in Requests,
             \/ StoreRefused(r) \/ FindNothing(r) \/ Purge(r) \/ RotateRefused(r)
             \/ Mail(r) \/ ExpireLink(r) \/ SetRefused(r) \/ Drop(r)
      PROVE  Gentle(a)
  <2>1. Leave(r) /\ caught' = caught \ {r} /\ survivors' = survivors /\ tokens' \subseteq tokens
    BY <1>4
    DEF Finish, StoreRefused, FindNothing, Purge, RotateRefused, Mail, ExpireLink, SetRefused, Drop,
        db, history
  <2>. QED
    BY <1>2, <2>1 DEF Leave
<1>5. ASSUME NEW r \in Requests, SignUp(r) PROVE Gentle(a)
  <2>1. UNCHANGED <<tokens, survivors>>
    BY <1>5 DEF SignUp, history
  <2>2. CASE Finish(r)
    BY <1>2, <2>1, <2>2 DEF Finish, Leave
  <2>3. CASE UNCHANGED <<job, caught>>
    BY <1>1, <2>1, <2>3
  <2>. QED
    BY <1>5, <2>2, <2>3 DEF SignUp
<1>6. ASSUME NEW r \in Requests, Sign(r) PROVE Gentle(a)
  <2>1. UNCHANGED <<tokens, survivors, caught>> /\ job' = [job EXCEPT ![r].iat = now]
    BY <1>6 DEF Sign, db, history
  <2>2. \A x \in Requests : job'[x].user = job[x].user
    BY <1>b, <2>1 DEF Job
  <2>. QED
    BY <1>1, <1>b, <2>1, <2>2
<1>7. ASSUME NEW r \in Requests, Find(r) PROVE Gentle(a)
  <2>1. UNCHANGED <<tokens, survivors, caught>> /\ pc[r] = "find"
    BY <1>7 DEF Find, db, history
  <2>2. \E j \in {job'[r]} : job' = [job EXCEPT ![r] = j]
    BY <1>7, <1>b DEF Find
  <2>. QED
    BY <1>2, <1>b, <2>1, <2>2
<1>8. ASSUME NEW r \in Requests, Store(r), job[r].user # a PROVE Gentle(a)
  <2>1. caught' = caught \ {r} /\ \A x \in Requests \ {r} : job'[x] = job[x]
    BY <1>8, <1>b DEF Store, Finish, Leave
  <2>2. tokens' = tokens \cup {NewToken(r)} /\ survivors' \subseteq survivors \cup {lastToken + 1}
    BY <1>8 DEF Store
  <2>3. NewToken(r).user # a
    BY <1>8 DEF NewToken
  <2>4. \A t \in tokens : t.id # lastToken + 1
    BY DEF Inv, Rows, TokenOk, TypeOK, Token, TokenIds
  <2>. QED
    BY <1>b, <2>1, <2>2, <2>3, <2>4 DEF Gentle, SurvivorsOf, Catching
<1>9. ASSUME NEW r \in Requests, Rotate(r), job[r].user # a PROVE Gentle(a)
  BY <1>9 DEF Rotate, Gentle, SurvivorsOf, Catching
<1>10. ASSUME NEW r \in Requests, SetPassword(r), job[r].user # a PROVE Gentle(a)
  <2>1. \A x \in Requests \ {r} : job'[x] = job[x]
    BY <1>10, <1>b DEF SetPassword, Leave
  <2>2. /\ caught' = (caught \cup Carrying(job[r].user)) \ {r}
        /\ tokens' \subseteq tokens /\ survivors' = survivors
    BY <1>10 DEF SetPassword, Ended
  <2>. QED
    BY <1>10, <1>b, <2>1, <2>2 DEF Gentle, SurvivorsOf, Catching, Carrying
<1>11. ASSUME NEW r \in Requests, Discard(r) \/ CreateLink(r) PROVE Gentle(a)
  BY <1>1, <1>11 DEF Discard, CreateLink, history
<1>12. CASE Tick \/ (\E s \in held : Logout(s)) \/ UNCHANGED vars
  BY <1>1, <1>12 DEF Tick, Logout, vars, db, handler, history
<1>. QED
  BY <1>3, <1>4, <1>5, <1>6, <1>7, <1>8, <1>9, <1>10, <1>11, <1>12
  DEF Next, SignInStep, RefreshStep, ResetStep

\* The three keep the count too: a reset leaves no session and catches the others
\* at most, a caught request trades its place for a survivor, an exchange trades it back.
LEMMA OutnumberedStep == Inv /\ Outlived /\ AllOutnumbered /\ [Next]_vars => AllOutnumbered'
<1> SUFFICES ASSUME Inv, Outlived, AllOutnumbered, [Next]_vars, NEW a \in Accounts
             PROVE  Outnumbered(a)'
  BY DEF AllOutnumbered
<1>b. /\ pc \in [Requests -> Steps] /\ job \in [Requests -> Job] /\ caught \subseteq Requests
  BY DEF Inv, TypeOK
<1>c. CASE Gentle(a)
  BY <1>c, GentleCounted
<1>1. ASSUME NEW r \in Requests, Store(r), job[r].user = a PROVE Outnumbered(a)'
  <2>1. caught' = caught \ {r} /\ \A x \in Requests \ {r} : job'[x] = job[x]
    BY <1>1, <1>b DEF Store, Finish, Leave
  <2>2. tokens' = tokens \cup {NewToken(r)} /\ NewToken(r).id = lastToken + 1
    BY <1>1 DEF Store, NewToken
  <2>3. \A t \in tokens : t.id # lastToken + 1
    BY DEF Inv, Rows, TokenOk, TypeOK, Token, TokenIds
  <2>4. Catching(a)' = Catching(a) \ {r}
    BY <1>b, <2>1 DEF Catching
  <2>5. CASE r \in caught
    <3>1. SurvivorsOf(a)' \subseteq SurvivorsOf(a) \cup {NewToken(r)}
      BY <1>1, <2>2, <2>3, <2>5 DEF Store, SurvivorsOf
    <3>2. Cardinality(Catching(a)') = Cardinality(Catching(a)) - 1
      BY <1>1, <2>4, <2>5, BothFinite, FS_RemoveElement DEF Catching
    <3> DEFINE More == SurvivorsOf(a) \cup {NewToken(r)}
    <3>3. IsFiniteSet(More) /\ Cardinality(More) \in {Cardinality(SurvivorsOf(a)), Cardinality(SurvivorsOf(a)) + 1}
      BY BothFinite, FS_AddElement
    <3>4. /\ IsFiniteSet(SurvivorsOf(a)') /\ Cardinality(SurvivorsOf(a)') \in Nat
          /\ Cardinality(SurvivorsOf(a)') <= Cardinality(More) /\ Cardinality(More) \in Nat
      BY <3>1, <3>3, FS_Subset, FS_CardinalityType
    <3>. QED
      BY <3>2, <3>3, <3>4, BothFinite DEF Outnumbered
  <2>6. CASE r \notin caught
    <3>1. Gentle(a)
      <4>1. survivors' = survivors /\ lastToken + 1 \notin survivors
        BY <1>1, <2>6 DEF Store, Outlived, Inv, TypeOK, TokenIds
      <4>. QED
        BY <2>2, <2>4, <4>1 DEF Gentle, SurvivorsOf
    <3>. QED
      BY <3>1, GentleCounted
  <2>. QED
    BY <2>5, <2>6
<1>2. ASSUME NEW r \in Requests, Rotate(r), job[r].user = a PROVE Outnumbered(a)'
  <2>1. PICK t \in tokens : t.id = job[r].row
    BY <1>2 DEF Rotate, RowsWith
  <2>2. t.user = a
    BY <1>2, <2>1 DEF Rotate, Outlived, Owns
  <2>3. tokens' \subseteq tokens \ {t} /\ survivors' = survivors /\ job' = job
    BY <1>2, <2>1 DEF Rotate, RowsWith
  <2>4. CASE job[r].row \in survivors
    <3>1. t \in SurvivorsOf(a) /\ SurvivorsOf(a)' \subseteq SurvivorsOf(a) \ {t}
      BY <2>1, <2>2, <2>3, <2>4 DEF SurvivorsOf
    <3> DEFINE Less == SurvivorsOf(a) \ {t}
    <3>2. IsFiniteSet(Less) /\ Cardinality(Less) = Cardinality(SurvivorsOf(a)) - 1
      BY <3>1, BothFinite, FS_RemoveElement
    <3>3. /\ IsFiniteSet(SurvivorsOf(a)') /\ Cardinality(SurvivorsOf(a)') \in Nat
          /\ Cardinality(SurvivorsOf(a)') <= Cardinality(Less)
      BY <3>1, <3>2, FS_Subset, FS_CardinalityType
    <3> DEFINE More == Catching(a) \cup {r}
    <3>4. Catching(a)' \subseteq More
      BY <1>2, <2>3 DEF Rotate, Catching
    <3>5. IsFiniteSet(More) /\ Cardinality(More) \in {Cardinality(Catching(a)), Cardinality(Catching(a)) + 1}
      BY BothFinite, FS_AddElement
    <3>6. /\ Cardinality(Catching(a)') \in Nat
          /\ Cardinality(Catching(a)') <= Cardinality(More) /\ Cardinality(More) \in Nat
      BY <3>4, <3>5, FS_Subset, FS_CardinalityType
    <3>. QED
      BY <3>2, <3>3, <3>5, <3>6, BothFinite DEF Outnumbered
  <2>5. CASE job[r].row \notin survivors
    <3>1. Gentle(a)
      BY <1>2, <2>3, <2>5 DEF Rotate, Gentle, SurvivorsOf, Catching
    <3>. QED
      BY <3>1, GentleCounted
  <2>. QED
    BY <2>4, <2>5
<1>3. ASSUME NEW r \in Requests, SetPassword(r), job[r].user = a PROVE Outnumbered(a)'
  <2>1. SurvivorsOf(a)' = {}
    BY <1>3 DEF SetPassword, Ended, SurvivorsOf
  <2> DEFINE Rest == Requests \ {r}
  <2>2. Catching(a)' \subseteq Rest
    BY <1>3, <1>b DEF SetPassword, Catching, Carrying
  <2>3. IsFiniteSet(Rest) /\ Cardinality(Rest) = Cardinality(Requests) - 1
    BY BoundsAssumption, FS_RemoveElement
  <2>4. Cardinality(Catching(a)') \in Nat /\ Cardinality(Catching(a)') <= Cardinality(Rest)
    BY <2>2, <2>3, FS_Subset, FS_CardinalityType
  <2>. QED
    BY <2>1, <2>3, <2>4, FS_EmptySet, RequestsFinite DEF Outnumbered
<1>. QED
  BY <1>c, <1>1, <1>2, <1>3, MostAreGentle

-----------------------------------------------------------------------------
(* The theorems.                                                            *)

\* The invariant holds throughout.
THEOREM Inductive == Spec => []Inv
BY InitInv, InvStep, PTL DEF Spec

\* Rows, handlers and histories keep their types, and a token string names one
\* row.
THEOREM TypeCorrect == Spec => []TypeOK
<1>1. Inv => TypeOK
  BY DEF Inv
<1>. QED
  BY <1>1, Inductive, PTL

\* However many requests bring a refresh token or a reset link, one of them exchanges
\* it or sets a password.
THEOREM CredentialsUsedOnce == Spec => []UsedOnce
<1>1. Inv => UsedOnce
  BY DEF Inv, Rows, TokensOnce, LinksOnce, UsedOnce
<1>. QED
  BY <1>1, Inductive, PTL

\* A session is lost to its own expiry, exchange, logout or reset only.
THEOREM SessionsAreKept == Spec => []SessionsKept
<1>1. Inv => SessionsKept
  BY DEF Inv, Rows
<1>. QED
  BY <1>1, Inductive, PTL

\* However many requests for a link overlap, an account has no more valid links
\* than there are requests.
THEOREM LinksAreBounded == Spec => []LinksBounded
<1>1. Init => LinksCounted
  <2> SUFFICES ASSUME Init, NEW a \in Accounts
               PROVE  Counted(a)
    BY DEF LinksCounted
  <2>1. LinksOf(a) = {} /\ Linking(a) = {}
    BY DEF Init, LinksOf, Linking
  <2>. QED
    BY <2>1, FS_EmptySet, RequestsFinite DEF Counted
<1>2. Inv /\ LinksCounted /\ [Next]_vars => LinksCounted'
  BY CountStep
<1>3. LinksCounted => LinksBounded
  <2> SUFFICES ASSUME LinksCounted, NEW a \in Accounts
               PROVE  Cardinality(LinksOf(a)) <= Cardinality(Requests)
    BY DEF LinksBounded
  <2>1. Cardinality(LinksOf(a)) \in Nat /\ Cardinality(Linking(a)) \in Nat
    BY RequestsFinite, FS_CardinalityType DEF LinksCounted, Counted, Linking
  <2>. QED
    BY <2>1, RequestsFinite DEF LinksCounted, Counted
<1>. QED
  BY <1>1, <1>2, <1>3, Inductive, PTL DEF Spec

\* A reset ends every session of its account but those that other requests had in
\* hand, one each at most.
THEOREM ResetsEndSessions == Spec => []ResetEndsSessions
<1>1. Init => Outlived /\ AllOutnumbered
  <2> SUFFICES ASSUME Init PROVE Outlived /\ AllOutnumbered
    OBVIOUS
  <2>1. Outlived
    BY DEF Init, Outlived, Owns
  <2>2. \A a \in Accounts : SurvivorsOf(a) = {} /\ Catching(a) = {}
    BY DEF Init, SurvivorsOf, Catching
  <2>3. Cardinality(Requests) > 0
    BY BoundsAssumption, RequestsFinite, FS_EmptySet
  <2>4. AllOutnumbered
    BY <2>2, <2>3, FS_EmptySet DEF AllOutnumbered, Outnumbered
  <2>. QED
    BY <2>1, <2>4
<1>2. Inv /\ Outlived /\ AllOutnumbered /\ [Next]_vars => Outlived' /\ AllOutnumbered'
  BY OutlivedStep, OutnumberedStep
<1>3. Inv /\ AllOutnumbered => ResetEndsSessions
  BY BothFinite DEF ResetEndsSessions
<1>. QED
  BY <1>1, <1>2, <1>3, Inductive, PTL DEF Spec

-----------------------------------------------------------------------------
(* The credentials as their owners see them.                                *)

SessionOf == [i \in TokenIds |-> {t.user : t \in RowsWith(i)}]
LinkOf    == [i \in LinkIds |-> {l.user : l \in {k \in links : k.id = i}}]
GrantOf   == [r \in Requests |-> IF LetIn(r) THEN {job[r].user} ELSE {}]

\* The link in hand, if it is there still, is of the account read with it.
Bears(r) ==
  /\ pc[r] = "signup" => job[r].row = 0
  /\ pc[r] \in {"hash", "expire"} =>
       \A l \in links : l.id = job[r].row => l.user = job[r].user

LinksKnown ==
  /\ \A k, l \in links : k.id = l.id => k = l
  /\ \A r \in Requests : Bears(r)

\* Only CreateLink adds one, and no handler has its id in hand.
LEMMA StillBears ==
  ASSUME Inv, LinksKnown, NEW x \in Requests, pc'[x] = pc[x], job'[x] = job[x],
         \A l \in links' : l \in links \/ l.id = lastLink + 1
  PROVE  Bears(x)'
<1>1. pc[x] \in {"hash", "expire"} => job[x].row \in 1..lastLink
  BY DEF Inv, HandlerOk
<1>2. lastLink \in Nat
  BY DEF Inv, TypeOK
<1>. QED
  BY <1>1, <1>2 DEF LinksKnown, Bears

LEMMA BearsStep == Inv /\ LinksKnown /\ [Next]_vars => LinksKnown'
<1> SUFFICES ASSUME Inv, LinksKnown, [Next]_vars PROVE LinksKnown'
  OBVIOUS
<1>b. /\ pc \in [Requests -> Steps] /\ job \in [Requests -> Job]
      /\ \A l \in links : l.id \in Nat /\ l.id <= lastLink
      /\ lastLink \in Nat
  BY DEF Inv, TypeOK, Rows, LinkOk, Link, LinkIds
<1>1. ASSUME NEW r \in Requests, OthersStay(r), Bears(r)', links' \subseteq links
      PROVE  LinksKnown'
  <2>1. \A x \in Requests : Bears(x)'
    BY <1>1, StillBears DEF OthersStay
  <2>. QED
    BY <1>1, <2>1 DEF LinksKnown
<1>2. ASSUME NEW r \in Requests, NEW a \in Accounts,
             Login(r, a) \/ VerifyOtp(r, a) \/ ForgotPassword(r, a)
      PROVE  LinksKnown'
  <2>1. PICK step \in {"sign", "signup", "discard"} : Start(r, step, [Blank EXCEPT !.user = a])
    BY <1>2 DEF Login, VerifyOtp, ForgotPassword
  <2>2. OthersStay(r) /\ pc'[r] = step /\ job'[r] = [Blank EXCEPT !.user = a]
    BY <2>1, Moves
  <2>3. links' = links
    BY <1>2 DEF Login, VerifyOtp, ForgotPassword, db
  <2>4. Bears(r)'
    BY <2>2 DEF Bears, Blank
  <2>. QED
    BY <1>1, <2>2, <2>3, <2>4
<1>3. ASSUME NEW r \in Requests, NEW s \in held, Refresh(r, s)
      PROVE  LinksKnown'
  <2>1. OthersStay(r) /\ pc'[r] = "find" /\ links' = links
    BY <1>3, Moves DEF Refresh, db
  <2>. QED
    BY <1>1, <2>1 DEF Bears
<1>4. ASSUME NEW r \in Requests, NEW l \in links, ResetPassword(r, l)
      PROVE  LinksKnown'
  <2>1. PICK step \in {"expire", "hash"} :
          Start(r, step, [Blank EXCEPT !.user = l.user, !.row = l.id])
    BY <1>4 DEF ResetPassword
  <2>2. OthersStay(r) /\ pc'[r] = step /\ job'[r] = [Blank EXCEPT !.user = l.user, !.row = l.id]
    BY <2>1, Moves
  <2>3. links' = links /\ job'[r].user = l.user /\ job'[r].row = l.id
    BY <1>4, <2>2 DEF ResetPassword, db, Blank
  <2>4. Bears(r)'
    BY <2>2, <2>3 DEF Bears, LinksKnown
  <2>. QED
    BY <1>1, <2>2, <2>3, <2>4
<1>5. ASSUME NEW r \in Requests, Leave(r), links' \subseteq links
      PROVE  LinksKnown'
  <2>1. OthersStay(r) /\ pc'[r] = "idle"
    BY <1>5, <1>b DEF Leave, OthersStay
  <2>. QED
    BY <1>1, <1>5, <2>1 DEF Bears
<1>6. ASSUME NEW r \in Requests, NEW step \in {"sign", "purge", "rotate", "store", "link", "mail"},
             Goto(r, step), \A x \in Requests \ {r} : job'[x] = job[x], links' \subseteq links
      PROVE  LinksKnown'
  <2>1. OthersStay(r) /\ pc'[r] = step
    BY <1>6, <1>b DEF Goto, OthersStay
  <2>. QED
    BY <1>1, <1>6, <2>1 DEF Bears
<1>7. ASSUME NEW r \in Requests, CreateLink(r)
      PROVE  LinksKnown'
  <2>1. OthersStay(r) /\ pc'[r] = "mail"
    BY <1>7, Moves DEF CreateLink
  <2> DEFINE new == [id |-> lastLink + 1, user |-> job[r].user, expires |-> now + ResetLifetime]
  <2>2. links' = links \cup {new} /\ new.id = lastLink + 1
    BY <1>7 DEF CreateLink
  <2>. HIDE DEF new
  <2>3. \A x \in Requests : Bears(x)'
    BY <2>1, <2>2, StillBears DEF OthersStay, Bears
  <2>. QED
    BY <1>b, <2>2, <2>3 DEF LinksKnown
<1>8. ASSUME NEW r \in Requests, SignInStep(r) \/ RefreshStep(r) \/ ResetStep(r) \/ Drop(r)
      PROVE  LinksKnown'
  <2>1. CASE \/ Store(r) \/ StoreRefused(r) \/ FindNothing(r) \/ Purge(r) \/ RotateRefused(r)
             \/ Mail(r) \/ ExpireLink(r) \/ SetPassword(r) \/ SetRefused(r) \/ Drop(r)
    BY <1>5, <2>1
    DEF Finish, Store, StoreRefused, FindNothing, Purge, RotateRefused, Mail, ExpireLink,
        SetPassword, SetRefused, Drop, db
  <2>2. CASE SignUp(r)
    BY <1>5, <1>6, <2>2 DEF SignUp, Finish
  <2>3. CASE Sign(r)
    BY <1>6, <1>b, <2>3 DEF Sign, db
  <2>4. CASE Find(r)
    BY <1>6, <1>b, <2>4 DEF Find, db
  <2>5. CASE Rotate(r) \/ Discard(r)
    BY <1>6, <2>5 DEF Rotate, Discard
  <2>. QED
    BY <1>7, <1>8, <2>1, <2>2, <2>3, <2>4, <2>5 DEF SignInStep, RefreshStep, ResetStep
<1>9. CASE Tick \/ (\E s \in held : Logout(s)) \/ UNCHANGED vars
  <2>1. UNCHANGED <<pc, job, links>>
    BY <1>9 DEF Tick, Logout, vars, db, handler
  <2>. QED
    BY <2>1 DEF LinksKnown, Bears
<1>. QED
  BY <1>2, <1>3, <1>4, <1>8, <1>9 DEF Next, Arrival

\* A step that moves one handler changes its grant and no other.
LEMMA GrantMoves ==
  ASSUME Inv, NEW r \in Requests, OthersStay(r)
  PROVE  GrantOf' = [GrantOf EXCEPT ![r] = IF LetIn(r)' THEN {job'[r].user} ELSE {}]
BY DEF GrantOf, LetIn, OthersStay

LEMMA GrantsStay ==
  ASSUME Inv, NEW r \in Requests, OthersStay(r), GrantOf'[r] = GrantOf[r]
  PROVE  GrantOf' = GrantOf
BY DEF GrantOf, LetIn, OthersStay

\* A request that is not let in, before or after, asks for nothing.
LEMMA Unasked ==
  ASSUME Inv, NEW r \in Requests, OthersStay(r), ~LetIn(r), ~LetIn(r)'
  PROVE  GrantOf' = GrantOf
BY GrantsStay DEF GrantOf

LEMMA StepImplementsCredentials ==
  ASSUME Inv, Inv', Outlived, LinksKnown, [Next]_vars
  PROVE  [Promise!Next]_(Promise!vars)
<1>b. /\ pc \in [Requests -> Steps] /\ job \in [Requests -> Job]
      /\ \A t \in tokens : t.id \in TokenIds /\ t.id <= lastToken
      /\ \A l \in links : l.id \in LinkIds /\ l.id <= lastLink
      /\ lastToken \in Nat /\ lastLink \in Nat
      /\ exchanged \in [TokenIds -> Nat] /\ redeemed \in [LinkIds -> Nat]
      /\ \A r \in Requests : job[r].user \in Accounts /\ Owns(r) /\ Bears(r) /\ HandlerOk(r)
  BY DEF Inv, TypeOK, Rows, TokenOk, LinkOk, Token, Link, Job, Outlived, LinksKnown
<1>c. /\ 1..lastToken \subseteq TokenIds /\ 1..lastLink \subseteq LinkIds
  BY BoundsAssumption DEF Inv, TypeOK, TokenIds, LinkIds
<1>d. /\ \A i \in TokenIds : SessionOf[i] = {t.user : t \in RowsWith(i)}
      /\ \A i \in LinkIds : LinkOf[i] = {l.user : l \in {k \in links : k.id = i}}
      /\ \A r \in Requests : GrantOf[r] = IF LetIn(r) THEN {job[r].user} ELSE {}
  BY DEF SessionOf, LinkOf, GrantOf
<1>e. ASSUME GrantOf' = GrantOf,
             UNCHANGED <<tokens, links, exchanged, redeemed, lastToken, lastLink>>
      PROVE  UNCHANGED Promise!vars
  BY <1>e DEF Promise!vars, GrantOf, RowsWith
<1>f. ASSUME tokens' = tokens PROVE SessionOf' = SessionOf
  BY <1>f DEF SessionOf, RowsWith
<1>g. ASSUME links' = links PROVE LinkOf' = LinkOf
  BY <1>g DEF LinkOf
<1>1. ASSUME NEW r \in Requests, NEW a \in Accounts, Login(r, a) \/ VerifyOtp(r, a)
      PROVE  Promise!Next
  <2>1. PICK step \in {"sign", "signup"} : Start(r, step, [Blank EXCEPT !.user = a])
    BY <1>1 DEF Login, VerifyOtp
  <2>2. /\ OthersStay(r) /\ pc[r] = "idle" /\ pc'[r] = step
        /\ job'[r] = [Blank EXCEPT !.user = a]
    BY <2>1, Moves DEF Start
  <2>3. ~LetIn(r) /\ LetIn(r)' /\ job'[r].user = a
    BY <2>2 DEF LetIn, Blank
  <2>4. GrantOf' = [GrantOf EXCEPT ![r] = {a}] /\ GrantOf[r] = {}
    BY <1>d, <2>2, <2>3, GrantMoves
  <2>5. UNCHANGED <<tokens, links, lastToken, lastLink, exchanged, redeemed>>
    BY <1>1 DEF Login, VerifyOtp, db, history
  <2>6. Promise!SignIn(r, a)
    BY <1>f, <1>g, <2>4, <2>5 DEF Promise!SignIn, SessionOf, LinkOf, GrantOf
  <2>. QED
    BY <2>6 DEF Promise!Next
<1>2. ASSUME NEW r \in Requests,
             \/ \E a \in Accounts : ForgotPassword(r, a)
             \/ \E s \in held : Refresh(r, s)
             \/ \E l \in links : ResetPassword(r, l)
      PROVE  UNCHANGED Promise!vars
  <2>1. PICK step \in {"discard", "find", "expire", "hash"}, j \in {job'[r]} : Start(r, step, j)
    BY <1>2, <1>b DEF ForgotPassword, Refresh, ResetPassword, Start
  <2>2. OthersStay(r) /\ pc[r] = "idle" /\ pc'[r] = step
    BY <2>1, Moves DEF Start
  <2>3. UNCHANGED <<tokens, links, lastToken, lastLink, exchanged, redeemed>>
    BY <1>2 DEF ForgotPassword, Refresh, ResetPassword, db, history
  <2>4. GrantOf' = GrantOf
    BY <2>2, Unasked DEF LetIn
  <2>. QED
    BY <1>e, <2>3, <2>4
<1>3. ASSUME NEW r \in Requests, Leave(r),
             UNCHANGED <<tokens, links, lastToken, lastLink, exchanged, redeemed>>
      PROVE  Promise!Next
  <2>1. OthersStay(r) /\ pc'[r] = "idle"
    BY <1>3, <1>b DEF Leave, OthersStay
  <2>2. GrantOf' = [GrantOf EXCEPT ![r] = {}]
    BY <2>1, GrantMoves DEF LetIn
  <2>3. Promise!Forfeit(r)
    BY <1>3, <1>f, <1>g, <2>2 DEF Promise!Forfeit, SessionOf, LinkOf, GrantOf
  <2>. QED
    BY <2>3 DEF Promise!Next
<1>4. ASSUME NEW r \in Requests,
             \/ StoreRefused(r) \/ FindNothing(r) \/ RotateRefused(r) \/ Mail(r) \/ SetRefused(r)
             \/ Drop(r)
      PROVE  Promise!Next
  BY <1>3, <1>4
  DEF Finish, StoreRefused, FindNothing, RotateRefused, Mail, SetRefused, Drop, db, history
<1>5. ASSUME NEW r \in Requests, SignUp(r)
      PROVE  [Promise!Next]_(Promise!vars)
  <2>1. UNCHANGED <<tokens, links, lastToken, lastLink, exchanged, redeemed>> /\ pc[r] = "signup"
    BY <1>5 DEF SignUp, history
  <2>2. CASE Finish(r)
    BY <1>3, <2>1, <2>2 DEF Finish
  <2>3. CASE Goto(r, "sign") /\ UNCHANGED <<job, caught>>
    <3>1. OthersStay(r) /\ pc'[r] = "sign" /\ job'[r] = job[r]
      BY <2>3, Moves
    <3>2. job[r].row = 0 /\ LetIn(r) /\ LetIn(r)'
      BY <1>b, <2>1, <3>1 DEF Bears, LetIn
    <3>3. GrantOf' = GrantOf
      BY <3>1, <3>2, GrantsStay DEF GrantOf
    <3>. QED
      BY <1>e, <2>1, <3>3
  <2>. QED
    BY <1>5, <2>2, <2>3 DEF SignUp
<1>6. ASSUME NEW r \in Requests, Sign(r)
      PROVE  UNCHANGED Promise!vars
  <2>1. UNCHANGED <<tokens, links, lastToken, lastLink, exchanged, redeemed>> /\ pc[r] = "sign"
    BY <1>6 DEF Sign, db, history
  <2>2. /\ OthersStay(r) /\ job'[r] = [job[r] EXCEPT !.iat = now]
        /\ pc'[r] = IF job[r].row # 0 THEN "rotate" ELSE "store"
    BY <1>6, <1>b DEF Sign, Goto, OthersStay, Steps
  <2>3. job'[r].user = job[r].user
    BY <1>b, <2>2 DEF Job
  <2>4. GrantOf'[r] = GrantOf[r]
    BY <2>1, <2>2, <2>3 DEF GrantOf, LetIn
  <2>. QED
    BY <1>e, <2>1, <2>2, <2>4, GrantsStay
<1>7. ASSUME NEW r \in Requests, Find(r)
      PROVE  UNCHANGED Promise!vars
  <2>1. UNCHANGED <<tokens, links, lastToken, lastLink, exchanged, redeemed>> /\ pc[r] = "find"
    BY <1>7 DEF Find, db, history
  <2>2. PICK t \in tokens : job'[r] = [Blank EXCEPT !.user = t.user, !.row = t.id]
    BY <1>7, <1>b DEF Find
  <2>3. OthersStay(r) /\ pc'[r] \in {"purge", "sign"}
    BY <1>7, <1>b DEF Find, Goto, OthersStay
  <2>4. job'[r].row # 0
    BY <1>b, <2>2 DEF Blank, TokenIds
  <2>. QED
    BY <1>e, <2>1, <2>3, <2>4, Unasked DEF LetIn
<1>8. ASSUME NEW r \in Requests, Store(r)
      PROVE  Promise!Next
  <2> DEFINE i == lastToken + 1
             u == job[r].user
  <2>1. /\ tokens' = tokens \cup {NewToken(r)} /\ lastToken' = i /\ pc[r] = "store" /\ Leave(r)
        /\ UNCHANGED <<links, lastLink, exchanged, redeemed>>
    BY <1>8 DEF Store, Finish
  <2>2. i \in TokenIds
    BY <1>8, <1>b DEF Store, TokenIds, Inv, TypeOK
  <2>3. OthersStay(r) /\ pc'[r] = "idle"
    BY <2>1, <1>b DEF Leave, OthersStay
  <2>4. GrantOf' = [GrantOf EXCEPT ![r] = {}] /\ GrantOf[r] = {u}
    BY <1>d, <2>1, <2>3, GrantMoves DEF LetIn
  <2>5. NewToken(r).id = i /\ NewToken(r).user = u
    BY DEF NewToken
  <2>6. ASSUME NEW j \in TokenIds
        PROVE  {t.user : t \in RowsWith(j)'} = IF j = i THEN {u} ELSE {t.user : t \in RowsWith(j)}
    <3>1. CASE j = i
      <4>1. RowsWith(j)' = {NewToken(r)}
        BY <1>b, <2>1, <2>5, <3>1 DEF RowsWith
      <4>. QED
        BY <2>5, <3>1, <4>1
    <3>2. CASE j # i
      BY <2>1, <2>5, <3>2 DEF RowsWith
    <3>. QED
      BY <3>1, <3>2
  <2>7. SessionOf' = [SessionOf EXCEPT ![i] = {u}]
    BY <2>6 DEF SessionOf
  <2>8. Promise!Issue(r)
    BY <1>g, <2>1, <2>2, <2>4, <2>7 DEF Promise!Issue, SessionOf, LinkOf, GrantOf
  <2>. QED
    BY <2>8 DEF Promise!Next
<1>h. ASSUME NEW i \in TokenIds, tokens' = tokens \ RowsWith(i)
      PROVE  SessionOf' = [SessionOf EXCEPT ![i] = {}]
  <2>1. \A j \in TokenIds : RowsWith(j)' = IF j = i THEN {} ELSE RowsWith(j)
    BY <1>h DEF RowsWith
  <2>. QED
    BY <2>1 DEF SessionOf
<1>9. ASSUME NEW r \in Requests, Purge(r)
      PROVE  Promise!Next
  <2>1. /\ tokens' = tokens \ RowsWith(job[r].row) /\ pc[r] = "purge" /\ Leave(r)
        /\ UNCHANGED <<links, lastToken, lastLink, exchanged, redeemed>>
    BY <1>9 DEF Purge, Finish, history
  <2>2. job[r].row \in TokenIds
    BY <1>b, <1>c, <2>1 DEF HandlerOk
  <2>3. OthersStay(r) /\ pc'[r] = "idle"
    BY <2>1, <1>b DEF Leave, OthersStay
  <2>4. GrantOf' = GrantOf
    BY <2>1, <2>3, Unasked DEF LetIn
  <2>5. PICK k \in TokenIds : k = job[r].row
    BY <1>b, <2>2
  <2>6. Promise!End(k)
    BY <1>g, <1>h, <2>1, <2>2, <2>4, <2>5 DEF Promise!End, SessionOf, LinkOf, GrantOf
  <2>. QED
    BY <2>5, <2>6 DEF Promise!Next
<1>10. ASSUME NEW r \in Requests, Rotate(r)
       PROVE  Promise!Next
  <2> DEFINE i == job[r].row
             u == job[r].user
  <2>1. /\ tokens' = tokens \ RowsWith(i) /\ RowsWith(i) # {} /\ pc[r] = "rotate"
        /\ Goto(r, "store") /\ job' = job
        /\ exchanged' = [exchanged EXCEPT ![i] = @ + 1]
        /\ UNCHANGED <<links, lastToken, lastLink, redeemed>>
    BY <1>10 DEF Rotate
  <2>2. i \in TokenIds
    BY <1>b, <1>c, <2>1 DEF HandlerOk
  <2>3. OthersStay(r) /\ pc'[r] = "store" /\ job'[r] = job[r]
    BY <2>1, Moves
  <2>4. GrantOf' = [GrantOf EXCEPT ![r] = {u}] /\ GrantOf[r] = {}
    BY <1>d, <2>1, <2>3, GrantMoves DEF LetIn
  <2>5. SessionOf[i] = {u}
    <3>1. \A t \in RowsWith(i) : t.user = u
      BY <1>b, <2>1 DEF Owns, RowsWith
    <3>. QED
      BY <1>d, <2>1, <2>2, <3>1
  <2>6. PICK k \in TokenIds : k = job[r].row
    BY <1>b, <2>2
  <2>7. Promise!Exchange(r, k)
    BY <1>g, <1>h, <2>1, <2>2, <2>4, <2>5, <2>6 DEF Promise!Exchange, SessionOf, LinkOf, GrantOf
  <2>. QED
    BY <2>6, <2>7 DEF Promise!Next
<1>11. ASSUME NEW s \in held, Logout(s)
       PROVE  [Promise!Next]_(Promise!vars)
  <2>1. /\ tokens' = {t \in tokens : StringOf(t) # s}
        /\ UNCHANGED <<pc, job, links, lastToken, lastLink, exchanged, redeemed>>
    BY <1>11 DEF Logout, handler
  <2>2. GrantOf' = GrantOf
    BY <2>1 DEF GrantOf, LetIn
  <2>3. CASE \A t \in tokens : StringOf(t) # s
    BY <1>e, <2>1, <2>2, <2>3
  <2>4. CASE \E t \in tokens : StringOf(t) = s
    <3>1. PICK t \in tokens : StringOf(t) = s
      BY <2>4
    <3>2. \A k \in tokens : StringOf(k) = s <=> k \in RowsWith(t.id)
      BY <3>1 DEF Inv, TypeOK, Rows, Distinct, RowsWith
    <3>3. tokens' = tokens \ RowsWith(t.id) /\ t.id \in TokenIds
      BY <1>b, <2>1, <3>2
    <3>4. Promise!End(t.id)
      BY <1>g, <1>h, <2>1, <2>2, <3>3 DEF Promise!End, SessionOf, LinkOf, GrantOf
    <3>. QED
      BY <3>3, <3>4 DEF Promise!Next
  <2>. QED
    BY <2>3, <2>4
<1>12. ASSUME NEW r \in Requests, Discard(r)
       PROVE  Promise!Next
  <2> DEFINE u == job[r].user
  <2>1. /\ links' = links \ LinksOf(u) /\ pc[r] = "discard" /\ Goto(r, "link") /\ job' = job
        /\ UNCHANGED <<tokens, lastToken, lastLink, exchanged, redeemed>>
    BY <1>12 DEF Discard, history
  <2>2. OthersStay(r) /\ pc'[r] = "link"
    BY <2>1, Moves
  <2>3. GrantOf' = GrantOf
    BY <2>1, <2>2, Unasked DEF LetIn
  <2>4. LinkOf' = [i \in LinkIds |-> LinkOf[i] \ {u}]
    <3>1. \A i \in LinkIds : {l.user : l \in {k \in links' : k.id = i}}
                               = {l.user : l \in {k \in links : k.id = i}} \ {u}
      BY <2>1 DEF LinksOf
    <3>. QED
      BY <3>1 DEF LinkOf
  <2>5. PICK k \in Accounts : k = job[r].user
    BY <1>b
  <2>6. Promise!DiscardLinks(k)
    BY <1>f, <2>1, <2>3, <2>4, <2>5 DEF Promise!DiscardLinks, SessionOf, LinkOf, GrantOf
  <2>. QED
    BY <2>5, <2>6 DEF Promise!Next
<1>13. ASSUME NEW r \in Requests, CreateLink(r)
       PROVE  Promise!Next
  <2> DEFINE i == lastLink + 1
             u == job[r].user
             new == [id |-> i, user |-> u, expires |-> now + ResetLifetime]
  <2>1. /\ links' = links \cup {new} /\ lastLink' = i /\ pc[r] = "link"
        /\ Goto(r, "mail") /\ job' = job
        /\ UNCHANGED <<tokens, lastToken, exchanged, redeemed>>
    BY <1>13 DEF CreateLink, history
  <2>2. i \in LinkIds /\ new.id = i /\ new.user = u
    BY <1>13, <1>b DEF CreateLink, LinkIds, Inv, TypeOK
  <2>. HIDE DEF new
  <2>3. OthersStay(r) /\ pc'[r] = "mail"
    BY <2>1, Moves
  <2>4. GrantOf' = GrantOf
    BY <2>1, <2>3, Unasked DEF LetIn
  <2>5. ASSUME NEW j \in LinkIds
        PROVE  {l.user : l \in {k \in links' : k.id = j}}
                 = IF j = i THEN {u} ELSE {l.user : l \in {k \in links : k.id = j}}
    <3>1. CASE j = i
      <4>1. {k \in links' : k.id = j} = {new}
        BY <1>b, <2>1, <2>2, <3>1
      <4>. QED
        BY <2>2, <3>1, <4>1
    <3>2. CASE j # i
      BY <2>1, <2>2, <3>2
    <3>. QED
      BY <3>1, <3>2
  <2>6. LinkOf' = [LinkOf EXCEPT ![i] = {u}]
    BY <2>5 DEF LinkOf
  <2>7. PICK k \in Accounts : k = job[r].user
    BY <1>b
  <2>8. Promise!CreateLink(k)
    BY <1>f, <2>1, <2>2, <2>4, <2>6, <2>7 DEF Promise!CreateLink, SessionOf, LinkOf, GrantOf
  <2>. QED
    BY <2>7, <2>8 DEF Promise!Next
<1>i. ASSUME NEW r \in Requests, job[r].row \in LinkIds, links' = links \ LinkLeft(r)
      PROVE  LinkOf' = [LinkOf EXCEPT ![job[r].row] = {}]
  <2>1. \A j \in LinkIds : {k \in links' : k.id = j}
                             = IF j = job[r].row THEN {} ELSE {k \in links : k.id = j}
    BY <1>i DEF LinkLeft
  <2>. QED
    BY <2>1 DEF LinkOf
<1>14. ASSUME NEW r \in Requests, ExpireLink(r)
       PROVE  Promise!Next
  <2>1. /\ links' = links \ LinkLeft(r) /\ pc[r] = "expire" /\ Leave(r)
        /\ UNCHANGED <<tokens, lastToken, lastLink, exchanged, redeemed>>
    BY <1>14 DEF ExpireLink, Finish, history
  <2>2. job[r].row \in LinkIds
    BY <1>b, <1>c, <2>1 DEF HandlerOk
  <2>3. OthersStay(r) /\ pc'[r] = "idle"
    BY <2>1, <1>b DEF Leave, OthersStay
  <2>4. GrantOf' = GrantOf
    BY <2>1, <2>3, Unasked DEF LetIn
  <2>5. PICK k \in LinkIds : k = job[r].row
    BY <1>b, <2>2
  <2>6. Promise!ExpireLink(k)
    BY <1>f, <1>i, <2>1, <2>2, <2>4, <2>5 DEF Promise!ExpireLink, SessionOf, LinkOf, GrantOf
  <2>. QED
    BY <2>5, <2>6 DEF Promise!Next
<1>15. ASSUME NEW r \in Requests, SetPassword(r)
       PROVE  Promise!Next
  <2> DEFINE i == job[r].row
             u == job[r].user
  <2>1. /\ links' = links \ LinkLeft(r) /\ LinkLeft(r) # {} /\ pc[r] = "hash" /\ Leave(r)
        /\ tokens' = tokens \ Ended(u)
        /\ redeemed' = [redeemed EXCEPT ![i] = @ + 1]
        /\ UNCHANGED <<lastToken, lastLink, exchanged>>
    BY <1>15 DEF SetPassword, LinkValid
  <2>2. i \in LinkIds
    BY <1>b, <1>c, <2>1 DEF HandlerOk
  <2>3. OthersStay(r) /\ pc'[r] = "idle"
    BY <2>1, <1>b DEF Leave, OthersStay
  <2>4. GrantOf' = GrantOf
    BY <2>1, <2>3, Unasked DEF LetIn
  <2>5. LinkOf[i] = {u}
    <3>1. \A l \in links : l.id = i => l.user = u
      BY <1>b, <2>1 DEF Bears
    <3>2. \E l \in links : l.id = i
      BY <2>1 DEF LinkLeft
    <3>. QED
      BY <1>d, <2>2, <3>1, <3>2
  <2>6. SessionOf' = [j \in TokenIds |-> SessionOf[j] \ {u}]
    <3>1. \A j \in TokenIds : {t.user : t \in RowsWith(j)'} = {t.user : t \in RowsWith(j)} \ {u}
      BY <2>1 DEF RowsWith, Ended
    <3>. QED
      BY <3>1 DEF SessionOf
  <2>7. PICK k \in LinkIds : k = job[r].row
    BY <1>b, <2>2
  <2>8. Promise!Redeem(k)
    BY <1>i, <2>1, <2>2, <2>4, <2>5, <2>6, <2>7 DEF Promise!Redeem, SessionOf, LinkOf, GrantOf
  <2>. QED
    BY <2>7, <2>8 DEF Promise!Next
<1>16. CASE Tick \/ UNCHANGED vars
  <2>1. UNCHANGED <<pc, job, tokens, links, exchanged, redeemed, lastToken, lastLink>>
    BY <1>16 DEF Tick, vars, db, handler, history
  <2>2. GrantOf' = GrantOf
    BY <2>1 DEF GrantOf, LetIn
  <2>. QED
    BY <1>e, <2>1, <2>2
<1>. QED
  BY <1>1, <1>2, <1>4, <1>5, <1>6, <1>7, <1>8, <1>9, <1>10, <1>11, <1>12, <1>13, <1>14, <1>15,
     <1>16
  DEF Next, Arrival, SignInStep, RefreshStep, ResetStep

\* Whatever requests do with the same token or link at the same time, and wherever they
\* fail, every step is one of Credentials: a session is exchanged for one other and ends
\* with it, a link sets one password and ends all sessions of its account at that moment,
\* and nothing that has ended comes back (auth.service.ts).
THEOREM Implements == Spec => ImplementsCredentials
<1>1. Init => Promise!Init
  <2> SUFFICES ASSUME Init PROVE Promise!Init
    OBVIOUS
  <2>1. \A r \in Requests : ~LetIn(r)
    BY DEF Init, LetIn
  <2>. QED
    BY <2>1 DEF Init, Promise!Init, RowsWith
<1>2. Init => Outlived /\ LinksKnown
  BY DEF Init, Outlived, Owns, LinksKnown, Bears
<1>3. Inv /\ Outlived /\ LinksKnown /\ [Next]_vars => Outlived' /\ LinksKnown'
  BY OutlivedStep, BearsStep
<1>4. Inv /\ Inv' /\ Outlived /\ LinksKnown /\ [Next]_vars => [Promise!Next]_(Promise!vars)
  BY StepImplementsCredentials
<1>. QED
  BY <1>1, <1>2, <1>3, <1>4, Inductive, PTL DEF Spec, ImplementsCredentials, Promise!Spec
=============================================================================
