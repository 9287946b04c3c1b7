------------------------------ MODULE Sessions ------------------------------
(***************************************************************************)
(* AuthService and MailService: sign-in with a password or a one-time      *)
(* code, rotation of refresh tokens, logout, and the reset of a password   *)
(* by a mailed link.  As in Checkout, a handler runs from await to await   *)
(* and pc[r] names the one it stands at.                                   *)
(*                                                                         *)
(* A refresh token is a JWT of the account and the second it was signed    *)
(* in, and of nothing else: two signed for one account in one second are   *)
(* the same string, here the pair <<account, second>>.                     *)
(***************************************************************************)
EXTENDS Integers, FiniteSets

CONSTANTS
  Requests,       \* requests the server may be handling at the same time
  Accounts,       \* phone numbers and mail addresses
  Registered,     \* accounts with a row and a password at the start: administrators
  Lifetime,       \* seconds a refresh token lives
  ResetLifetime,  \* seconds a reset link lives
  MaxTokens,      \* bound: refresh tokens stored
  MaxLinks,       \* bound: reset links created
  MaxNow          \* bound: seconds the model runs for

ASSUME AccountsAssumption == Registered \subseteq Accounts /\ Accounts # {}

ASSUME LifetimeAssumption == Lifetime \in Nat \ {0} /\ ResetLifetime \in Nat

ASSUME BoundsAssumption ==
  /\ MaxTokens \in Nat /\ MaxLinks \in Nat /\ MaxNow \in Nat \ {0}
  /\ IsFiniteSet(Requests) /\ Requests # {}

VARIABLES
  users,      \* accounts with a row in User
  tokens,     \* the rows of RefreshToken
  links,      \* the rows of PasswordResetToken
  lastToken,  \* the id of the newest refresh token
  lastLink,   \* the id of the newest reset link
  now,        \* the second of the server's clock
  pc,         \* the await each request stands at
  job,        \* the local variables of each request
  held,       \* token strings that clients have been sent
  live,       \* history: strings sent and not exchanged, logged out or reset since
  exchanged,  \* history: how many exchanges a row of RefreshToken was granted
  redeemed,   \* history: how often a row of PasswordResetToken set a password
  caught,     \* history: requests that hold a session of before a reset
  survivors   \* history: ids of the rows that a reset left, or these requests stored

db      == <<users, tokens, links, lastToken, lastLink>>
handler == <<pc, job, caught>>
history == <<live, exchanged, redeemed, survivors>>
vars    == <<db, now, handler, held, history>>

TokenIds == 1..MaxTokens
LinkIds  == 1..MaxLinks
Seconds  == 1..MaxNow
String   == Accounts \X Seconds

Token == [id : TokenIds, user : Accounts, iat : Seconds, expires : Nat]
Link  == [id : LinkIds, user : Accounts, expires : Nat]

StringOf(t) == <<t.user, t.iat>>

\* iat is that of the string in hand; row the id of the refresh token or of the
\* link that was read, 0 in a sign-in.
Job == [user : Accounts, iat : Seconds, row : Nat]

Blank == [user |-> CHOOSE a \in Accounts : TRUE, iat |-> 1, row |-> 0]

Steps == {"idle", "signup", "sign", "find", "purge", "rotate", "store",
          "discard", "link", "mail", "hash", "expire"}

Init ==
  /\ users = Registered
  /\ tokens = {}
  /\ links = {}
  /\ lastToken = 0
  /\ lastLink = 0
  /\ now = 1
  /\ pc = [r \in Requests |-> "idle"]
  /\ job = [r \in Requests |-> Blank]
  /\ held = {}
  /\ live = {}
  /\ exchanged = [i \in TokenIds |-> 0]
  /\ redeemed = [i \in LinkIds |-> 0]
  /\ caught = {} /\ survivors = {}

Start(r, step, j) ==
  /\ pc[r] = "idle"
  /\ pc' = [pc EXCEPT ![r] = step]
  /\ job' = [job EXCEPT ![r] = j]
  /\ UNCHANGED caught

Goto(r, step) == pc' = [pc EXCEPT ![r] = step]

Leave(r) ==
  /\ pc' = [pc EXCEPT ![r] = "idle"]
  /\ job' = [job EXCEPT ![r] = Blank]

Finish(r) == Leave(r) /\ caught' = caught \ {r}

\* expiresAt has milliseconds, now has not: in its own second it is past or not.
PerhapsPast(expires) == now >= expires
SurelyPast(expires)  == now > expires

-----------------------------------------------------------------------------
(* Signing in.                                                              *)

\* login: the row is read and the password compared; a refusal changes nothing.
Login(r, a) ==
  /\ a \in users \cap Registered
  /\ Start(r, "sign", [Blank EXCEPT !.user = a])
  /\ UNCHANGED <<db, now, held, history>>

\* verifyOtp: the account is looked up by its phone number.  (The update of
\* phoneVerified of an account that has a row is left out.)
VerifyOtp(r, a) ==
  /\ Start(r, IF a \in users THEN "sign" ELSE "signup", [Blank EXCEPT !.user = a])
  /\ UNCHANGED <<db, now, held, history>>

\* It is created, unless a concurrent request has: P2002, an error.
SignUp(r) ==
  /\ pc[r] = "signup"
  /\ IF job[r].user \in users
     THEN Finish(r) /\ UNCHANGED users
     ELSE Goto(r, "sign") /\ users' = users \cup {job[r].user} /\ UNCHANGED <<job, caught>>
  /\ UNCHANGED <<tokens, links, lastToken, lastLink, now, held, history>>

\* generateTokens: both tokens take the second of signing as their iat.
Sign(r) ==
  /\ pc[r] = "sign"
  /\ job' = [job EXCEPT ![r].iat = now]
  /\ Goto(r, IF job[r].row # 0 THEN "rotate" ELSE "store")
  /\ UNCHANGED <<db, now, held, caught, history>>

Signed(r) == <<job[r].user, job[r].iat>>

\* Mutant of TokenTaken: no unique index.
TokenNeverTaken(r) == FALSE

\* RefreshToken.token is @unique.
TokenTaken(r) == \E t \in tokens : StringOf(t) = Signed(r)

NewToken(r) ==
  [id |-> lastToken + 1, user |-> job[r].user, iat |-> job[r].iat,
   expires |-> now + Lifetime]

\* storeRefreshToken, and the answer with the token.
Store(r) ==
  /\ pc[r] = "store"
  /\ lastToken < MaxTokens
  /\ ~TokenTaken(r)
  /\ tokens' = tokens \cup {NewToken(r)}
  /\ lastToken' = lastToken + 1
  /\ held' = held \cup {Signed(r)}
  /\ live' = live \cup {Signed(r)}
  /\ survivors' = IF r \in caught THEN survivors \cup {lastToken'} ELSE survivors
  /\ Finish(r)
  /\ UNCHANGED <<users, links, lastLink, now, exchanged, redeemed>>

\* The same string is stored already: P2002, an error, and a token that was
\* being exchanged is gone.
StoreRefused(r) ==
  /\ pc[r] = "store"
  /\ TokenTaken(r)
  /\ Finish(r)
  /\ UNCHANGED <<db, now, held, history>>

-----------------------------------------------------------------------------
(* refreshTokens and logout.                                                *)

\* jwtService.verify: signature and exp.
Refresh(r, s) ==
  /\ s \in held
  /\ now < s[2] + Lifetime
  /\ Start(r, "find", [Blank EXCEPT !.user = s[1], !.iat = s[2]])
  /\ UNCHANGED <<db, now, held, history>>

\* The row is looked up by its string.
Find(r) ==
  /\ pc[r] = "find"
  /\ \E t \in tokens :
       /\ StringOf(t) = Signed(r)
       /\ job' = [job EXCEPT ![r] = [Blank EXCEPT !.user = t.user, !.row = t.id]]
       /\ \/ PerhapsPast(t.expires) /\ Goto(r, "purge")
          \/ ~SurelyPast(t.expires) /\ Goto(r, "sign")
  /\ UNCHANGED <<db, now, held, caught, history>>

FindNothing(r) ==
  /\ pc[r] = "find"
  /\ ~TokenTaken(r)
  /\ Finish(r)
  /\ UNCHANGED <<db, now, held, history>>

RowsWith(id) == {t \in tokens : t.id = id}

\* An expired row is deleted, the request refused either way.
Purge(r) ==
  /\ pc[r] = "purge"
  /\ tokens' = tokens \ RowsWith(job[r].row)
  /\ Finish(r)
  /\ UNCHANGED <<users, links, lastToken, lastLink, now, held, history>>

\* Mutants of Rotate: deleteMany, which does not mind that the row is gone;
\* the rows of the user instead of the one row.
RotateLoosely(r) ==
  /\ pc[r] = "rotate"
  /\ tokens' = tokens \ RowsWith(job[r].row)
  /\ live' = live \ {StringOf(t) : t \in RowsWith(job[r].row)}
  /\ exchanged' = [exchanged EXCEPT ![job[r].row] = @ + 1]
  /\ Goto(r, "store")
  /\ UNCHANGED <<users, links, lastToken, lastLink, now, job, held, redeemed, caught, survivors>>

RotateAll(r) ==
  /\ pc[r] = "rotate"
  /\ RowsWith(job[r].row) # {}
  /\ tokens' = {t \in tokens : t.user # job[r].user}
  /\ live' = live \ {StringOf(t) : t \in RowsWith(job[r].row)}
  /\ exchanged' = [exchanged EXCEPT ![job[r].row] = @ + 1]
  /\ Goto(r, "store")
  /\ UNCHANGED <<users, links, lastToken, lastLink, now, job, held, redeemed, caught, survivors>>

\* The old row is deleted by its id, in a statement of its own.
Rotate(r) ==
  /\ pc[r] = "rotate"
  /\ RowsWith(job[r].row) # {}
  /\ tokens' = tokens \ RowsWith(job[r].row)
  /\ live' = live \ {StringOf(t) : t \in RowsWith(job[r].row)}
  /\ exchanged' = [exchanged EXCEPT ![job[r].row] = @ + 1]
  /\ Goto(r, "store")
  /\ caught' = IF job[r].row \in survivors THEN caught \cup {r} ELSE caught
  /\ UNCHANGED <<users, links, lastToken, lastLink, now, job, held, redeemed, survivors>>

\* Another request has deleted it: P2025, refused.
RotateRefused(r) ==
  /\ pc[r] = "rotate"
  /\ RowsWith(job[r].row) = {}
  /\ Finish(r)
  /\ UNCHANGED <<db, now, held, history>>

\* logout is one deleteMany.
Logout(s) ==
  /\ s \in held
  /\ tokens' = {t \in tokens : StringOf(t) # s}
  /\ live' = live \ {s}
  /\ UNCHANGED <<users, links, lastToken, lastLink, now, handler, held,
                 exchanged, redeemed, survivors>>

-----------------------------------------------------------------------------
(* forgotPassword and resetPassword.                                        *)

\* Only an administrator with a password gets a link; the others get the same
\* answer and nothing happens.
ForgotPassword(r, a) ==
  /\ a \in users \cap Registered
  /\ Start(r, "discard", [Blank EXCEPT !.user = a])
  /\ UNCHANGED <<db, now, held, history>>

LinksOf(a) == {l \in links : l.user = a}

\* Mutant of Discard: the earlier links stay.
DiscardNothing(r) ==
  /\ pc[r] = "discard"
  /\ Goto(r, "link")
  /\ UNCHANGED <<db, now, job, caught, held, history>>

\* The earlier links of the account are deleted.
Discard(r) ==
  /\ pc[r] = "discard"
  /\ links' = links \ LinksOf(job[r].user)
  /\ Goto(r, "link")
  /\ UNCHANGED <<users, tokens, lastToken, lastLink, now, job, caught, held, history>>

\* A new one is created.
CreateLink(r) ==
  /\ pc[r] = "link"
  /\ lastLink < MaxLinks
  /\ lastLink' = lastLink + 1
  /\ links' = links \cup {[id |-> lastLink', user |-> job[r].user,
                           expires |-> now + ResetLifetime]}
  /\ Goto(r, "mail")
  /\ UNCHANGED <<users, tokens, lastToken, now, job, caught, held, history>>

\* The mail is under way once the link is stored; sendPasswordResetEmail ends,
\* well, with an error or at its timeout, and the mail arrives or does not.
Mail(r) ==
  /\ pc[r] = "mail"
  /\ Finish(r)
  /\ UNCHANGED <<db, now, held, history>>

\* resetPassword: the link is read; a wrong or unknown one is refused.
ResetPassword(r, l) ==
  /\ l \in links
  /\ \E step \in {"expire", "hash"} :
       /\ IF step = "expire" THEN PerhapsPast(l.expires) ELSE ~SurelyPast(l.expires)
       /\ Start(r, step, [Blank EXCEPT !.user = l.user, !.row = l.id])
  /\ UNCHANGED <<db, now, held, history>>

LinkLeft(r) == {l \in links : l.id = job[r].row}

ExpireLink(r) ==
  /\ pc[r] = "expire"
  /\ links' = links \ LinkLeft(r)
  /\ Finish(r)
  /\ UNCHANGED <<users, tokens, lastToken, lastLink, now, held, history>>

\* delete of the link fails, and the transaction with it, when it is gone.
LinkValid(r) == LinkLeft(r) # {}

\* The requests with a session of account a in hand that is not stored.
Carrying(a) ==
  {q \in Requests :
     job[q].user = a /\ (pc[q] = "store" \/ (pc[q] = "sign" /\ job[q].row = 0))}

\* Mutant of Ended: the sessions stay.
EndedNone(a) == {}

Ended(a) == {t \in tokens : t.user = a}

\* The transaction: the password is set, the link and every session removed.
SetPassword(r) ==
  LET a == job[r].user IN
  /\ pc[r] = "hash"
  /\ LinkValid(r)
  /\ links' = links \ LinkLeft(r)
  /\ tokens' = tokens \ Ended(a)
  /\ live' = {s \in live : s[1] # a}
  /\ redeemed' = [redeemed EXCEPT ![job[r].row] = @ + 1]
  /\ Leave(r)
  /\ caught' = (caught \cup Carrying(a)) \ {r}
  /\ survivors' = survivors \cup {t.id : t \in {t \in tokens' : t.user = a}}
  /\ UNCHANGED <<users, lastToken, lastLink, now, held, exchanged>>

SetRefused(r) ==
  /\ pc[r] = "hash"
  /\ ~LinkValid(r)
  /\ Finish(r)
  /\ UNCHANGED <<db, now, held, history>>

-----------------------------------------------------------------------------

Tick ==
  /\ now < MaxNow
  /\ now' = now + 1
  /\ UNCHANGED <<db, handler, held, history>>

\* A database error, a dropped connection or a restart.
Drop(r) ==
  /\ pc[r] # "idle"
  /\ Finish(r)
  /\ UNCHANGED <<db, now, held, history>>

SignInStep(r)  == SignUp(r) \/ Sign(r) \/ Store(r) \/ StoreRefused(r)
RefreshStep(r) == Find(r) \/ FindNothing(r) \/ Purge(r) \/ Rotate(r) \/ RotateRefused(r)
ResetStep(r)   == Discard(r) \/ CreateLink(r) \/ Mail(r) \/ ExpireLink(r)
                  \/ SetPassword(r) \/ SetRefused(r)

Arrival(r) ==
  \/ \E a \in Accounts : Login(r, a) \/ VerifyOtp(r, a) \/ ForgotPassword(r, a)
  \/ \E s \in held : Refresh(r, s)
  \/ \E l \in links : ResetPassword(r, l)

Next ==
  \/ \E r \in Requests : Arrival(r) \/ SignInStep(r) \/ RefreshStep(r) \/ ResetStep(r) \/ Drop(r)
  \/ \E s \in held : Logout(s)
  \/ Tick

Spec == Init /\ [][Next]_vars

-----------------------------------------------------------------------------
(* What must be true of it.                                                 *)

\* The rows and the handlers' locals keep their types, and a token string names
\* one row, also when two sign-ins of an account fall in the same second.
TypeOK ==
  /\ users \subseteq Accounts
  /\ tokens \subseteq Token
  /\ \A t, u \in tokens : StringOf(t) = StringOf(u) => t = u
  /\ links \subseteq Link
  /\ lastToken \in 0..MaxTokens
  /\ lastLink \in 0..MaxLinks
  /\ now \in Seconds
  /\ pc \in [Requests -> Steps]
  /\ job \in [Requests -> Job]
  /\ held \subseteq String
  /\ live \subseteq held
  /\ exchanged \in [TokenIds -> Nat]
  /\ redeemed \in [LinkIds -> Nat]
  /\ caught \subseteq Requests
  /\ survivors \subseteq TokenIds

\* A stored refresh token is exchanged for a new one at most once, and a reset link
\* sets a password at most once, however many requests bring it: the delete by id
\* decides.
UsedOnce ==
  /\ \A i \in TokenIds : exchanged[i] <= 1
  /\ \A i \in LinkIds : redeemed[i] <= 1

\* A token a client was sent, and has not exchanged, logged out or lost to a
\* reset, is stored until it expires: no other session's rotation, logout or
\* collision in the same second takes it away.
SessionsKept ==
  \A s \in live : now < s[2] + Lifetime => \E t \in tokens : StringOf(t) = s

\* forgotPassword deletes the old links in a statement of its own, so several
\* can be valid, but never more than requests ran at the same time.
LinksBounded ==
  \A a \in Accounts : Cardinality(LinksOf(a)) <= Cardinality(Requests)

SurvivorsOf(a) == {t \in tokens : t.user = a /\ t.id \in survivors}

\* "After the password is changed all sessions are invalidated"
\* (markdown/FORGOT_PASSWORD_GUIDE.md:13): but those that a request had in hand and
\* stores later, one at most of each request but the one that resets, and what they
\* are exchanged for.  A session is a refresh token here: access tokens are in no table
\* and are accepted until they expire (validateUser looks only at the account).
ResetEndsSessions ==
  \A a \in Accounts : Cardinality(SurvivorsOf(a)) < Cardinality(Requests)

\* Requests that have proved who they are and will store a session.
LetIn(r) == pc[r] \in {"signup", "store"} \/ (pc[r] = "sign" /\ job[r].row = 0)

\* The credentials as their owners see them.
Promise == INSTANCE Credentials WITH
  Clients     <- Requests,
  SessionIds  <- TokenIds,
  session     <- [i \in TokenIds |-> {t.user : t \in RowsWith(i)}],
  link        <- [i \in LinkIds |-> {l.user : l \in {k \in links : k.id = i}}],
  granted     <- [r \in Requests |-> IF LetIn(r) THEN {job[r].user} ELSE {}],
  lastSession <- lastToken

\* Whatever requests bring the same token or link, in any order and dropped anywhere,
\* a session comes of a sign-in or of one other that ends, a link is used once, and no
\* session of before a reset is there after it.
ImplementsCredentials == Promise!Spec
=============================================================================
