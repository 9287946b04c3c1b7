----------------------------- MODULE Credentials -----------------------------
(***************************************************************************)
(* What a customer may rely on about refresh tokens and reset links,       *)
(* without rows, strings, clocks or handlers: a session is issued once,    *)
(* for a sign-in or in exchange for one session that ends with it; a link  *)
(* sets one password and ends all sessions of its account at that moment;  *)
(* what has ended never comes back.  Sessions implements it.               *)
(***************************************************************************)
EXTENDS Integers

CONSTANTS
  Clients,     \* who may ask at the same time
  Accounts,
  SessionIds,  \* initial segments of the natural numbers
  LinkIds

VARIABLES
  session,      \* the account that each session is good for, as a set: none or one
  link,         \* the account whose password each reset link may set, likewise
  granted,      \* the account each client has been let in to and has no session of yet
  exchanged,    \* how often each session was exchanged
  redeemed,     \* how often each link set a password
  lastSession,  \* the newest session
  lastLink      \* the newest link

vars == <<session, link, granted, exchanged, redeemed, lastSession, lastLink>>

Init ==
  /\ session = [i \in SessionIds |-> {}]
  /\ link = [i \in LinkIds |-> {}]
  /\ granted = [c \in Clients |-> {}]
  /\ exchanged = [i \in SessionIds |-> 0]
  /\ redeemed = [i \in LinkIds |-> 0]
  /\ lastSession = 0
  /\ lastLink = 0

\* A password or a one-time code is accepted.
SignIn(c, a) ==
  /\ granted[c] = {}
  /\ granted' = [granted EXCEPT ![c] = {a}]
  /\ UNCHANGED <<session, link, exchanged, redeemed, lastSession, lastLink>>

\* A session is given for the right to a new one.
Exchange(c, i) ==
  /\ granted[c] = {} /\ session[i] # {}
  /\ granted' = [granted EXCEPT ![c] = session[i]]
  /\ session' = [session EXCEPT ![i] = {}]
  /\ exchanged' = [exchanged EXCEPT ![i] = @ + 1]
  /\ UNCHANGED <<link, redeemed, lastSession, lastLink>>

Issue(c) ==
  /\ granted[c] # {}
  /\ lastSession' = lastSession + 1 /\ lastSession' \in SessionIds
  /\ session' = [session EXCEPT ![lastSession'] = granted[c]]
  /\ granted' = [granted EXCEPT ![c] = {}]
  /\ UNCHANGED <<link, exchanged, redeemed, lastLink>>

\* The request fails, or what it would store is refused.
Forfeit(c) ==
  /\ granted' = [granted EXCEPT ![c] = {}]
  /\ UNCHANGED <<session, link, exchanged, redeemed, lastSession, lastLink>>

\* A session is logged out, or found to have expired.
End(i) ==
  /\ session' = [session EXCEPT ![i] = {}]
  /\ UNCHANGED <<link, granted, exchanged, redeemed, lastSession, lastLink>>

CreateLink(a) ==
  /\ lastLink' = lastLink + 1 /\ lastLink' \in LinkIds
  /\ link' = [link EXCEPT ![lastLink'] = {a}]
  /\ UNCHANGED <<session, granted, exchanged, redeemed, lastSession>>

\* A link is found to have expired, or all of an account make way for a new one.
ExpireLink(i) ==
  /\ link' = [link EXCEPT ![i] = {}]
  /\ UNCHANGED <<session, granted, exchanged, redeemed, lastSession, lastLink>>

DiscardLinks(a) ==
  /\ link' = [i \in LinkIds |-> link[i] \ {a}]
  /\ UNCHANGED <<session, granted, exchanged, redeemed, lastSession, lastLink>>

\* The password is set and every session of the account ended, in one step.
Redeem(i) ==
  /\ link[i] # {}
  /\ link' = [link EXCEPT ![i] = {}]
  /\ session' = [j \in SessionIds |-> session[j] \ link[i]]
  /\ redeemed' = [redeemed EXCEPT ![i] = @ + 1]
  /\ UNCHANGED <<granted, exchanged, lastSession, lastLink>>

Next ==
  \/ \E c \in Clients :
       Issue(c) \/ Forfeit(c) \/ (\E a \in Accounts : SignIn(c, a)) \/ \E i \in SessionIds : Exchange(c, i)
  \/ \E i \in SessionIds : End(i)
  \/ \E a \in Accounts : CreateLink(a) \/ DiscardLinks(a)
  \/ \E i \in LinkIds : ExpireLink(i) \/ Redeem(i)

Spec == Init /\ [][Next]_vars
=============================================================================
