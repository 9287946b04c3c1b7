----------------------------- MODULE ToolServer -----------------------------
(***************************************************************************)
(* What a client of the terminal tool may rely on, without processes,      *)
(* timers or pipes: every request taken is answered once, a notification   *)
(* never, and the server does not go away while it owes an answer.         *)
(* Terminal implements it.                                                 *)
(***************************************************************************)
CONSTANT Requests

VARIABLES
  taken,    \* lines the server has read that want an answer
  answers,  \* how often each line has been answered
  gone      \* has the server exited?

vars == <<taken, answers, gone>>

Init ==
  /\ taken = {}
  /\ answers = [r \in Requests |-> 0]
  /\ gone = FALSE

Take(r) ==
  /\ ~gone
  /\ r \notin taken
  /\ taken' = taken \cup {r}
  /\ UNCHANGED <<answers, gone>>

\* The last answer and the exit may be one step.
Answer(r) ==
  /\ ~gone
  /\ r \in taken
  /\ answers[r] = 0
  /\ answers' = [answers EXCEPT ![r] = 1]
  /\ gone' \in {FALSE, \A q \in taken : answers'[q] = 1}
  /\ UNCHANGED taken

Leave ==
  /\ ~gone
  /\ \A r \in taken : answers[r] = 1
  /\ gone' = TRUE
  /\ UNCHANGED <<taken, answers>>

Next == Leave \/ \E r \in Requests : Take(r) \/ Answer(r)

Spec == Init /\ [][Next]_vars
=============================================================================
