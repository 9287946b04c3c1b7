------------------------------ MODULE Terminal ------------------------------
(***************************************************************************)
(* The terminal tool, tools/mcp-terminal-server.js: JSON-RPC lines arrive  *)
(* on stdin, each is handled in a callback of one Node process, and        *)
(* terminal_run starts a shell per call.  A step is one event callback     *)
(* with the microtasks behind it, or something the shell does.             *)
(*                                                                         *)
(* A line is a member of Requests.  call[r] is what the server knows of    *)
(* it, proc[r] the shell it started.  Bytes are counted in units.          *)
(***************************************************************************)
EXTENDS Integers, FiniteSets

CONSTANTS
  Requests,    \* bound: the lines the client may send
  MaxBytes,    \* maxOutputBytes of every call
  MaxWritten,  \* bound: what a command writes
  Habits       \* bound: what commands do beyond running and ending, see below

\* A background process keeps the pipes of its shell open; a foreign one runs
\* as another user and cannot be signalled.
ASSUME HabitsAssumption == Habits \subseteq {"background", "foreign"}

ASSUME BytesAssumption ==
  /\ MaxBytes \in Nat \ {0}
  /\ MaxWritten \in Nat

ASSUME RequestsAssumption == IsFiniteSet(Requests)

VARIABLES
  call,             \* handleLine and runCommand of each line
  proc,             \* the shell of each call
  pendingRequests,  \* the counter of lines being handled
  stdinEnded,       \* has the client closed its end?
  exited            \* has process.exit been called?

server == <<call, pendingRequests, stdinEnded, exited>>
vars   == <<server, proc>>

Phases   == {"unsent", "direct", "running", "done"}
Timers   == {"off", "armed", "fired", "spent"}
Outcomes == {"none", "success", "failure"}
Shells   == {"none", "failed", "alive", "zero", "nonzero", "killed"}

Call ==
  [phase : Phases, silent : BOOLEAN, answers : Nat, timer : Timers,
   timedOut : BOOLEAN, closed : BOOLEAN, kept : 0..MaxBytes,
   truncated : BOOLEAN, outcome : Outcomes]

NewCall ==
  [phase |-> "unsent", silent |-> FALSE, answers |-> 0, timer |-> "off",
   timedOut |-> FALSE, closed |-> FALSE, kept |-> 0,
   truncated |-> FALSE, outcome |-> "none"]

Proc ==
  [shell : Shells, background : BOOLEAN, foreign : BOOLEAN,
   written : 0..MaxWritten, read : 0..MaxWritten]

NoProc ==
  [shell |-> "none", background |-> FALSE, foreign |-> FALSE,
   written |-> 0, read |-> 0]

Init ==
  /\ call = [r \in Requests |-> NewCall]
  /\ proc = [r \in Requests |-> NoProc]
  /\ pendingRequests = 0
  /\ stdinEnded = FALSE
  /\ exited = FALSE

-----------------------------------------------------------------------------
(* Lines, answers and the end of the input.                                 *)

\* Mutant of Drained: the end of the input alone ends the server.
EndedIsDrained(ended, pending) == ended

\* exitWhenDrained.
Drained(ended, pending) == ended /\ pending = 0

\* The line is read: the callback counts it and calls handleLine.
Take(r, c, p) ==
  /\ ~exited
  /\ ~stdinEnded
  /\ call[r].phase = "unsent"
  /\ pendingRequests' = pendingRequests + 1
  /\ call' = [call EXCEPT ![r] = c]
  /\ proc' = [proc EXCEPT ![r] = p]
  /\ UNCHANGED <<stdinEnded, exited>>

\* Everything but terminal_run: pings, lists, parse and argument errors, which
\* are answered, and notifications, which are not.
TakeDirect(r) ==
  \E silent \in BOOLEAN :
    Take(r, [NewCall EXCEPT !.phase = "direct", !.silent = silent], NoProc)

\* terminal_run with sound arguments: spawn succeeds or fails.
TakeCommand(r) ==
  \E shell \in {"alive", "failed"} :
    Take(r, [NewCall EXCEPT !.phase = "running", !.timer = "armed"],
            [NoProc EXCEPT !.shell = shell])

\* What an answer changes: c is the call with the rest of the callback done.
Settle(r, c) ==
  /\ call' = [call EXCEPT ![r] = [c EXCEPT !.phase = "done",
                                           !.answers = IF c.silent THEN @ ELSE @ + 1]]
  /\ pendingRequests' = pendingRequests - 1
  /\ exited' = Drained(stdinEnded, pendingRequests - 1)
  /\ UNCHANGED stdinEnded

AnswerDirect(r) ==
  /\ ~exited
  /\ call[r].phase = "direct"
  /\ Settle(r, call[r])
  /\ UNCHANGED proc

\* Mutant of EndInput: the end is noted, the drain checked only by answers.
EndQuietly ==
  /\ ~exited
  /\ ~stdinEnded
  /\ stdinEnded' = TRUE
  /\ UNCHANGED <<call, proc, pendingRequests, exited>>

\* 'end'; what is left in inputBuffer without a newline is dropped.
EndInput ==
  /\ ~exited
  /\ ~stdinEnded
  /\ stdinEnded' = TRUE
  /\ exited' = Drained(TRUE, pendingRequests)
  /\ UNCHANGED <<call, proc, pendingRequests>>

-----------------------------------------------------------------------------
(* The callbacks of runCommand.                                             *)

\* Mutant of Resolve: every event sends an answer of its own.
ResolveAgain(r, c) == Settle(r, c)

\* The promise resolves once: a later event changes only the locals.
Resolve(r, c) ==
  IF c.phase = "running"
  THEN Settle(r, c)
  ELSE /\ call' = [call EXCEPT ![r] = c]
       /\ UNCHANGED <<pendingRequests, stdinEnded, exited>>

Cleared(c) == IF c.timer = "armed" THEN "off" ELSE c.timer

\* 'error', from spawn: there is no process.
SpawnError(r) ==
  /\ ~exited
  /\ proc[r].shell = "failed"
  /\ call[r].phase = "running"
  /\ Resolve(r, [call[r] EXCEPT !.timer = Cleared(call[r]), !.outcome = "failure"])
  /\ UNCHANGED proc

\* Mutant of PipesClosed: 'exit' is taken for 'close'.
ShellGone(r) == proc[r].shell \notin {"none", "failed", "alive"}

\* 'close' comes when the shell is gone and nobody holds its pipes.
PipesClosed(r) ==
  /\ proc[r].shell \notin {"none", "failed", "alive"}
  /\ ~proc[r].background
  /\ proc[r].read = proc[r].written

\* Mutant of Succeeded: a command that ends well after its timeout succeeded.
ExitedZero(r) == proc[r].shell = "zero"

\* !isError
Succeeded(r) == proc[r].shell = "zero" /\ ~call[r].timedOut

\* The 'close' of a failed spawn follows its 'error'.
Close(r) ==
  /\ ~exited
  /\ ~call[r].closed
  /\ PipesClosed(r) \/ (proc[r].shell = "failed" /\ call[r].phase = "done")
  /\ Resolve(r, [call[r] EXCEPT
                   !.closed = TRUE, !.timer = Cleared(call[r]),
                   !.outcome = IF call[r].phase # "running" THEN @
                               ELSE IF Succeeded(r) THEN "success" ELSE "failure"])
  /\ UNCHANGED proc

\* Output is counted in bytes; what a cut through a UTF-8 character decodes to is not
\* modelled.
AppendOutput(c, n) ==
  IF c.kept >= MaxBytes THEN [c EXCEPT !.truncated = TRUE]
  ELSE LET available == MaxBytes - c.kept IN
    [c EXCEPT !.kept = IF n < available THEN c.kept + n ELSE MaxBytes,
              !.truncated = @ \/ n > available]

\* 'data' on either stream; the two share one budget.
ReadOutput(r, n) ==
  /\ ~exited
  /\ n <= proc[r].written - proc[r].read
  /\ call' = [call EXCEPT ![r] = AppendOutput(@, n)]
  /\ proc' = [proc EXCEPT ![r].read = @ + n]
  /\ UNCHANGED <<pendingRequests, stdinEnded, exited>>

\* child.kill of a running shell: refused with 'error' for a foreign one.
Refused(r) == proc[r].shell = "alive" /\ proc[r].foreign

Signalled(r, c) ==
  IF Refused(r)
  THEN Resolve(r, [c EXCEPT !.timer = Cleared(c),
                            !.outcome = IF c.phase = "running" THEN "failure" ELSE @])
  ELSE /\ call' = [call EXCEPT ![r] = c]
       /\ UNCHANGED <<pendingRequests, stdinEnded, exited>>

\* The timeout fires: SIGTERM, which the shell may survive.
Timeout(r) ==
  /\ ~exited
  /\ call[r].timer = "armed"
  /\ Signalled(r, [call[r] EXCEPT !.timer = "fired", !.timedOut = TRUE])
  /\ \E shell \in {proc[r].shell, "killed"} :
       /\ shell = "killed" => proc[r].shell = "alive" /\ ~proc[r].foreign
       /\ proc' = [proc EXCEPT ![r].shell = shell]

\* Mutant of KillTimeout: no SIGKILL follows.
NoKill(r) ==
  /\ ~exited
  /\ call[r].timer = "fired"
  /\ call' = [call EXCEPT ![r].timer = "spent"]
  /\ UNCHANGED <<proc, pendingRequests, stdinEnded, exited>>

\* Two seconds later: SIGKILL, unless 'close' has come.
KillTimeout(r) ==
  /\ ~exited
  /\ call[r].timer = "fired"
  /\ LET c == [call[r] EXCEPT !.timer = "spent"] IN
       IF call[r].closed
       THEN call' = [call EXCEPT ![r] = c] /\ UNCHANGED <<pendingRequests, stdinEnded, exited>>
       ELSE Signalled(r, c)
  /\ proc' = IF ~call[r].closed /\ proc[r].shell = "alive" /\ ~proc[r].foreign
             THEN [proc EXCEPT ![r].shell = "killed"]
             ELSE proc

-----------------------------------------------------------------------------
(* The shell and what it starts.                                            *)

Write(r) ==
  /\ proc[r].shell = "alive" \/ proc[r].background
  /\ proc[r].written < MaxWritten
  /\ proc' = [proc EXCEPT ![r].written = @ + 1]
  /\ UNCHANGED server

ShellExits(r) ==
  /\ proc[r].shell = "alive"
  /\ \E shell \in {"zero", "nonzero"} : proc' = [proc EXCEPT ![r].shell = shell]
  /\ UNCHANGED server

StartBackground(r) ==
  /\ "background" \in Habits
  /\ proc[r].shell = "alive"
  /\ proc' = [proc EXCEPT ![r].background = TRUE]
  /\ UNCHANGED server

EndBackground(r) ==
  /\ proc[r].background
  /\ proc' = [proc EXCEPT ![r].background = FALSE]
  /\ UNCHANGED server

BecomeForeign(r) ==
  /\ "foreign" \in Habits
  /\ proc[r].shell = "alive"
  /\ proc' = [proc EXCEPT ![r].foreign = TRUE]
  /\ UNCHANGED server

-----------------------------------------------------------------------------

Callback(r) ==
  \/ AnswerDirect(r)
  \/ SpawnError(r)
  \/ Close(r)
  \/ \E n \in 1..MaxWritten : ReadOutput(r, n)
  \/ Timeout(r)
  \/ KillTimeout(r)

Shell(r) ==
  Write(r) \/ ShellExits(r) \/ StartBackground(r) \/ EndBackground(r) \/ BecomeForeign(r)

Next ==
  \/ \E r \in Requests : TakeDirect(r) \/ TakeCommand(r) \/ Callback(r) \/ Shell(r)
  \/ EndInput

Spec == Init /\ [][Next]_vars

\* The event loop serves every event that is ready; no shell need ever end.
FairSpec == Spec /\ \A r \in Requests : WF_vars(Callback(r))

\* Commands whose background processes end at some time.
EndingSpec == FairSpec /\ \A r \in Requests : WF_vars(EndBackground(r))

-----------------------------------------------------------------------------
(* What must be true of it.                                                 *)

\* The locals of the handlers and the counters keep their types.
TypeOK ==
  /\ call \in [Requests -> Call]
  /\ proc \in [Requests -> Proc]
  /\ pendingRequests \in Nat
  /\ stdinEnded \in BOOLEAN
  /\ exited \in BOOLEAN

InHand == {r \in Requests : call[r].phase \in {"direct", "running"}}

\* process.exit is called only when every line read has had its answer, exactly
\* one, although 'error', 'close' and two timers may all end the same call.
ExitOwesNothing ==
  exited => \A r \in Requests :
    call[r].phase # "unsent" =>
      call[r].phase = "done" /\ call[r].answers = (IF call[r].silent THEN 0 ELSE 1)

\* A call whose 'close' answered it reports all that was written, up to the cap,
\* and says truncated exactly when something is missing: no byte comes later.
OutputTruthful ==
  \A r \in Requests :
    (call[r].closed /\ proc[r].shell # "failed") =>
      /\ call[r].kept = (IF proc[r].written < MaxBytes THEN proc[r].written ELSE MaxBytes)
      /\ call[r].truncated <=> proc[r].written > MaxBytes

\* A call that is reported without error ended by itself, within its timeout.
SuccessIsOwnExit ==
  \A r \in Requests :
    call[r].outcome = "success" =>
      proc[r].shell = "zero" /\ ~call[r].timedOut /\ call[r].timer = "off"

Tools == INSTANCE ToolServer WITH
  taken   <- {r \in Requests : call[r].phase # "unsent" /\ ~call[r].silent},
  answers <- [r \in Requests |-> call[r].answers],
  gone    <- exited

\* The tool server keeps the promise of ToolServer.
ImplementsToolServer == Tools!Spec

\* Every call is answered, at the latest once its timeout and the SIGKILL after
\* it have come and nobody holds its pipes.
RequestsAnswered == \A r \in Requests : r \in InHand ~> call[r].phase = "done"

\* After the end of the input the server exits.
ServerExits == stdinEnded ~> exited

=============================================================================
