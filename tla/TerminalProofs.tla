--------------------------- MODULE TerminalProofs ---------------------------
(***************************************************************************)
(* Theorems of Terminal, for any number of lines, any cap on the output    *)
(* and commands of every habit.                                            *)
(***************************************************************************)
EXTENDS Terminal, FiniteSetTheorems, TLAPS

-----------------------------------------------------------------------------
(* Types of the records the steps build.                                    *)

\* The writes of the callbacks keep a call well typed.
LEMMA CallFields ==
  ASSUME NEW c \in Call
  PROVE  /\ [c EXCEPT !.timer = Cleared(c), !.outcome = "failure"] \in Call
         /\ [c EXCEPT !.timer = Cleared(c)] \in Call
         /\ [c EXCEPT !.timer = "fired", !.timedOut = TRUE] \in Call
         /\ [c EXCEPT !.timer = "spent"] \in Call
         /\ \A x \in Outcomes :
              [c EXCEPT !.closed = TRUE, !.timer = Cleared(c), !.outcome = x] \in Call
         /\ [c EXCEPT !.phase = "done",
                      !.answers = IF c.silent THEN @ ELSE @ + 1] \in Call
<1>1. Cleared(c) \in Timers
  BY DEF Cleared, Call, Timers
<1>2. [c EXCEPT !.timer = Cleared(c), !.outcome = "failure"] \in Call
  BY <1>1 DEF Call, Outcomes
<1>3. [c EXCEPT !.timer = Cleared(c)] \in Call
  BY <1>1 DEF Call
<1>4. [c EXCEPT !.timer = "fired", !.timedOut = TRUE] \in Call
  BY DEF Call, Timers
<1>5. [c EXCEPT !.timer = "spent"] \in Call
  BY DEF Call, Timers
<1>6. ASSUME NEW x \in Outcomes
      PROVE  [c EXCEPT !.closed = TRUE, !.timer = Cleared(c), !.outcome = x] \in Call
  BY <1>1 DEF Call
<1>7. [c EXCEPT !.phase = "done", !.answers = IF c.silent THEN @ ELSE @ + 1] \in Call
  <2>1. (IF c.silent THEN c.answers ELSE c.answers + 1) \in Nat
    BY DEF Call
  <2>. QED
    BY <2>1 DEF Call, Phases
<1>. QED
  BY <1>2, <1>3, <1>4, <1>5, <1>6, <1>7

\* The records of a line that has just been read.
LEMMA NewCalls ==
  /\ NewCall \in Call
  /\ \A s \in BOOLEAN : [NewCall EXCEPT !.phase = "direct", !.silent = s] \in Call
  /\ [NewCall EXCEPT !.phase = "running", !.timer = "armed"] \in Call
<1>1. NewCall \in Call
  <2>1. 0 \in 0..MaxBytes
    BY BytesAssumption
  <2>. QED
    BY <2>1 DEF NewCall, Call, Phases, Timers, Outcomes
<1>2. ASSUME NEW s \in BOOLEAN
      PROVE  [NewCall EXCEPT !.phase = "direct", !.silent = s] \in Call
  BY <1>1 DEF Call, Phases
<1>3. [NewCall EXCEPT !.phase = "running", !.timer = "armed"] \in Call
  BY <1>1 DEF Call, Phases, Timers
<1>. QED
  BY <1>1, <1>2, <1>3

\* The records of a shell that has just been started, or has not.
LEMMA NewProcs ==
  /\ NoProc \in Proc
  /\ \A s \in Shells : [NoProc EXCEPT !.shell = s] \in Proc
<1>1. 0 \in 0..MaxWritten
  BY BytesAssumption
<1>2. NoProc \in Proc
  BY <1>1 DEF NoProc, Proc, Shells
<1>3. ASSUME NEW s \in Shells PROVE [NoProc EXCEPT !.shell = s] \in Proc
  BY <1>2 DEF Proc
<1>. QED
  BY <1>2, <1>3

\* What the shell does keeps its record well typed.
LEMMA ProcFields ==
  ASSUME NEW p \in Proc
  PROVE  /\ \A s \in Shells : [p EXCEPT !.shell = s] \in Proc
         /\ \A b \in BOOLEAN : [p EXCEPT !.background = b] \in Proc
         /\ [p EXCEPT !.foreign = TRUE] \in Proc
         /\ \A n \in 0..MaxWritten : [p EXCEPT !.written = n] \in Proc
         /\ \A n \in 0..MaxWritten : [p EXCEPT !.read = n] \in Proc
  BY DEF Proc

-----------------------------------------------------------------------------
(* The shapes of a step, as the lines see it.                               *)

\* The counter aside, which needs the invariant below to be a number.
Typed ==
  /\ call \in [Requests -> Call]
  /\ proc \in [Requests -> Proc]
  /\ pendingRequests \in Int
  /\ stdinEnded \in BOOLEAN
  /\ exited \in BOOLEAN

OthersSame(r) ==
  \A q \in Requests \ {r} : call'[q] = call[q] /\ proc'[q] = proc[q]

\* A line is read.
Takes(r) ==
  /\ ~exited /\ ~stdinEnded
  /\ call[r].phase = "unsent"
  /\ call'[r].phase \in {"direct", "running"}
  /\ call'[r].answers = 0
  /\ pendingRequests' = pendingRequests + 1
  /\ UNCHANGED <<stdinEnded, exited>>

\* A line is done with.
Ends(r) ==
  /\ ~exited
  /\ r \in InHand
  /\ call'[r].phase = "done"
  /\ call'[r].silent = call[r].silent
  /\ call'[r].answers = (IF call[r].silent THEN call[r].answers ELSE call[r].answers + 1)
  /\ pendingRequests' = pendingRequests - 1
  /\ stdinEnded' = stdinEnded
  /\ exited' = (stdinEnded /\ pendingRequests - 1 = 0)

\* A line goes on as it was.
Goes(r) ==
  /\ call'[r].phase = call[r].phase
  /\ call'[r].silent = call[r].silent
  /\ call'[r].answers = call[r].answers
  /\ UNCHANGED <<pendingRequests, stdinEnded, exited>>

Shape(r) == Takes(r) \/ Ends(r) \/ Goes(r)

\* Resolve settles a line in hand and leaves a settled one alone.
LEMMA ResolveShape ==
  ASSUME Typed, NEW r \in Requests, NEW c \in Call, ~exited,
         c.phase = call[r].phase, c.silent = call[r].silent, c.answers = call[r].answers,
         Resolve(r, c)
  PROVE  /\ call' \in [Requests -> Call]
         /\ pendingRequests' \in Int /\ stdinEnded' \in BOOLEAN /\ exited' \in BOOLEAN
         /\ \A q \in Requests \ {r} : call'[q] = call[q]
         /\ Ends(r) \/ Goes(r)
         /\ call'[r].timer = c.timer /\ call'[r].timedOut = c.timedOut
         /\ call'[r].closed = c.closed /\ call'[r].kept = c.kept
         /\ call'[r].truncated = c.truncated /\ call'[r].outcome = c.outcome
<1> DEFINE d == [c EXCEPT !.phase = "done", !.answers = IF c.silent THEN @ ELSE @ + 1]
<1>1. d \in Call
  BY CallFields
<1>2. CASE c.phase = "running"
  <2>1. call' = [call EXCEPT ![r] = d] /\ pendingRequests' = pendingRequests - 1
        /\ exited' = (stdinEnded /\ pendingRequests - 1 = 0) /\ stdinEnded' = stdinEnded
    BY <1>2 DEF Resolve, Settle, Drained
  <2>2. call'[r] = d /\ r \in InHand
    BY <1>2, <2>1 DEF Typed, InHand
  <2>. QED
    BY <1>1, <2>1, <2>2 DEF Typed, Ends, Call
<1>3. CASE c.phase # "running"
  BY <1>3 DEF Resolve, Goes, Typed
<1>. QED
  BY <1>2, <1>3

-----------------------------------------------------------------------------
(* Every step has one of these shapes.                                      *)

Stepped(r) == /\ Typed' /\ OthersSame(r) /\ Shape(r)

\* Reading a line.
LEMMA TakeStep ==
  ASSUME Typed, NEW r \in Requests, TakeDirect(r) \/ TakeCommand(r)
  PROVE  /\ Stepped(r)
         /\ call'[r].outcome = "none" /\ ~call'[r].closed /\ ~call'[r].truncated
         /\ call'[r].kept = 0 /\ ~call'[r].timedOut
         /\ call'[r].timer = (IF call'[r].phase = "running" THEN "armed" ELSE "off")
         /\ proc'[r].written = 0 /\ proc'[r].read = 0
<1>1. ASSUME NEW s \in BOOLEAN,
             Take(r, [NewCall EXCEPT !.phase = "direct", !.silent = s], NoProc)
      PROVE  Stepped(r) /\ call'[r] = [NewCall EXCEPT !.phase = "direct", !.silent = s]
             /\ proc'[r] = NoProc
  <2> DEFINE c == [NewCall EXCEPT !.phase = "direct", !.silent = s]
  <2>1. c \in Call /\ NoProc \in Proc
    BY NewCalls, NewProcs
  <2>2. c.phase = "direct" /\ c.answers = 0
    BY DEF NewCall
  <2> HIDE DEF c
  <2>3. Typed' /\ OthersSame(r) /\ call'[r] = c /\ proc'[r] = NoProc
    BY <1>1, <2>1 DEF Typed, Take, OthersSame, c
  <2>4. Takes(r)
    BY <1>1, <2>2, <2>3 DEF Take, Takes
  <2>. QED
    BY <2>3, <2>4 DEF Stepped, Shape, c
<1>2. ASSUME NEW s \in {"alive", "failed"},
             Take(r, [NewCall EXCEPT !.phase = "running", !.timer = "armed"],
                     [NoProc EXCEPT !.shell = s])
      PROVE  Stepped(r) /\ call'[r] = [NewCall EXCEPT !.phase = "running", !.timer = "armed"]
             /\ proc'[r] = [NoProc EXCEPT !.shell = s]
  <2> DEFINE c == [NewCall EXCEPT !.phase = "running", !.timer = "armed"]
             p == [NoProc EXCEPT !.shell = s]
  <2>1. c \in Call /\ p \in Proc
    BY NewCalls, NewProcs DEF Shells
  <2>2. c.phase = "running" /\ c.answers = 0
    BY DEF NewCall
  <2> HIDE DEF c, p
  <2>3. Typed' /\ OthersSame(r) /\ call'[r] = c /\ proc'[r] = p
    BY <1>2, <2>1 DEF Typed, Take, OthersSame, c, p
  <2>4. Takes(r)
    BY <1>2, <2>2, <2>3 DEF Take, Takes
  <2>. QED
    BY <2>3, <2>4 DEF Stepped, Shape, c, p
<1>3. CASE TakeDirect(r)
  <2>1. PICK s \in BOOLEAN : Take(r, [NewCall EXCEPT !.phase = "direct", !.silent = s], NoProc)
    BY <1>3 DEF TakeDirect
  <2>2. /\ Stepped(r) /\ proc'[r] = NoProc
        /\ call'[r] = [NewCall EXCEPT !.phase = "direct", !.silent = s]
    BY <2>1, <1>1
  <2>. QED
    BY <2>2 DEF NewCall, NoProc
<1>4. CASE TakeCommand(r)
  BY <1>2, <1>4 DEF TakeCommand, NewCall, NoProc
<1>. QED
  BY <1>3, <1>4

\* Answering a line that started no command.
LEMMA DirectStep ==
  ASSUME Typed, NEW r \in Requests, AnswerDirect(r)
  PROVE  /\ Stepped(r) /\ proc' = proc
         /\ call'[r].phase = "done" /\ call[r].phase = "direct"
         /\ call'[r] = [call[r] EXCEPT !.phase = "done", !.answers = IF call[r].silent THEN @ ELSE @ + 1]
<1> DEFINE d == [call[r] EXCEPT !.phase = "done", !.answers = IF call[r].silent THEN @ ELSE @ + 1]
<1>1. call[r] \in Call /\ d \in Call
  BY CallFields DEF Typed
<1>2. call' = [call EXCEPT ![r] = d] /\ proc' = proc
  BY DEF AnswerDirect, Settle
<1>3. call'[r] = d
  BY <1>2 DEF Typed
<1>4. /\ d.phase = "done" /\ d.silent = call[r].silent
      /\ d.answers = (IF call[r].silent THEN call[r].answers ELSE call[r].answers + 1)
  BY <1>1 DEF Call
<1>5. Ends(r)
  <2>1. r \in InHand /\ ~exited
    BY DEF AnswerDirect, InHand
  <2>2. /\ pendingRequests' = pendingRequests - 1 /\ stdinEnded' = stdinEnded
        /\ exited' = (stdinEnded /\ pendingRequests - 1 = 0)
    BY DEF AnswerDirect, Settle, Drained
  <2> HIDE DEF d
  <2>. QED
    BY <1>3, <1>4, <2>1, <2>2 DEF Ends
<1>. QED
  BY <1>1, <1>2, <1>3, <1>5 DEF AnswerDirect, Settle, Drained, Typed, Stepped, OthersSame, Shape

\* A callback of a command whose effect on the line is Resolve.
LEMMA ResolveStep ==
  ASSUME Typed, NEW r \in Requests, NEW c \in Call, ~exited,
         c.phase = call[r].phase, c.silent = call[r].silent, c.answers = call[r].answers,
         Resolve(r, c), proc' = proc
  PROVE  Stepped(r)
<1>1. /\ call' \in [Requests -> Call]
      /\ pendingRequests' \in Int /\ stdinEnded' \in BOOLEAN /\ exited' \in BOOLEAN
      /\ \A q \in Requests \ {r} : call'[q] = call[q]
      /\ Ends(r) \/ Goes(r)
  BY ResolveShape
<1>. QED
  BY <1>1 DEF Stepped, OthersSame, Shape, Typed

\* 'error'.
LEMMA SpawnErrorStep ==
  ASSUME Typed, NEW r \in Requests, SpawnError(r)
  PROVE  /\ Stepped(r) /\ proc' = proc
         /\ call'[r].timedOut = call[r].timedOut /\ call'[r].closed = call[r].closed
         /\ call'[r].kept = call[r].kept /\ call'[r].truncated = call[r].truncated
         /\ call'[r].outcome = "failure" /\ call[r].phase = "running"
         /\ call'[r].phase = "done" /\ call'[r].timer = Cleared(call[r])
<1> DEFINE c == [call[r] EXCEPT !.timer = Cleared(call[r]), !.outcome = "failure"]
<1>1. call[r] \in Call
  BY DEF Typed
<1>2. c \in Call
  BY <1>1, CallFields
<1>3. /\ c.phase = call[r].phase /\ c.silent = call[r].silent /\ c.answers = call[r].answers
      /\ c.timedOut = call[r].timedOut /\ c.closed = call[r].closed /\ c.kept = call[r].kept
      /\ c.truncated = call[r].truncated /\ c.outcome = "failure"
      /\ c.timer = Cleared(call[r])
  BY <1>1 DEF Call
<1>4. Resolve(r, c) /\ proc' = proc /\ ~exited /\ call[r].phase = "running"
  BY DEF SpawnError
<1> HIDE DEF c
<1>5. Stepped(r)
  BY <1>2, <1>3, <1>4, ResolveStep
<1>6. /\ call'[r].timedOut = c.timedOut /\ call'[r].closed = c.closed /\ call'[r].kept = c.kept
      /\ call'[r].truncated = c.truncated /\ call'[r].outcome = c.outcome
      /\ call'[r].timer = c.timer
  BY <1>2, <1>3, <1>4, ResolveShape
<1>7. call'[r].phase = "done"
  <2>1. call' = [call EXCEPT ![r] = [c EXCEPT !.phase = "done", !.answers = IF c.silent THEN @ ELSE @ + 1]]
    BY <1>3, <1>4 DEF Resolve, Settle
  <2>. QED
    BY <1>2, <2>1 DEF Call, Typed
<1>. QED
  BY <1>3, <1>4, <1>5, <1>6, <1>7

\* 'close'.
LEMMA CloseStep ==
  ASSUME Typed, NEW r \in Requests, Close(r)
  PROVE  /\ Stepped(r) /\ proc' = proc
         /\ PipesClosed(r) \/ proc[r].shell = "failed"
         /\ call'[r].closed /\ call'[r].timer = Cleared(call[r])
         /\ call'[r].timedOut = call[r].timedOut
         /\ call'[r].kept = call[r].kept /\ call'[r].truncated = call[r].truncated
         /\ call'[r].outcome = (IF call[r].phase # "running" THEN call[r].outcome
                                ELSE IF Succeeded(r) THEN "success" ELSE "failure")
         /\ call'[r].phase = (IF call[r].phase = "running" THEN "done" ELSE call[r].phase)
<1> DEFINE x == IF call[r].phase # "running" THEN call[r].outcome
                ELSE IF Succeeded(r) THEN "success" ELSE "failure"
           c == [call[r] EXCEPT !.closed = TRUE, !.timer = Cleared(call[r]), !.outcome = x]
<1>1. call[r] \in Call /\ x \in Outcomes
  BY DEF Typed, Call, Outcomes
<1>2. c \in Call
  BY <1>1, CallFields
<1>3. /\ c.phase = call[r].phase /\ c.silent = call[r].silent /\ c.answers = call[r].answers
      /\ c.timedOut = call[r].timedOut /\ c.closed /\ c.kept = call[r].kept
      /\ c.truncated = call[r].truncated /\ c.outcome = x /\ c.timer = Cleared(call[r])
  BY <1>1 DEF Call
<1>4. Resolve(r, c) /\ proc' = proc /\ ~exited
  BY <1>1 DEF Close, Call
<1>5. PipesClosed(r) \/ proc[r].shell = "failed"
  BY DEF Close
<1> HIDE DEF c, x
<1>6. Stepped(r)
  BY <1>2, <1>3, <1>4, ResolveStep
<1>7. /\ call'[r].timer = c.timer /\ call'[r].timedOut = c.timedOut /\ call'[r].closed = c.closed
      /\ call'[r].kept = c.kept /\ call'[r].truncated = c.truncated /\ call'[r].outcome = c.outcome
  BY <1>2, <1>3, <1>4, ResolveShape
<1>8. call'[r].phase = (IF call[r].phase = "running" THEN "done" ELSE call[r].phase)
  <2>1. CASE call[r].phase = "running"
    <3>1. call' = [call EXCEPT ![r] = [c EXCEPT !.phase = "done", !.answers = IF c.silent THEN @ ELSE @ + 1]]
      BY <1>3, <1>4, <2>1 DEF Resolve, Settle
    <3>. QED
      BY <1>2, <2>1, <3>1 DEF Call, Typed
  <2>2. CASE call[r].phase # "running"
    <3>1. call' = [call EXCEPT ![r] = c]
      BY <1>3, <1>4, <2>2 DEF Resolve
    <3>. QED
      BY <1>3, <2>2, <3>1 DEF Typed
  <2>. QED
    BY <2>1, <2>2
<1>. QED
  BY <1>3, <1>4, <1>5, <1>6, <1>7, <1>8 DEF x

\* A chunk of output.
LEMMA ReadStep ==
  ASSUME Typed, NEW r \in Requests, NEW n \in 1..MaxWritten, ReadOutput(r, n),
         proc[r].read <= proc[r].written
  PROVE  /\ Stepped(r)
         /\ call'[r] = AppendOutput(call[r], n)
         /\ proc'[r].read = proc[r].read + n /\ proc'[r].written = proc[r].written
         /\ n <= proc[r].written - proc[r].read
         /\ proc'[r].shell = proc[r].shell /\ proc'[r].background = proc[r].background
<1> DEFINE c == AppendOutput(call[r], n)
           p == [proc[r] EXCEPT !.read = @ + n]
<1>1. call[r] \in Call /\ proc[r] \in Proc
  BY DEF Typed
<1>2. c \in Call /\ c.phase = call[r].phase /\ c.silent = call[r].silent /\ c.answers = call[r].answers
  <2>1. CASE call[r].kept >= MaxBytes
    BY <1>1, <2>1 DEF AppendOutput, Call
  <2>2. CASE ~(call[r].kept >= MaxBytes)
    <3>1. call[r].kept \in 0..MaxBytes /\ call[r].truncated \in BOOLEAN
      BY <1>1 DEF Call
    <3>2. (IF n < MaxBytes - call[r].kept THEN call[r].kept + n ELSE MaxBytes) \in 0..MaxBytes
      BY <3>1, <2>2, BytesAssumption
    <3>3. c = [call[r] EXCEPT
                 !.kept = IF n < MaxBytes - call[r].kept THEN call[r].kept + n ELSE MaxBytes,
                 !.truncated = @ \/ n > MaxBytes - call[r].kept]
      BY <2>2 DEF AppendOutput
    <3>. QED
      BY <1>1, <3>1, <3>2, <3>3 DEF Call
  <2>. QED
    BY <2>1, <2>2
<1>3. p \in Proc
  <2>1. proc[r].read + n \in 0..MaxWritten
    BY <1>1, BytesAssumption DEF ReadOutput, Proc
  <2>. QED
    BY <1>1, <2>1, ProcFields
<1>4. call' = [call EXCEPT ![r] = c] /\ proc' = [proc EXCEPT ![r] = p]
      /\ UNCHANGED <<pendingRequests, stdinEnded, exited>>
  BY <1>1 DEF ReadOutput
<1>5. p.read = proc[r].read + n /\ p.written = proc[r].written
      /\ p.shell = proc[r].shell /\ p.background = proc[r].background
  BY <1>1 DEF Proc
<1> HIDE DEF c, p
<1>6. call'[r] = c /\ proc'[r] = p /\ Typed' /\ OthersSame(r)
  BY <1>2, <1>3, <1>4 DEF Typed, OthersSame
<1>7. Goes(r)
  BY <1>2, <1>4, <1>6 DEF Goes
<1>. QED
  BY <1>5, <1>6, <1>7 DEF Stepped, Shape, ReadOutput, c

\* A signal is delivered, comes too late or is refused.
LEMMA SignalledShape ==
  ASSUME Typed, NEW r \in Requests, NEW c \in Call, ~exited,
         c.phase = call[r].phase, c.silent = call[r].silent, c.answers = call[r].answers,
         c.timer \in {"fired", "spent"}, Signalled(r, c)
  PROVE  /\ call' \in [Requests -> Call]
         /\ pendingRequests' \in Int /\ stdinEnded' \in BOOLEAN /\ exited' \in BOOLEAN
         /\ \A q \in Requests \ {r} : call'[q] = call[q]
         /\ Ends(r) \/ Goes(r)
         /\ call'[r].timer = c.timer /\ call'[r].timedOut = c.timedOut
         /\ call'[r].closed = c.closed /\ call'[r].kept = c.kept
         /\ call'[r].truncated = c.truncated /\ call'[r].outcome \in {c.outcome, "failure"}
<1> DEFINE x == IF c.phase = "running" THEN "failure" ELSE c.outcome
           d == [c EXCEPT !.timer = Cleared(c), !.outcome = x]
<1>1. x \in Outcomes /\ Cleared(c) = c.timer
  BY DEF Call, Outcomes, Cleared
<1>2. /\ d \in Call /\ d.phase = c.phase /\ d.silent = c.silent /\ d.answers = c.answers
      /\ d.timer = c.timer /\ d.timedOut = c.timedOut /\ d.closed = c.closed
      /\ d.kept = c.kept /\ d.truncated = c.truncated /\ d.outcome = x
  BY <1>1 DEF Call
<1>3. CASE Refused(r)
  <2>1. Resolve(r, d)
    BY <1>3, <1>2 DEF Signalled, Call
  <2> HIDE DEF d
  <2>. QED
    BY <2>1, <1>2, ResolveShape
<1>4. CASE ~Refused(r)
  <2>1. call' = [call EXCEPT ![r] = c] /\ UNCHANGED <<pendingRequests, stdinEnded, exited>>
    BY <1>4 DEF Signalled
  <2>. QED
    BY <2>1 DEF Typed, Goes
<1>. QED
  BY <1>3, <1>4

\* A timer fires: what it leaves of the call and of the shell.
Fired(r) ==
  /\ call'[r].closed = call[r].closed /\ call'[r].kept = call[r].kept
  /\ call'[r].truncated = call[r].truncated
  /\ call'[r].outcome \in {call[r].outcome, "failure"}
  /\ call'[r].timer \in {"fired", "spent"}
  /\ proc'[r].written = proc[r].written /\ proc'[r].read = proc[r].read
  /\ proc'[r].background = proc[r].background
  /\ proc'[r].shell = proc[r].shell
       \/ (proc[r].shell = "alive" /\ proc'[r].shell = "killed")

\* The timeout.
LEMMA TimeoutStep ==
  ASSUME Typed, NEW r \in Requests, Timeout(r)
  PROVE  Stepped(r) /\ Fired(r) /\ call'[r].timedOut /\ call[r].timer = "armed"
<1> DEFINE c == [call[r] EXCEPT !.timer = "fired", !.timedOut = TRUE]
<1>1. call[r] \in Call /\ proc[r] \in Proc
  BY DEF Typed
<1>2. /\ c \in Call /\ c.phase = call[r].phase /\ c.silent = call[r].silent
      /\ c.answers = call[r].answers /\ c.timer = "fired" /\ c.timedOut
      /\ c.closed = call[r].closed /\ c.kept = call[r].kept
      /\ c.truncated = call[r].truncated /\ c.outcome = call[r].outcome
  BY <1>1, CallFields DEF Call
<1>3. Signalled(r, c) /\ ~exited /\ call[r].timer = "armed"
  BY DEF Timeout
<1> HIDE DEF c
<1>4. /\ call' \in [Requests -> Call]
      /\ pendingRequests' \in Int /\ stdinEnded' \in BOOLEAN /\ exited' \in BOOLEAN
      /\ \A q \in Requests \ {r} : call'[q] = call[q]
      /\ Ends(r) \/ Goes(r)
      /\ call'[r].timer = c.timer /\ call'[r].timedOut = c.timedOut
      /\ call'[r].closed = c.closed /\ call'[r].kept = c.kept
      /\ call'[r].truncated = c.truncated /\ call'[r].outcome \in {c.outcome, "failure"}
  BY <1>2, <1>3, SignalledShape
<1>5. PICK shell \in {proc[r].shell, "killed"} :
        /\ shell = "killed" => proc[r].shell = "alive" /\ ~proc[r].foreign
        /\ proc' = [proc EXCEPT ![r] = [proc[r] EXCEPT !.shell = shell]]
  BY DEF Timeout
<1>6. [proc[r] EXCEPT !.shell = shell] \in Proc
  BY <1>1, ProcFields DEF Proc, Shells
<1>7. proc' \in [Requests -> Proc] /\ \A q \in Requests \ {r} : proc'[q] = proc[q]
  BY <1>5, <1>6 DEF Typed
<1>8. /\ proc'[r].written = proc[r].written /\ proc'[r].read = proc[r].read
      /\ proc'[r].background = proc[r].background /\ proc'[r].shell = shell
  BY <1>1, <1>5 DEF Typed, Proc
<1>. QED
  BY <1>2, <1>3, <1>4, <1>5, <1>7, <1>8 DEF Stepped, OthersSame, Shape, Typed, Fired

\* The second timer.
LEMMA KillTimeoutStep ==
  ASSUME Typed, NEW r \in Requests, KillTimeout(r)
  PROVE  Stepped(r) /\ Fired(r) /\ call'[r].timedOut = call[r].timedOut
         /\ call[r].timer = "fired"
<1> DEFINE c == [call[r] EXCEPT !.timer = "spent"]
<1>1. call[r] \in Call /\ proc[r] \in Proc
  BY DEF Typed
<1>2. /\ c \in Call /\ c.phase = call[r].phase /\ c.silent = call[r].silent
      /\ c.answers = call[r].answers /\ c.timer = "spent" /\ c.timedOut = call[r].timedOut
      /\ c.closed = call[r].closed /\ c.kept = call[r].kept
      /\ c.truncated = call[r].truncated /\ c.outcome = call[r].outcome
  BY <1>1, CallFields DEF Call
<1>3. /\ ~exited /\ call[r].timer = "fired"
      /\ \/ call[r].closed /\ call' = [call EXCEPT ![r] = c]
            /\ UNCHANGED <<pendingRequests, stdinEnded, exited>>
         \/ Signalled(r, c)
  BY DEF KillTimeout
<1> HIDE DEF c
<1>4. /\ call' \in [Requests -> Call]
      /\ pendingRequests' \in Int /\ stdinEnded' \in BOOLEAN /\ exited' \in BOOLEAN
      /\ \A q \in Requests \ {r} : call'[q] = call[q]
      /\ Ends(r) \/ Goes(r)
      /\ call'[r].timer = c.timer /\ call'[r].timedOut = c.timedOut
      /\ call'[r].closed = c.closed /\ call'[r].kept = c.kept
      /\ call'[r].truncated = c.truncated /\ call'[r].outcome \in {c.outcome, "failure"}
  <2>1. CASE Signalled(r, c)
    BY <2>1, <1>2, <1>3, SignalledShape
  <2>2. CASE call' = [call EXCEPT ![r] = c] /\ UNCHANGED <<pendingRequests, stdinEnded, exited>>
    BY <2>2, <1>2 DEF Typed, Goes
  <2>. QED
    BY <1>3, <2>1, <2>2
<1>5. \/ proc' = proc
      \/ /\ proc[r].shell = "alive"
         /\ proc' = [proc EXCEPT ![r] = [proc[r] EXCEPT !.shell = "killed"]]
  BY DEF KillTimeout
<1>6. [proc[r] EXCEPT !.shell = "killed"] \in Proc
  BY <1>1, ProcFields DEF Shells
<1>7. /\ proc' \in [Requests -> Proc] /\ \A q \in Requests \ {r} : proc'[q] = proc[q]
      /\ proc'[r].written = proc[r].written /\ proc'[r].read = proc[r].read
      /\ proc'[r].background = proc[r].background
      /\ proc'[r].shell = proc[r].shell
           \/ (proc[r].shell = "alive" /\ proc'[r].shell = "killed")
  BY <1>1, <1>5, <1>6 DEF Typed, Proc
<1>. QED
  BY <1>2, <1>3, <1>4, <1>7 DEF Stepped, OthersSame, Shape, Typed, Fired

\* What a shell does is no business of the server's: it holds the pipes, its own
\* or its children's, whenever it writes or starts something.
LEMMA ShellStep ==
  ASSUME Typed, NEW r \in Requests, Shell(r)
  PROVE  /\ Stepped(r) /\ call' = call
         /\ proc[r].shell = "alive" \/ proc[r].background
         /\ proc'[r].read = proc[r].read /\ proc'[r].written >= proc[r].written
         /\ proc[r].shell # "alive" => proc'[r].shell = proc[r].shell
<1>1. call[r] \in Call /\ proc[r] \in Proc
  BY DEF Typed
<1>2. call' = call /\ UNCHANGED <<pendingRequests, stdinEnded, exited>>
  BY DEF Shell, Write, ShellExits, StartBackground, EndBackground, BecomeForeign, server
<1> DEFINE Holds(q) == proc[q].shell = "alive" \/ proc[q].background
<1>3. \E p \in Proc : /\ proc' = [proc EXCEPT ![r] = p]
                      /\ p.read = proc[r].read /\ p.written >= proc[r].written
                      /\ Holds(r)
                      /\ proc[r].shell # "alive" => p.shell = proc[r].shell
  <2>1. CASE Write(r)
    <3> DEFINE p == [proc[r] EXCEPT !.written = @ + 1]
    <3>1. proc[r].written + 1 \in 0..MaxWritten
      BY <2>1, <1>1, BytesAssumption DEF Write, Proc
    <3>2. p \in Proc
      BY <1>1, <3>1, ProcFields
    <3>3. proc' = [proc EXCEPT ![r] = p] /\ Holds(r)
      BY <2>1 DEF Write
    <3>4. p.read = proc[r].read /\ p.written >= proc[r].written
        /\ (proc[r].shell # "alive" => p.shell = proc[r].shell)
      BY <1>1 DEF Proc
    <3>. QED
      BY <3>2, <3>3, <3>4
  <2>2. CASE ShellExits(r)
    <3>1. PICK shell \in {"zero", "nonzero"} : proc' = [proc EXCEPT ![r].shell = shell]
      BY <2>2 DEF ShellExits
    <3> DEFINE p == [proc[r] EXCEPT !.shell = shell]
    <3>2. p \in Proc
      BY <1>1, ProcFields DEF Shells
    <3>3. proc' = [proc EXCEPT ![r] = p] /\ Holds(r)
      BY <3>1, <2>2 DEF ShellExits
    <3>4. p.read = proc[r].read /\ p.written >= proc[r].written
        /\ (proc[r].shell # "alive" => p.shell = proc[r].shell)
      BY <1>1, <2>2, BytesAssumption DEF Proc, ShellExits
    <3>. QED
      BY <3>2, <3>3, <3>4
  <2>3. CASE StartBackground(r)
    <3> DEFINE p == [proc[r] EXCEPT !.background = TRUE]
    <3>1. p \in Proc
      BY <1>1, ProcFields
    <3>2. proc' = [proc EXCEPT ![r] = p] /\ Holds(r)
      BY <2>3 DEF StartBackground
    <3>3. p.read = proc[r].read /\ p.written >= proc[r].written
        /\ (proc[r].shell # "alive" => p.shell = proc[r].shell)
      BY <1>1, BytesAssumption DEF Proc
    <3>. QED
      BY <3>1, <3>2, <3>3
  <2>4. CASE EndBackground(r)
    <3> DEFINE p == [proc[r] EXCEPT !.background = FALSE]
    <3>1. p \in Proc
      BY <1>1, ProcFields
    <3>2. proc' = [proc EXCEPT ![r] = p] /\ Holds(r)
      BY <2>4 DEF EndBackground
    <3>3. p.read = proc[r].read /\ p.written >= proc[r].written
        /\ (proc[r].shell # "alive" => p.shell = proc[r].shell)
      BY <1>1, BytesAssumption DEF Proc
    <3>. QED
      BY <3>1, <3>2, <3>3
  <2>5. CASE BecomeForeign(r)
    <3> DEFINE p == [proc[r] EXCEPT !.foreign = TRUE]
    <3>1. p \in Proc
      BY <1>1, ProcFields
    <3>2. proc' = [proc EXCEPT ![r] = p] /\ Holds(r)
      BY <2>5 DEF BecomeForeign
    <3>3. p.read = proc[r].read /\ p.written >= proc[r].written
        /\ (proc[r].shell # "alive" => p.shell = proc[r].shell)
      BY <1>1, BytesAssumption DEF Proc
    <3>. QED
      BY <3>1, <3>2, <3>3
  <2>. QED
    BY <2>1, <2>2, <2>3, <2>4, <2>5 DEF Shell
<1>4. Goes(r)
  BY <1>2 DEF Goes
<1>. QED
  BY <1>1, <1>2, <1>3, <1>4 DEF Stepped, OthersSame, Shape, Typed

-----------------------------------------------------------------------------
(* The counter and the answers.                                             *)

\* The counter is the number of lines in hand, and after the exit there is none.
Counted ==
  /\ pendingRequests = Cardinality(InHand)
  /\ exited => InHand = {}

\* A line has its answer when it is done with, and not before.
Answered ==
  \A r \in Requests :
    call[r].answers = (IF call[r].phase = "done" /\ ~call[r].silent THEN 1 ELSE 0)

\* What the pipes of a call have carried, and that nothing follows its 'close'.
OutputOf(r) ==
  /\ proc[r].read <= proc[r].written
  /\ call[r].kept = (IF proc[r].read < MaxBytes THEN proc[r].read ELSE MaxBytes)
  /\ call[r].truncated <=> proc[r].read > MaxBytes
  /\ (call[r].closed /\ proc[r].shell # "failed") => PipesClosed(r)

\* A running call has a timer, and one whose timer fired has timed out.
TimerOf(r) ==
  /\ call[r].phase = "running" => call[r].timer # "off"
  /\ call[r].timer \in {"fired", "spent"} => call[r].timedOut

SuccessOf(r) ==
  call[r].outcome = "success" =>
    /\ call[r].phase = "done"
    /\ proc[r].shell = "zero" /\ ~call[r].timedOut /\ call[r].timer = "off"

LineOk(r) == OutputOf(r) /\ TimerOf(r) /\ SuccessOf(r)

LinesOk == \A r \in Requests : LineOk(r)

IInv == Typed /\ Counted /\ Answered /\ LinesOk

\* The lines in hand are finitely many.
LEMMA InHandFinite == IsFiniteSet(InHand) /\ Cardinality(InHand) \in Nat
  BY RequestsAssumption, FS_Subset, FS_CardinalityType DEF InHand

\* A step of one of the shapes keeps the count and the answers.
LEMMA ShapeCounted ==
  ASSUME Typed, Counted, Answered, NEW r \in Requests, Stepped(r)
  PROVE  Counted' /\ Answered'
<1> USE DEF Stepped, OthersSame
<1>1. CASE Takes(r)
  <2>1. InHand' = InHand \cup {r} /\ r \notin InHand
    BY <1>1 DEF Takes, InHand
  <2>2. Cardinality(InHand') = Cardinality(InHand) + 1
    BY <2>1, InHandFinite, FS_AddElement
  <2>3. Counted'
    BY <1>1, <2>2 DEF Counted, Takes
  <2>4. Answered'
    BY <1>1 DEF Answered, Takes
  <2>. QED
    BY <2>3, <2>4
<1>2. CASE Ends(r)
  <2>1. InHand' = InHand \ {r} /\ r \in InHand
    BY <1>2 DEF Ends, InHand
  <2>2. Cardinality(InHand') = Cardinality(InHand) - 1 /\ IsFiniteSet(InHand')
    BY <2>1, InHandFinite, FS_RemoveElement
  <2>3. Cardinality(InHand') = 0 => InHand' = {}
    BY <2>2, FS_EmptySet
  <2>4. Counted'
    BY <1>2, <2>2, <2>3 DEF Counted, Ends
  <2>5. call[r].phase # "done" /\ call[r].silent \in BOOLEAN
    BY <2>1 DEF InHand, Typed, Call
  <2>6. Answered'
    BY <1>2, <2>5 DEF Answered, Ends
  <2>. QED
    BY <2>4, <2>6
<1>3. CASE Goes(r)
  <2>1. InHand' = InHand
    BY <1>3 DEF Goes, InHand
  <2>. QED
    BY <1>3, <2>1 DEF Goes, Counted, Answered
<1>. QED
  BY <1>1, <1>2, <1>3 DEF Shape

\* A server that has read nothing owes nothing.
LEMMA InitIInv == Init => IInv
<1> SUFFICES ASSUME Init PROVE IInv
  OBVIOUS
<1>1. Typed
  <2>1. call \in [Requests -> Call] /\ proc \in [Requests -> Proc]
    BY NewCalls, NewProcs DEF Init
  <2>2. pendingRequests \in Int
    BY DEF Init
  <2>3. stdinEnded \in BOOLEAN /\ exited \in BOOLEAN
    BY Zenon DEF Init
  <2>. QED
    BY <2>1, <2>2, <2>3 DEF Typed
<1>2. Counted
  <2>1. InHand = {}
    BY DEF Init, InHand, NewCall
  <2>. QED
    BY <2>1, FS_EmptySet DEF Init, Counted
<1>3. Answered
  BY DEF Init, Answered, NewCall
<1>4. LinesOk
  BY BytesAssumption
  DEF Init, LinesOk, LineOk, OutputOf, TimerOf, SuccessOf, NewCall, NoProc
<1>. QED
  BY <1>1, <1>2, <1>3, <1>4 DEF IInv

\* A step on one line leaves the others as they were.
LEMMA OthersOk ==
  ASSUME LinesOk, NEW r \in Requests, OthersSame(r), LineOk(r)'
  PROVE  LinesOk'
  BY DEF LinesOk, LineOk, OutputOf, TimerOf, SuccessOf, PipesClosed, OthersSame

\* AppendOutput keeps at most the cap and notices what it cuts.
LEMMA AppendOk ==
  ASSUME NEW c \in Call, NEW n \in Nat \ {0}, NEW read \in Nat,
         c.kept = (IF read < MaxBytes THEN read ELSE MaxBytes),
         c.truncated <=> read > MaxBytes
  PROVE  LET d == AppendOutput(c, n) IN
         /\ d.kept = (IF read + n < MaxBytes THEN read + n ELSE MaxBytes)
         /\ d.truncated <=> read + n > MaxBytes
         /\ d.phase = c.phase /\ d.closed = c.closed /\ d.timer = c.timer
         /\ d.timedOut = c.timedOut /\ d.outcome = c.outcome
<1>1. CASE c.kept >= MaxBytes
  BY <1>1, BytesAssumption DEF AppendOutput, Call
<1>2. CASE ~(c.kept >= MaxBytes)
  <2>1. c.kept = read /\ read < MaxBytes /\ ~c.truncated
    BY <1>2, BytesAssumption DEF Call
  <2> DEFINE k == IF n < MaxBytes - c.kept THEN c.kept + n ELSE MaxBytes
             t == c.truncated \/ n > MaxBytes - c.kept
  <2>2. AppendOutput(c, n) = [c EXCEPT !.kept = k, !.truncated = t]
    BY <1>2 DEF AppendOutput
  <2>3. k = (IF read + n < MaxBytes THEN read + n ELSE MaxBytes)
        /\ (t <=> read + n > MaxBytes)
    BY <2>1, BytesAssumption
  <2> HIDE DEF k, t
  <2>. QED
    BY <2>2, <2>3 DEF Call
<1>. QED
  BY <1>1, <1>2

\* Every callback keeps the invariant: one case per action.
LEMMA StepIInv == IInv /\ [Next]_vars => IInv'
<1> SUFFICES ASSUME IInv, [Next]_vars PROVE IInv'
  OBVIOUS
<1> USE DEF IInv
<1>0. \A r \in Requests : /\ LineOk(r) /\ call[r] \in Call /\ proc[r] \in Proc
  BY DEF LinesOk, Typed
<1>1. ASSUME NEW r \in Requests, TakeDirect(r) \/ TakeCommand(r) PROVE IInv'
  <2>1. Stepped(r) /\ LineOk(r)'
    BY <1>1, TakeStep, BytesAssumption
    DEF LineOk, OutputOf, TimerOf, SuccessOf, Stepped
  <2>. QED
    BY <2>1, ShapeCounted, OthersOk DEF Stepped
<1>2. ASSUME NEW r \in Requests, AnswerDirect(r) PROVE IInv'
  <2>1. Stepped(r)
    BY <1>2, DirectStep
  <2>2. /\ proc' = proc /\ call[r].phase = "direct" /\ call'[r].phase = "done"
        /\ call'[r] = [call[r] EXCEPT !.phase = "done", !.answers = IF call[r].silent THEN @ ELSE @ + 1]
    BY <1>2, DirectStep
  <2>3. /\ call'[r].kept = call[r].kept /\ call'[r].truncated = call[r].truncated
        /\ call'[r].closed = call[r].closed /\ call'[r].timer = call[r].timer
        /\ call'[r].timedOut = call[r].timedOut /\ call'[r].outcome = call[r].outcome
    BY <1>0, <2>2 DEF Call
  <2>4. LineOk(r)'
    BY <1>0, <2>2, <2>3 DEF LineOk, OutputOf, TimerOf, SuccessOf, PipesClosed
  <2>. QED
    BY <2>1, <2>4, ShapeCounted, OthersOk DEF Stepped
<1>3. ASSUME NEW r \in Requests, SpawnError(r) PROVE IInv'
  <2>1. Stepped(r)
    BY <1>3, SpawnErrorStep
  <2>2. proc[r].shell = "failed"
    BY <1>3 DEF SpawnError
  <2>3. LineOk(r)'
    BY <1>0, <1>3, <2>2, SpawnErrorStep
    DEF LineOk, OutputOf, TimerOf, SuccessOf, PipesClosed, Cleared
  <2>. QED
    BY <2>1, <2>3, ShapeCounted, OthersOk DEF Stepped
<1>4. ASSUME NEW r \in Requests, Close(r) PROVE IInv'
  <2>1. Stepped(r)
    BY <1>4, CloseStep
  <2>2. OutputOf(r)'
    BY <1>0, <1>4, CloseStep DEF LineOk, OutputOf, PipesClosed
  <2>3. TimerOf(r)'
    BY <1>0, <1>4, CloseStep DEF LineOk, TimerOf, Cleared
  <2>4. SuccessOf(r)'
    <3>1. CASE call[r].phase = "running"
      BY <1>0, <1>4, <3>1, CloseStep DEF LineOk, TimerOf, SuccessOf, Cleared, Succeeded, Call, Timers
    <3>2. CASE call[r].phase # "running"
      BY <1>0, <1>4, <3>2, CloseStep DEF LineOk, SuccessOf, Cleared
    <3>. QED
      BY <3>1, <3>2
  <2>. QED
    BY <2>1, <2>2, <2>3, <2>4, ShapeCounted, OthersOk DEF Stepped, LineOk
<1>5. ASSUME NEW r \in Requests, NEW n \in 1..MaxWritten, ReadOutput(r, n) PROVE IInv'
  <2>1. proc[r].read <= proc[r].written
    BY <1>0 DEF LineOk, OutputOf
  <2>2. /\ Stepped(r)
        /\ call'[r] = AppendOutput(call[r], n)
        /\ proc'[r].read = proc[r].read + n /\ proc'[r].written = proc[r].written
        /\ n <= proc[r].written - proc[r].read
        /\ proc'[r].shell = proc[r].shell /\ proc'[r].background = proc[r].background
    BY <1>5, <2>1, ReadStep
  <2>3. /\ proc[r].read \in Nat /\ proc[r].written \in Nat /\ n \in Nat \ {0}
        /\ call[r].kept = (IF proc[r].read < MaxBytes THEN proc[r].read ELSE MaxBytes)
        /\ call[r].truncated <=> proc[r].read > MaxBytes
    BY <1>0, BytesAssumption DEF LineOk, OutputOf, Proc
  <2>4. /\ call'[r].kept = (IF proc'[r].read < MaxBytes THEN proc'[r].read ELSE MaxBytes)
        /\ call'[r].truncated <=> proc'[r].read > MaxBytes
        /\ call'[r].phase = call[r].phase /\ call'[r].closed = call[r].closed
        /\ call'[r].timer = call[r].timer /\ call'[r].timedOut = call[r].timedOut
        /\ call'[r].outcome = call[r].outcome
    BY <1>0, <2>2, <2>3, AppendOk
  <2>5. OutputOf(r)'
    <3>1. proc[r].read # proc[r].written /\ proc'[r].read <= proc'[r].written
      BY <2>2, <2>3
    <3>2. ~(call[r].closed /\ proc[r].shell # "failed")
      BY <1>0, <3>1 DEF LineOk, OutputOf, PipesClosed
    <3>. QED
      BY <2>2, <2>4, <3>1, <3>2 DEF OutputOf
  <2>6. TimerOf(r)' /\ SuccessOf(r)'
    BY <1>0, <2>2, <2>4 DEF LineOk, TimerOf, SuccessOf
  <2>. QED
    BY <2>2, <2>5, <2>6, ShapeCounted, OthersOk DEF Stepped, LineOk
<1>6. ASSUME NEW r \in Requests, Timeout(r) PROVE IInv'
  <2>1. Stepped(r) /\ Fired(r) /\ call'[r].timedOut /\ call[r].timer = "armed"
    BY <1>6, TimeoutStep
  <2>2. LineOk(r)'
    BY <1>0, <2>1 DEF LineOk, OutputOf, TimerOf, SuccessOf, PipesClosed, Fired
  <2>. QED
    BY <2>1, <2>2, ShapeCounted, OthersOk DEF Stepped
<1>7. ASSUME NEW r \in Requests, KillTimeout(r) PROVE IInv'
  <2>1. Stepped(r) /\ Fired(r) /\ call'[r].timedOut = call[r].timedOut /\ call[r].timer = "fired"
    BY <1>7, KillTimeoutStep
  <2>2. LineOk(r)'
    BY <1>0, <2>1 DEF LineOk, OutputOf, TimerOf, SuccessOf, PipesClosed, Fired
  <2>. QED
    BY <2>1, <2>2, ShapeCounted, OthersOk DEF Stepped
<1>8. ASSUME NEW r \in Requests, Shell(r) PROVE IInv'
  <2>1. /\ Stepped(r) /\ call' = call
        /\ proc[r].shell = "alive" \/ proc[r].background
        /\ proc'[r].read = proc[r].read /\ proc'[r].written >= proc[r].written
        /\ proc[r].shell # "alive" => proc'[r].shell = proc[r].shell
    BY <1>8, ShellStep
  <2>2. proc[r].read \in Nat /\ proc[r].written \in Nat /\ proc'[r].written \in Nat
    BY <1>0, <2>1, BytesAssumption DEF Stepped, Typed, Proc
  <2>3. LineOk(r)'
    BY <1>0, <2>1, <2>2 DEF LineOk, OutputOf, TimerOf, SuccessOf, PipesClosed
  <2>. QED
    BY <2>1, <2>3, ShapeCounted, OthersOk DEF Stepped
<1>9. ASSUME EndInput PROVE IInv'
  <2>1. Typed' /\ LinesOk'
    BY <1>9 DEF EndInput, Drained, Typed, LinesOk, LineOk, OutputOf, TimerOf, SuccessOf, PipesClosed
  <2>2. InHand' = InHand /\ Answered'
    BY <1>9 DEF EndInput, InHand, Answered
  <2>3. Counted'
    <3>1. pendingRequests = 0 => InHand = {}
      BY InHandFinite, FS_EmptySet DEF Counted
    <3>. QED
      BY <1>9, <2>2, <3>1 DEF EndInput, Drained, Counted
  <2>. QED
    BY <2>1, <2>2, <2>3
<1>10. CASE UNCHANGED vars
  BY <1>10 DEF vars, server, Typed, Counted, InHand, Answered, LinesOk, LineOk, OutputOf,
               TimerOf, SuccessOf, PipesClosed
<1>. QED
  BY <1>1, <1>2, <1>3, <1>4, <1>5, <1>6, <1>7, <1>8, <1>9, <1>10 DEF Next, Callback

-----------------------------------------------------------------------------
(* The theorems.                                                            *)

\* The inductive invariant holds throughout.
THEOREM Inductive == Spec => []IInv
<1>1. Init => IInv
  BY InitIInv
<1>2. IInv /\ [Next]_vars => IInv'
  BY StepIInv
<1>. QED
  BY <1>1, <1>2, PTL DEF Spec

\* The locals and the counters keep their types; the counter never falls below
\* zero although four callbacks of a call may come after its answer.
THEOREM TypeCorrect == Spec => []TypeOK
<1>1. IInv => TypeOK
  BY InHandFinite DEF IInv, Typed, Counted, TypeOK
<1>. QED
  BY <1>1, Inductive, PTL

\* exitWhenDrained never calls process.exit while an answer is owed, and every
\* line that wants one has had exactly one.
THEOREM ExitIsDrained == Spec => []ExitOwesNothing
<1>1. IInv => ExitOwesNothing
  <2> SUFFICES ASSUME IInv, exited, NEW r \in Requests, call[r].phase # "unsent"
               PROVE  call[r].phase = "done"
                      /\ call[r].answers = (IF call[r].silent THEN 0 ELSE 1)
    BY DEF ExitOwesNothing
  <2>1. r \notin InHand /\ call[r] \in Call
    BY DEF IInv, Counted, Typed
  <2>2. call[r].phase = "done"
    BY <2>1 DEF InHand, Call, Phases
  <2>. QED
    BY <2>2 DEF IInv, Answered
<1>. QED
  BY <1>1, Inductive, PTL

\* A call that was closed reports all its output up to the cap, and truncated
\* exactly when something is missing.
THEOREM OutputIsTrue == Spec => []OutputTruthful
<1>1. IInv => OutputTruthful
  BY DEF IInv, LinesOk, LineOk, OutputOf, PipesClosed, OutputTruthful
<1>. QED
  BY <1>1, Inductive, PTL

\* A call reported without error ended by itself and in time.
THEOREM SuccessIsTrue == Spec => []SuccessIsOwnExit
<1>1. IInv => SuccessIsOwnExit
  BY DEF IInv, LinesOk, LineOk, SuccessOf, SuccessIsOwnExit
<1>. QED
  BY <1>1, Inductive, PTL

\* Every step is one of the shapes above.
LEMMA EveryStep ==
  ASSUME IInv, [Next]_vars
  PROVE  (\E r \in Requests : Stepped(r)) \/ EndInput \/ UNCHANGED vars
<1> USE DEF IInv
<1>1. ASSUME NEW r \in Requests, TakeDirect(r) \/ TakeCommand(r) PROVE Stepped(r)
  BY <1>1, TakeStep
<1>2. ASSUME NEW r \in Requests, AnswerDirect(r) PROVE Stepped(r)
  BY <1>2, DirectStep
<1>3. ASSUME NEW r \in Requests, SpawnError(r) PROVE Stepped(r)
  BY <1>3, SpawnErrorStep
<1>4. ASSUME NEW r \in Requests, Close(r) PROVE Stepped(r)
  BY <1>4, CloseStep
<1>5. ASSUME NEW r \in Requests, NEW n \in 1..MaxWritten, ReadOutput(r, n) PROVE Stepped(r)
  <2>1. proc[r].read <= proc[r].written
    BY DEF LinesOk, LineOk, OutputOf
  <2>. QED
    BY <1>5, <2>1, ReadStep
<1>6. ASSUME NEW r \in Requests, Timeout(r) PROVE Stepped(r)
  BY <1>6, TimeoutStep
<1>7. ASSUME NEW r \in Requests, KillTimeout(r) PROVE Stepped(r)
  BY <1>7, KillTimeoutStep
<1>8. ASSUME NEW r \in Requests, Shell(r) PROVE Stepped(r)
  BY <1>8, ShellStep
<1>. QED
  BY <1>1, <1>2, <1>3, <1>4, <1>5, <1>6, <1>7, <1>8 DEF Next, Callback

\* What the client sees of the server.
takenLines  == {r \in Requests : call[r].phase # "unsent" /\ ~call[r].silent}
lineAnswers == [r \in Requests |-> call[r].answers]

\* Initially ToolServer has taken nothing.
LEMMA InitImplements == Init => Tools!Init
<1> SUFFICES ASSUME Init PROVE Tools!Init
  OBVIOUS
<1>1. \A r \in Requests : call[r].phase = "unsent" /\ call[r].answers = 0
  BY DEF Init, NewCall
<1>2. exited = FALSE
  BY Zenon DEF Init
<1>. QED
  BY <1>1, <1>2 DEF Tools!Init

\* After the exit every line taken has its answer.
LEMMA GoneAnswered == IInv /\ exited => \A q \in takenLines : lineAnswers[q] = 1
<1> SUFFICES ASSUME IInv, exited, NEW q \in takenLines PROVE call[q].answers = 1
  BY DEF takenLines, lineAnswers
<1>1. q \in Requests /\ q \notin InHand /\ call[q] \in Call /\ ~call[q].silent
      /\ call[q].phase # "unsent"
  BY DEF takenLines, IInv, Counted, Typed
<1>2. call[q].phase = "done"
  BY <1>1 DEF InHand, Call, Phases
<1>. QED
  BY <1>1, <1>2 DEF IInv, Answered

\* A step on a line is one of ToolServer's on that line, or a stutter.
LEMMA StepImplements == IInv /\ [Next]_vars => [Tools!Next]_Tools!vars
<1> SUFFICES ASSUME IInv, [Next]_vars PROVE [Tools!Next]_Tools!vars
  OBVIOUS
<1> DEFINE taken   == takenLines
           answers == lineAnswers
<1>1. IInv'
  BY StepIInv
<1>2. exited' => \A q \in taken' : answers'[q] = 1
  <2>1. (IInv /\ exited => \A q \in takenLines : lineAnswers[q] = 1)'
    BY GoneAnswered, PTL
  <2>. QED
    BY <1>1, <2>1
<1>3. SUFFICES \/ \E r \in Requests : Tools!Take(r) \/ Tools!Answer(r)
               \/ Tools!Leave
               \/ taken' = taken /\ answers' = answers /\ exited' = exited
  BY DEF Tools!Next, Tools!vars, takenLines, lineAnswers
<1>4. ASSUME taken' = taken, answers' = answers, ~exited, exited' \in BOOLEAN
      PROVE  Tools!Leave \/ (taken' = taken /\ answers' = answers /\ exited' = exited)
  <2>1. CASE exited'
    BY <2>1, <1>2, <1>4 DEF Tools!Leave, takenLines, lineAnswers
  <2>2. CASE ~exited'
    <3>1. exited = FALSE /\ exited' = FALSE
      BY <2>2, <1>1, <1>4, Zenon DEF IInv, Typed
    <3>. QED
      BY <1>4, <3>1
  <2>. QED
    BY <2>1, <2>2
<1>5. ASSUME NEW r \in Requests, Stepped(r), Takes(r)
      PROVE  Tools!Take(r) \/ (taken' = taken /\ answers' = answers /\ exited' = exited)
  <2>1. answers' = answers
    BY <1>5 DEF IInv, Answered, Stepped, OthersSame, Takes, lineAnswers
  <2>2. CASE call'[r].silent
    BY <1>5, <2>1, <2>2 DEF Stepped, OthersSame, Takes, takenLines
  <2>3. CASE ~call'[r].silent
    <3>1. r \notin taken /\ taken' = taken \cup {r}
      BY <1>5, <2>3 DEF Stepped, OthersSame, Takes, takenLines
    <3>. QED
      BY <1>5, <2>1, <3>1 DEF Tools!Take, Takes, takenLines, lineAnswers
  <2>. QED
    BY <2>2, <2>3
<1>6. ASSUME NEW r \in Requests, Stepped(r), Ends(r)
      PROVE  Tools!Answer(r) \/ Tools!Leave
             \/ (taken' = taken /\ answers' = answers /\ exited' = exited)
  <2>1. taken' = taken /\ ~exited /\ exited' \in BOOLEAN
    BY <1>6 DEF Stepped, OthersSame, Ends, InHand, takenLines, Typed
  <2>2. CASE call[r].silent
    <3>1. answers' = answers
      BY <1>6, <2>2 DEF Stepped, OthersSame, Ends, lineAnswers
    <3>. QED
      BY <1>4, <2>1, <3>1
  <2>3. CASE ~call[r].silent
    <3>1. r \in taken /\ answers[r] = 0
      BY <1>6, <2>3 DEF Ends, InHand, takenLines, lineAnswers, IInv, Answered
    <3>2. answers' = [answers EXCEPT ![r] = 1]
      <4>1. call'[r].answers = 1 /\ \A q \in Requests \ {r} : call'[q].answers = call[q].answers
        BY <1>6, <2>3, <3>1 DEF Stepped, OthersSame, Ends, lineAnswers
      <4>. QED
        BY <4>1 DEF lineAnswers
    <3>3. exited' \in {FALSE, \A q \in taken : answers'[q] = 1}
      <4>1. CASE exited'
        BY <4>1, <1>2, <2>1 DEF takenLines
      <4>2. CASE ~exited'
        BY <4>2, <2>1
      <4>. QED
        BY <4>1, <4>2
    <3>. QED
      BY <2>1, <3>1, <3>2, <3>3 DEF Tools!Answer, takenLines, lineAnswers
  <2>. QED
    BY <2>2, <2>3
<1>7. ASSUME NEW r \in Requests, Stepped(r), Goes(r)
      PROVE  taken' = taken /\ answers' = answers /\ exited' = exited
  BY <1>7 DEF Stepped, OthersSame, Goes, takenLines, lineAnswers
<1>8. CASE EndInput
  <2>1. taken' = taken /\ answers' = answers /\ ~exited
    BY <1>8 DEF EndInput, takenLines, lineAnswers
  <2>. QED
    BY <1>1, <1>4, <2>1 DEF IInv, Typed
<1>9. CASE UNCHANGED vars
  BY <1>9 DEF vars, server, takenLines, lineAnswers
<1>. QED
  BY <1>5, <1>6, <1>7, <1>8, <1>9, EveryStep DEF Stepped, Shape

\* Terminal implements ToolServer: a request is answered once, and the server
\* does not leave while it owes an answer.
THEOREM Implements == Spec => ImplementsToolServer
<1>1. Init => Tools!Init
  BY InitImplements
<1>2. IInv /\ [Next]_vars => [Tools!Next]_Tools!vars
  BY StepImplements
<1>. QED
  BY <1>1, <1>2, Inductive, PTL DEF Spec, Tools!Spec, ImplementsToolServer
=============================================================================
