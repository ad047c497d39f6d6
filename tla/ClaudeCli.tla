------------------------------- MODULE ClaudeCli -------------------------------
(***************************************************************************)
(* One call of `ClaudeCliProvider::complete`                               *)
(* (src/src/providers/claude_cli.rs): a child process fed through its      *)
(* stdin while its stdout and stderr are drained, both halves polled by    *)
(* hand in one task, and the classification of how it went. Pipes hold a   *)
(* few chunks; the child is any program that writes a bounded amount.      *)
(***************************************************************************)
EXTENDS Integers

CONSTANTS
  Prompt,   \* chunks of the user prompt
  PipeCap,  \* chunks a pipe holds
  MaxOut,   \* chunks the child may write to stdout, and to stderr
  Codes,    \* exit codes other than 0
  NoCode    \* no exit code: a signal, or no process to speak of

ASSUME CliAssumption ==
  /\ Prompt \in Nat /\ PipeCap \in Nat \ {0} /\ MaxOut \in Nat
  /\ 0 \notin Codes /\ NoCode \in Codes

\* The envelope on stdout, as the classifiers tell envelopes apart: none that parses, an
\* answer, or an error with its api_error_status.
Garbage  == [kind |-> "garbage"]
Answer   == [kind |-> "answer"]
Failing  == {[kind |-> "error", status |-> s] : s \in {"in_range", "out_of_range", "unreadable", "absent"}}
Envelope == {Garbage, Answer} \cup Failing

VARIABLES
  child,      \* "unborn", "running", "exited" or "killed"
  wants,      \* the operation the child is in: "read", "out", "err" or "exit"
  reads,      \* whether the child still holds its end of stdin
  left,       \* chunks the child may still write, per pipe
  pipe,       \* chunks in each pipe
  written,    \* chunks of the prompt written
  open,       \* whether the parent still holds its end of stdin
  write_done, \* what the write half came to: "none", "ok", "truncated" or "flush"
  wait_done,  \* what the reaping half came to: "none", "exited" or "failed"
  code, stdout, \* the child's exit code and the envelope it left
  result

childVars == <<child, wants, reads, left, code, stdout>>
cliVars == <<child, wants, reads, left, pipe, written, open, write_done, wait_done, code, stdout, result>>

Pending          == [kind |-> "pending"]
Dropped          == [kind |-> "dropped"]
Ok               == [kind |-> "ok"]
Http             == [kind |-> "http"]
Process(c, said) == [kind |-> "process", exit_code |-> c, stderr |-> said]

CliInit ==
  /\ child = "unborn" /\ wants = "read" /\ reads = TRUE
  /\ left = [p \in {"out", "err"} |-> MaxOut]
  /\ pipe = [p \in {"in", "out", "err"} |-> 0]
  /\ written = 0 /\ open = TRUE
  /\ write_done = "none" /\ wait_done = "none"
  /\ code = 0 /\ stdout = Garbage
  /\ result = Pending

-----------------------------------------------------------------------------
(* The child. It commits to one blocking operation at a time.               *)

Operation == {"read", "out", "err", "exit"}
Chooses == wants' \in Operation

\* A read blocks on an empty pipe until its other end is dropped. After EOF the child
\* reads no more.
ChildReads ==
  /\ child = "running" /\ wants = "read" /\ reads
  /\ \/ pipe["in"] > 0 /\ pipe' = [pipe EXCEPT !["in"] = @ - 1] /\ Chooses /\ UNCHANGED reads
     \/ pipe["in"] = 0 /\ ~open /\ reads' = FALSE /\ wants' \in Operation \ {"read"} /\ UNCHANGED pipe
  /\ UNCHANGED <<child, left, written, open, write_done, wait_done, code, stdout, result>>

\* It may close its stdin at any time.
ChildStopsReading ==
  /\ child = "running" /\ reads
  /\ reads' = FALSE
  /\ wants' = IF wants = "read" THEN "exit" ELSE wants
  /\ UNCHANGED <<child, left, pipe, written, open, write_done, wait_done, code, stdout, result>>

ChildWrites(p) ==
  /\ child = "running" /\ wants = p
  /\ IF left[p] = 0 THEN UNCHANGED <<left, pipe>>
     ELSE /\ pipe[p] < PipeCap
          /\ pipe' = [pipe EXCEPT ![p] = @ + 1]
          /\ left' = [left EXCEPT ![p] = @ - 1]
  /\ wants' \in (IF left[p] = 0 THEN {"exit"} ELSE Operation) \ (IF reads THEN {} ELSE {"read"})
  /\ UNCHANGED <<child, reads, written, open, write_done, wait_done, code, stdout, result>>

ChildExits ==
  /\ child = "running" /\ wants = "exit"
  /\ child' = "exited"
  /\ reads' = FALSE
  /\ code' \in Codes \cup {0}
  /\ stdout' \in Envelope
  /\ UNCHANGED <<wants, left, pipe, written, open, write_done, wait_done, result>>

\* What a child that is not blocked goes on to do.
Child == ChildReads \/ (\E p \in {"out", "err"} : ChildWrites(p)) \/ ChildExits

-----------------------------------------------------------------------------
(* The parent. `write` and `wait` progress only when the task is polled,    *)
(* and both are polled until each is done.                                  *)

Polled == child # "unborn" /\ result = Pending

Spawn ==
  /\ child = "unborn" /\ result = Pending
  /\ \/ child' = "running" /\ wants' \in Operation /\ UNCHANGED result
     \/ result' = Process(NoCode, "spawn") /\ UNCHANGED <<child, wants>>
  /\ UNCHANGED <<reads, left, pipe, written, open, write_done, wait_done, code, stdout>>

\* write_all moves a chunk.
WriteChunk ==
  /\ Polled /\ write_done = "none"
  /\ written < Prompt /\ reads /\ pipe["in"] < PipeCap
  /\ written' = written + 1
  /\ pipe' = [pipe EXCEPT !["in"] = @ + 1]
  /\ UNCHANGED <<childVars, open, write_done, wait_done, result>>

\* Mutant: a broken pipe is taken for a failed teardown.
BrokenPipeFlush ==
  /\ Polled /\ write_done = "none"
  /\ written < Prompt /\ ~reads
  /\ write_done' = "flush" /\ open' = FALSE
  /\ UNCHANGED <<childVars, pipe, written, wait_done, result>>

\* write_all fails: nobody reads any more. The half returns and drops stdin.
BrokenPipe ==
  /\ Polled /\ write_done = "none"
  /\ written < Prompt /\ ~reads
  /\ write_done' = "truncated" /\ open' = FALSE
  /\ UNCHANGED <<childVars, pipe, written, wait_done, result>>

\* All bytes are out: shut stdin down and drop it, which is the child's EOF.
CloseStdin ==
  /\ Polled /\ write_done = "none"
  /\ written = Prompt
  /\ write_done' \in {"ok", "flush"} /\ open' = FALSE
  /\ UNCHANGED <<childVars, pipe, written, wait_done, result>>

\* Mutant: wait_with_output runs after the write has completed.
DrainAfterWrite(p) ==
  /\ Polled /\ wait_done = "none" /\ write_done # "none"
  /\ pipe[p] > 0
  /\ pipe' = [pipe EXCEPT ![p] = @ - 1]
  /\ UNCHANGED <<childVars, written, open, write_done, wait_done, result>>

\* wait_with_output reads what the child wrote.
Drain(p) ==
  /\ Polled /\ wait_done = "none"
  /\ pipe[p] > 0
  /\ pipe' = [pipe EXCEPT ![p] = @ - 1]
  /\ UNCHANGED <<childVars, written, open, write_done, wait_done, result>>

\* Both outputs are at their end and the child has exited.
Reap ==
  /\ Polled /\ wait_done = "none"
  /\ child = "exited" /\ pipe["out"] = 0 /\ pipe["err"] = 0
  /\ wait_done' = "exited"
  /\ UNCHANGED <<childVars, pipe, written, open, write_done, result>>

\* It may fail; the half drops the child, and kill_on_drop ends it.
ReapFails ==
  /\ Polled /\ wait_done = "none"
  /\ wait_done' = "failed"
  /\ child' = IF child = "running" THEN "killed" ELSE child
  /\ reads' = FALSE
  /\ UNCHANGED <<wants, left, pipe, written, open, write_done, code, stdout, result>>

\* The caller's timeout drops the call, and kill_on_drop the child.
Drop ==
  /\ Polled
  /\ result' = Dropped
  /\ child' = IF child = "running" THEN "killed" ELSE child
  /\ reads' = FALSE
  /\ open' = FALSE
  /\ UNCHANGED <<wants, left, pipe, written, write_done, wait_done, code, stdout>>

-----------------------------------------------------------------------------
(* The classification.                                                      *)

\* classify_envelope_error: only a status in 100..599 is an http failure.
EnvelopeError(e, c) == IF e.status = "in_range" THEN Http ELSE Process(c, "envelope")

\* classify_child_failure: stdout first, stderr is the fallback.
ChildFailure ==
  CASE stdout = Garbage  -> Process(code, "stderr")
    [] stdout = Answer   -> Process(code, "envelope")
    [] stdout \in Failing -> EnvelopeError(stdout, code)

\* parse_completion.
ParseCompletion ==
  CASE stdout = Garbage  -> Process(NoCode, "parse")
    [] stdout = Answer   -> Ok
    [] stdout \in Failing -> EnvelopeError(stdout, NoCode)

\* Mutant: what the write came to is looked at first.
OutcomeWriteFirst ==
  IF write_done = "truncated" THEN Process(NoCode, "write")
  ELSE IF wait_done = "failed" THEN Process(NoCode, "reap")
  ELSE IF code # 0 THEN ChildFailure
  ELSE ParseCompletion

\* The precedence: the reap, the child's own death, the write, the envelope.
Outcome ==
  IF wait_done = "failed" THEN Process(NoCode, "reap")
  ELSE IF code # 0 THEN ChildFailure
  ELSE IF write_done = "truncated" THEN Process(NoCode, "write")
  ELSE ParseCompletion

\* Both halves are done.
Return ==
  /\ Polled /\ write_done # "none" /\ wait_done # "none"
  /\ result' = Outcome
  /\ UNCHANGED <<childVars, pipe, written, open, write_done, wait_done>>

Parent ==
  \/ WriteChunk \/ BrokenPipe \/ CloseStdin
  \/ (\E p \in {"out", "err"} : Drain(p)) \/ Reap
  \/ Return

CliNext == Spawn \/ Child \/ ChildStopsReading \/ Parent \/ ReapFails \/ Drop

CliSpec == CliInit /\ [][CliNext]_cliVars

\* The task is polled when it can go on and the child runs whenever it is not blocked;
\* nothing makes the reap fail or the caller give up.
CliFairness == WF_cliVars(Spawn) /\ WF_cliVars(Child) /\ WF_cliVars(Parent)

-----------------------------------------------------------------------------
(* Properties.                                                              *)

\* The variables keep their types and no pipe overflows.
CliTypeOK ==
  /\ child \in {"unborn", "running", "exited", "killed"} /\ wants \in Operation
  /\ reads \in BOOLEAN /\ open \in BOOLEAN
  /\ pipe \in [{"in", "out", "err"} -> 0 .. PipeCap] /\ left \in [{"out", "err"} -> 0 .. MaxOut]
  /\ written \in 0 .. Prompt
  /\ write_done \in {"none", "ok", "truncated", "flush"} /\ wait_done \in {"none", "exited", "failed"}
  /\ write_done = "ok" => written = Prompt /\ ~open
  /\ code \in Codes \cup {0} /\ stdout \in Envelope

\* "The result is NEVER Ok" when the write did not complete: an answer is returned only
\* for a child that was handed the whole prompt, and its end, whatever it printed.
AnswerMeansWholePrompt ==
  result = Ok => written = Prompt /\ ~open /\ child = "exited" /\ code = 0

\* "The child died for its own reason, and THAT code is the diagnosis": however the write
\* raced with the death, a reaped child that failed is reported with its code or with the
\* status its envelope declares, never as a write failure and never as a success.
DeathIsTheDiagnosis ==
  result.kind \in {"ok", "http", "process"} /\ wait_done = "exited" /\ code # 0 =>
    \/ result = Http
    \/ result.kind = "process" /\ result.exit_code = code /\ result.stderr \in {"stderr", "envelope"}

\* Http governs retries and condemnation, so it is only ever what an envelope said, and an
\* exit code is only ever what the reaped child exited with.
NothingIsFabricated ==
  /\ result = Http => wait_done = "exited" /\ stdout.kind = "error" /\ stdout.status = "in_range"
  /\ result.kind = "process" /\ result.exit_code # NoCode =>
       wait_done = "exited" /\ result.exit_code = code /\ code # 0

\* The deadlock between the two processes is gone: whatever the child does, the call ends.
CallEnds == <>(result # Pending)
===============================================================================
