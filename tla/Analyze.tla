-------------------------------- MODULE Analyze --------------------------------
(***************************************************************************)
(* The entry of an analysis, `Magi::analyze` (src/src/orchestrator.rs):    *)
(* several calls on one shared instance, the size check and the caller's   *)
(* gate, the measurement, and the gate that tells each standing warning    *)
(* once for the life of the instance.                                      *)
(*                                                                         *)
(* The dispatch itself is MagiRun's; here it is what it asks of the        *)
(* instance: the warnings it finds on its way, in the order of the code.   *)
(* A length is a machine word, so arithmetic on it saturates at MaxWord.   *)
(***************************************************************************)
EXTENDS Integers, Sequences, FiniteSets

CONSTANTS
  Calls,      \* concurrent calls of `analyze`
  MaxWord,    \* usize::MAX
  Divisor,    \* TOKENS_PER_BYTE_DIVISOR
  Lengths,    \* the lengths of the inputs considered
  Seats       \* the agents, each of which may find its pool degenerate

ASSUME AnalyzeAssumption ==
  /\ IsFiniteSet(Calls) /\ IsFiniteSet(Seats)
  /\ MaxWord \in Nat /\ Divisor \in Nat \ {0}
  /\ Lengths \subseteq 0..MaxWord

VARIABLES
  maxInputLen, inputWarnTokens,   \* the two fields of MagiConfig
  announced,     \* `build` said that the threshold cannot be reached
  warned,        \* the bits of the instance's mask that are set
  log,           \* the standing warnings written, in order
  pc, len, exceeded,   \* of each call
  running,       \* how many seats it has not joined
  toAsk,         \* the warnings it has found and still has to ask for
  winning        \* it found this bit clear and is about to write the warning

config   == <<maxInputLen, inputWarnTokens, announced>>
once     == <<warned, log>>
measured == <<len, exceeded>>
vars     == <<config, once, pc, measured, running, toAsk, winning>>

Word     == 0..MaxWord
Warnings == {"ProbeDeclaration", "SharedDigest", "InertGuard", "DegenerateDigest"}

Min2(a, b) == IF a < b THEN a ELSE b
saturatingAdd(a, b) == Min2(a + b, MaxWord)
saturatingMul(a, b) == Min2(a * b, MaxWord)

estimateTokens(n) == n \div Divisor

\* Mutant: the comparison converts the threshold without the `+ 1`.
UnreachableWithoutOne(warn, max) == saturatingMul(warn, Divisor) > max
warnThresholdIsUnreachable(warn, max) ==
  saturatingMul(saturatingAdd(warn, 1), Divisor) > max

\* Mutant: the variant added last takes a bit that is in use.
SharedBit(w) == CASE w = "InertGuard" -> 0
                  [] w = "ProbeDeclaration" -> 1
                  [] w \in {"SharedDigest", "DegenerateDigest"} -> 2
Bit(w) == CASE w = "InertGuard" -> 0
            [] w = "ProbeDeclaration" -> 1
            [] w = "SharedDigest" -> 2
            [] w = "DegenerateDigest" -> 3

-----------------------------------------------------------------------------
Init ==
  /\ maxInputLen \in Word /\ inputWarnTokens \in Word
  /\ announced = warnThresholdIsUnreachable(inputWarnTokens, maxInputLen)
  /\ warned = {} /\ log = <<>>
  /\ pc = [c \in Calls |-> "idle"]
  /\ len = [c \in Calls |-> 0]
  /\ exceeded = [c \in Calls |-> FALSE]
  /\ running = [c \in Calls |-> Cardinality(Seats)]
  /\ toAsk = [c \in Calls |-> <<>>]
  /\ winning = [c \in Calls |-> ""]

\* Nothing found is left to ask for or to write: the call is at its next await.
Settled(c) == toAsk[c] = <<>> /\ winning[c] = ""

At(c, p)   == pc[c] = p /\ Settled(c)
Goto(c, p) == pc' = [pc EXCEPT ![c] = p]

\* The size check comes before the caller's predicate, which may count calls.
CheckSize(c) ==
  /\ At(c, "idle")
  /\ \E n \in Lengths :
       /\ len' = [len EXCEPT ![c] = n]
       /\ Goto(c, IF n > maxInputLen THEN "refused" ELSE "checked")
  /\ UNCHANGED <<config, once, exceeded, running, toAsk, winning>>

\* The predicate is the caller's code and may answer anything.
AskGate(c) ==
  /\ At(c, "checked")
  /\ Goto(c, "gated") \/ Goto(c, "refused")
  /\ UNCHANGED <<config, once, measured, running, toAsk, winning>>

\* `measure_input`, and the prompt under the RNG's mutex, which is held over no await;
\* the prompt fails on a nonce that the input contains.
BuildPrompt(c) ==
  /\ At(c, "gated")
  /\ exceeded' = [exceeded EXCEPT ![c] = estimateTokens(len[c]) > inputWarnTokens]
  /\ Goto(c, "prompted") \/ Goto(c, "refused")
  /\ UNCHANGED <<config, once, len, running, toAsk, winning>>

Ask(c, ws) == toAsk' = [toAsk EXCEPT ![c] = ws]

\* `dispatch_rotation` asks for this one before the probes run ...
Declare(c) ==
  /\ At(c, "prompted")
  /\ Ask(c, <<"ProbeDeclaration">>)
  /\ Goto(c, "probing")
  /\ UNCHANGED <<config, once, measured, running, winning>>

\* ... and for these by what this call's probes measured, before a seat is spawned.
Probed(c) ==
  /\ At(c, "probing")
  /\ \E shared, inert \in BOOLEAN :
       Ask(c, (IF shared THEN <<"SharedDigest">> ELSE <<>>)
              \o (IF inert THEN <<"InertGuard">> ELSE <<>>))
  /\ Goto(c, "joining")
  /\ UNCHANGED <<config, once, measured, running, winning>>

\* The join loop asks for each seat that found its pool degenerate.
Join(c) ==
  /\ At(c, "joining") /\ running[c] > 0
  /\ running' = [running EXCEPT ![c] = @ - 1]
  /\ Ask(c, <<"DegenerateDigest">>) \/ UNCHANGED toAsk
  /\ UNCHANGED <<config, once, pc, measured, winning>>

\* After the last seat, or after any whose loss the abort checks act on.
Finish(c) ==
  /\ At(c, "joining") /\ (running[c] = 0 \/ running[c] < Cardinality(Seats))
  /\ Goto(c, "done")
  /\ UNCHANGED <<config, once, measured, running, toAsk, winning>>

\* The caller drops the future at one of its awaits.
Cancel(c) ==
  /\ At(c, "probing") \/ At(c, "joining")
  /\ Goto(c, "cancelled")
  /\ UNCHANGED <<config, once, measured, running, toAsk, winning>>

\* `fetch_or`: the bit is set and its old value decides, in one step.
FetchOr(c) ==
  /\ toAsk[c] # <<>> /\ winning[c] = ""
  /\ LET w == Head(toAsk[c]) IN
       /\ warned' = warned \cup {Bit(w)}
       /\ winning' = [winning EXCEPT ![c] = IF Bit(w) \in warned THEN "" ELSE w]
  /\ toAsk' = [toAsk EXCEPT ![c] = Tail(@)]
  /\ UNCHANGED <<config, log, pc, measured, running>>
Emit(c) ==
  /\ winning[c] # ""
  /\ log' = Append(log, winning[c])
  /\ winning' = [winning EXCEPT ![c] = ""]
  /\ UNCHANGED <<config, warned, pc, measured, running, toAsk>>

Step(c) ==
  \/ CheckSize(c) \/ AskGate(c) \/ BuildPrompt(c)
  \/ Declare(c) \/ Probed(c) \/ Join(c) \/ Finish(c)
  \/ FetchOr(c) \/ Emit(c)

Next == \E c \in Calls : Step(c) \/ Cancel(c)

\* The runtime polls a task that is ready; nobody owes a cancellation.
Fairness == \A c \in Calls : WF_vars(Step(c))

Spec == Init /\ [][Next]_vars /\ Fairness
-----------------------------------------------------------------------------
(* Properties.                                                              *)

\* A standing warning is written at most once for the life of the instance, however many
\* calls find it at the same time (`fetch_or` in `Magi::warn_once`).
ToldOnce == \A i, j \in DOMAIN log : i # j => log[i] # log[j]

\* What a call found is eventually written, by it or by a call that found it before: no
\* warning is swallowed by the bit of another, or by a caller that goes away.
FoundIsTold ==
  \A c \in Calls, w \in Warnings :
    (\E i \in DOMAIN toAsk[c] : toAsk[c][i] = w) ~> (\E i \in DOMAIN log : log[i] = w)

\* The gate is neither lossy nor leaky (`WarnOnce`: a warning that repeats teaches the
\* reader to ignore it, one that is dropped hides a run without rotation).
ToldExactlyOnce == []ToldOnce /\ FoundIsTold

Marked(n) == estimateTokens(n) > inputWarnTokens

\* `build` says that the warning threshold is out of reach exactly when every input that
\* passes the size check goes unmarked, for a limit that can reject something
\* (`warn_threshold_is_unreachable`), and no analysis belies it.
AnnouncementIsExact ==
  maxInputLen < MaxWord =>
    /\ announced <=> ~ \E n \in 0..maxInputLen : Marked(n)
    /\ announced => \A c \in Calls : ~exceeded[c]
===============================================================================
