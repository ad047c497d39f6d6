-------------------------------- MODULE MCSeat --------------------------------
(* Small instances of what one seat does: ClaimLoop inside a look at the      *)
(* registry, SeatAttempts between two of them, ClaudeCli inside one call of    *)
(* its provider, UserPrompt and VerdictText around that call. They meet in     *)
(* their inputs only, so each behaviour runs one of them.                      *)
EXTENDS ClaimLoop, SeatAttempts, ClaudeCli, VerdictText, UserPrompt

\* Every pool of up to three candidates over three models.
MCPools == UNION {[1 .. n -> Model] : n \in 0 .. 3}
MCCauses == {"schema", "echoed_example"}

NothingToClaim ==
  /\ pool = <<>> /\ admitted = {} /\ colliding = {} /\ collisions = {}
  /\ degenerate = FALSE /\ claimed = None
NothingToCall ==
  /\ retryEnabled = FALSE /\ stage = "done" /\ model = 0 /\ elapsed = 0
  /\ calls = <<>> /\ failures = <<>> /\ records = <<>>
  /\ retried = FALSE /\ outcome = "none"

NoSeat == NothingToClaim /\ NothingToCall
NoText == text = <<>> /\ content = <<>>
NoCall == child = "unborn" /\ result = Pending

MCInit ==
  /\ CliInit /\ TextInit /\ PromptInit
  /\ (Init /\ NothingToCall) \/ (SeatInit /\ NothingToClaim) \/ NoSeat

MCNext ==
  \/ /\ NoText /\ NoCall
     /\ (Next /\ UNCHANGED seatVars) \/ (SeatNext /\ UNCHANGED vars)
     /\ UNCHANGED <<cliVars, text, content>>
  \/ NoSeat /\ NoText /\ CliNext /\ UNCHANGED <<vars, seatVars, text, content>>
  \/ NoSeat /\ NoCall /\ content = <<>> /\ TextNext /\ UNCHANGED <<vars, seatVars, cliVars, content>>
  \/ NoSeat /\ NoCall /\ text = <<>> /\ PromptNext /\ UNCHANGED <<vars, seatVars, cliVars, text>>

MCSpec == MCInit /\ [][MCNext]_<<vars, seatVars, cliVars, text, content>> /\ CliFairness
===============================================================================
