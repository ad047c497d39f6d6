SPECIFICATION MCSpec
CONSTANTS
  Model = {a, b, c}
  Pools <- MCPools
  MaxRotations = 2
  Timeout = 3
  CallTimes = {1}
  Causes <- MCCauses
  Errors <- ProviderError
  Prompt = 3
  PipeCap = 1
  MaxOut = 2
  NoCode = 999
  Codes = {1, 999}
  Payload = {"verdict", "foreign", "example", "unsound", "partial"}
  MaxLines = 5
  Tokens = {"key", "begin", "ke", "y", "word", "mark", "nl", "sep", "inv", "nonce", "non", "ce",
            "env", "elope", "envelope", "marker"}
  MaxTokens = 4
  MaxError = 3
INVARIANTS
  TakesFirstClaimable
  DegenerateIsTrue
  TelemetryTellsTheCalls
  SpendsWithinWorstCase
  AnswerMeansWholePrompt
  DeathIsTheDiagnosis
  AcceptedIsDelimited
  EchoIsNoVerdict
  OnlyCutQuoteIsBlamed
  PromptIsFramed
PROPERTIES
  CallEnds
CHECK_DEADLOCK FALSE
