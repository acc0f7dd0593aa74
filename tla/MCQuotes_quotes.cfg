\* Two agents whose clocks differ, with a peer on the verge of Unknown.
CONSTANTS
  a1 = a1
  a2 = a2
  NoEntry = NoEntry
  Agents = {a1, a2}
  Carried = {"QuoteRequest", "QuoteResponse", "QuoteAccept"}
  Requesters = {a1}
  Responders = {a1, a2}
  Accepters = {a1, a2}
  Amounts = {1, 2}
  MinReps = {0, 3500}
  Tarnished = {a1}
  PriorPenalties = 17
  Ahead = {a2}
  SameSecond = FALSE
  Skew <- InStep
  QuoteExpiry = 1
  MaxTime = 3
  MaxSkew = 1
  MaxQuotes = 1
  MaxResponses = 1
SPECIFICATION FairSpec
INVARIANTS
  TypeOK
  StatusMatchesResponses
  AcceptedOncePerAgent
  AcceptanceNamesResponse
  PenaltiesEarned
PROPERTIES
  RevivedOnlyByAcceptance
  QuotesSettle
CHECK_DEADLOCK TRUE
