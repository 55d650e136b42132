SPECIFICATION Spec
CONSTANTS
  Strings = {"ab", "b", "B"}
  Inside <- MCInside
  Within <- MCWithin
  Below <- MCBelow
  Captures <- MCCaptures
  Replaced <- MCReplaced
  KV <- MCKV
  Uids = {"p", "c"}
  NoDoc = NoDoc
  SearchFields = {"a", "t"}
  Day = 8
  Minute = 2
  MaxNodes = 2
  MaxPhrases = 4
  MaxEdits = 3
  MaxMods = 4
CHECK_DEADLOCK FALSE
INVARIANTS BackendsAgree ConditionsSurvive ParserFollowsGrammar RulesHold WindowIsDaily
