SPECIFICATION FairSpec
CONSTANTS
  p1 = p1
  p2 = p2
  r1 = r1
  r2 = r2
  none = none
  undecided = undecided
  Requests = {r1, r2}
  Providers = {p1, p2}
  NoProvider = none
  NoDecision = undecided
  Decisions <- MCDecisions
  Policies <- MCPolicies
  Answers <- MCAnswers
  FailureThreshold = 1
  CooldownMs = 1
INVARIANTS
  TypeOK
  ToldTheSame
  ChainIsBuildable
  DeadlineIsKept
PROPERTIES
  ImplementsBreaker
  ImplementsContract
  Answered
  SlotComesBack
