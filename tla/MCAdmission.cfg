SPECIFICATION MCSpec
CONSTANTS
  r1 = r1
  r2 = r2
  p1 = p1
  p2 = p2
  w1 = w1
  Null = Null
  NoClient = NoClient
  NotLoaded = NotLoaded
  NoReplica = NoReplica
  DayLength = 1
  FirstInstant = 30
  LastInstant = 31
  MaxChanges = 1
  Requests = {r1, r2}
  Writers = {w1}
  Versions = {1, 2}
  Replicas = {p1, p2}
  Previews = {r2}
  RequestOf <- MCRequestOf
  RuleTables <- MCRuleTables
  BudgetTables <- MCBudgetTables
  Models <- MCModels
  EntriesOf <- MCEntriesOf
  Charges <- MCCharges
SYMMETRY MCSymmetry
INVARIANTS
  TypeOK
  ChangesReachDecisions
  AdmittedWithinBudget
  PricingPinned
CHECK_DEADLOCK FALSE
