\* Before, beside and after the service, again and again.
SPECIFICATION Spec
CONSTANTS
  Hotels <- MCHotels
  Policies <- MCPolicies
  RuleIds <- MCRuleIds
  FileRows <- MCFileRows
  FileRules <- MCFileRules
  None = None
  h1 = h1
  h2 = h2
  p1 = p1
  p2 = p2
  r1 = r1
  r2 = r2
INVARIANTS TypeOK SecondRunIsNoop UnknownIsImported
PROPERTY FillsGapsOnly
