SPECIFICATION DecisionSpec
CONSTANTS
  None = None
  Row <- MCRow
  Clause <- MCClause
  Billed <- MCBilled
  Rates <- MCRates
  Null = Null
  TariffClause <- MCLibrary
  Period <- MCPeriod
  Limit = 2
  Multiplier = 2
INVARIANTS
  FrozenReproduces
  DecisionIsSourced
  AmountsBalance
  RuleIsUnanimous
  SelectionIsNearest
CHECK_DEADLOCK FALSE
