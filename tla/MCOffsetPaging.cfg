SPECIFICATION ListSpec
CONSTANTS
  Items <- MCItems
  Created <- MCCreated
  DomainOf <- MCDomainOf
  Sizes = {1, 2}
INVARIANTS
  QuietWalkIsExact
  OnlyShiftsDisturb
CHECK_DEADLOCK FALSE
