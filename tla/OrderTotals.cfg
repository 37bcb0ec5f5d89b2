SPECIFICATION Spec
CONSTANTS
  l1 = l1  l2 = l2  c1 = c1  c2 = c2
  None = None
  Lines <- MCLines
  Calls <- MCCalls
  Prices = {2, 3}
  Deltas <- MCDeltas
  Quantities = {1, 2}
  Discounts <- MCDiscounts
  TaxPercent = 20
  Targets = {"CONFIRMED"}
SYMMETRY Interchangeable
INVARIANTS TypeOK LinesPriced TotalsExactUnlessBehind
PROPERTIES PriceSnapshot FrozenOnceQuiet
CHECK_DEADLOCK FALSE
