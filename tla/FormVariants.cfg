\* Expected to be violated: one save of a form takes the other variants of the
\* product out of sale.
SPECIFICATION FormSpec

CONSTANTS
  Skus = {1, 2}
  Browsers = {b1}
  ShelfLimit = 2
  NoRow = NoRow
  b1 = b1

INVARIANT VariantsKept

CHECK_DEADLOCK FALSE
