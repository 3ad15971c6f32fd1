SPECIFICATION CatalogueSpec
CONSTANTS
  None = None
  Model = {m1}
  Channel = {ch1}
  Group = {g1, g2}
  Org = {o1}
  Handler = {h1, h2, h3}
  MaxRows = 3
  g1 = g1
  g2 = g2
  BookGroup = {g1}
  BookHandler = {b1, b2}
  MaxPrices = 3
  MaxEdits = 1
  MaxUnits = 1
  MaxTime = 2
SYMMETRY Symmetry
CHECK_DEADLOCK FALSE
INVARIANTS TablesHold
PROPERTIES SweepsOnlyUncounted PricesTakeOver
