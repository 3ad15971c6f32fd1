SPECIFICATION InvoicingSpec
CONSTANTS
  ours = ours
  theirs = theirs
  big = big
  small = small
  None = None
  Org = {ours, theirs}
  Order = {big, small}
  OrgOf <- Owners
  Price <- Prices
  Handler = {h1, h2}
  Amounts = {0, 1, 2}
  Limit = 3
  MaxInvoices = 3
  MaxReaders = 1
  Late = 1
SYMMETRY Symmetry
CHECK_DEADLOCK FALSE
INVARIANTS OverrunBounded BackedByPaidOrder
PROPERTY InvoicesHold
