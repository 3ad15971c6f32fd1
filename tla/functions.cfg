SPECIFICATION FunctionsSpec
CONSTANTS
  None = None
  MaxBuf = 6
  PricedRows = 2
  PricedGroup = {g1, g2}
  PricedAsked = {None, g1, gone}
  PricedFrom = {1, 2}
  PricedTill = {2, None}
  PricedAt = {1, 2}
  PricedVersion = {1, 2}
  PricedAmounts <- TwoAmounts
  PricedTokens <- SignedTokens
  MaxDiscounts = 2
  DiscountPrices = 1
  DiscountGroup = {g1}
  DiscountAsked = {None, g1}
  DiscountModel = {1, 2}
  DiscountFrom = {1, 2}
  DiscountTill = {None}
  DiscountAt = {1}
  DiscountVersion = {1}
  DiscountPriority = {0, 1}
  DiscountAmounts <- OneAmount
  DiscountTenths = {5, 9}
  DiscountTokens = {7}
  RoutedChannel = {1, 2, 3}
  RoutedPriority = {1, 2}
  OwnPriority = {None, 2}
  RoutedWeight = {0, 2}
  OwnWeight <- SignedWeights
  MaxMessages = 4
  MaxBlocks = 4
  CalledNames = {"f", "g"}
  CallCounts = {0, 2}
  AskedContents <- SomeContents
  SaidContents <- FewContents
CHECK_DEADLOCK FALSE
INVARIANTS PricesAreRight ChannelsInTiers ConversionIsFaithful StreamIsFaithful
