SPECIFICATION FairSpec
CONSTANTS
  Keys <- TreeKeys
  Slash = 3
  Dot = 2
  TempNames <- Temp
  PrefixArgs <- SomePrefixes
  Delims <- Delimiters
  Starts <- FromSome
  Sizes = {1, 2}
  MaxLeft = 1
  MaxChurn = 1
INVARIANT StableKeysListed
INVARIANT ListingExact
INVARIANT PagesInOrder
PROPERTY ListingEnds
