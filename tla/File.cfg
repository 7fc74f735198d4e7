CONSTANTS
  Bytes <- FileBytesAndTokens
  Zero = Zero
  InitSize = 2
  Extra = 1
  Sizes <- SomeSizes
  Wrap = 16
  Numbers <- SomeNumbers
  Absent = Absent
  NoRange = NoRange
  HeadToken = HeadToken
  TextToken = TextToken
  Chunk = 2
  MaxCuts = 2
  MaxProbes = 1
SPECIFICATION FairSpec
INVARIANT TypeOK
INVARIANT RangeExact
INVARIANT LengthHonest
INVARIANT HaveIsPrefix
PROPERTY Downloaded
\* A client that has the whole file stops.
CHECK_DEADLOCK FALSE
