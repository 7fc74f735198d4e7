CONSTANTS
  Streams <- Everything
  Length = 3
  Bytes = {"request", "header", "length", "junk", "byte", "CR", "LF", "zero"}
  Zero = "zero"
  InitSize = 2
  Extra = 20
SPECIFICATION FairSpec
INVARIANT TypeOK
INVARIANT FirstAnswerRight
INVARIANT BoundaryRight
INVARIANT SlidingWindow
PROPERTY DigestedAnswered
\* A client that has sent everything leaves the parser waiting.
CHECK_DEADLOCK FALSE
