CONSTANTS
  Streams <- BadThenMore
  Length = 3
  Bytes = {"request", "header", "length", "junk", "byte", "CR", "LF", "zero"}
  Zero = "zero"
  InitSize = 2
  Extra = 20
SPECIFICATION FairSpec
PROPERTY MalformedAnswered
\* A client that has sent everything leaves the parser waiting.
CHECK_DEADLOCK FALSE
