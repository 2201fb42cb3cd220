\* One name besides the key of the status line, up to four lines and two chunks.
CONSTANTS
  Names = {n}
  StatusKey = key
  Texts = {t}
  Empty = empty
  MaxLines = 4
  MaxChunks = 2
  None = None
SPECIFICATION Spec
INVARIANTS HeadersOfLastResponse StatusIsOwn BodyIsWhole
\* The transfer is over.
CHECK_DEADLOCK FALSE
