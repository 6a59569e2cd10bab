CONSTANTS
  None = None
  Text = {"a", "b"}
  Part = {"{", "}"}
  Index = {0, 1}
  Complete <- MCComplete
  Chunks <- MCChunks
  MaxLines = 5
  MaxGap = 1
SPECIFICATION Spec
CHECK_DEADLOCK FALSE
INVARIANTS TypeOK RecordedIsComplete ResponseIsTheStream TimingsAreTheStreams
