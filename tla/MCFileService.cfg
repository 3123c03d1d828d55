\* Two calls of any kind at a time on one name, of which the connection of one
\* may break; the name may stand for a file of two chunks already.  Uploads of
\* 0, 1 or 2 chunks, the last short or not.  One message fits in a stream, so
\* both sides get to wait.
SPECIFICATION FairSpec
CONSTANTS
  Calls = {c1, c2}
  Names = {n}
  NoCall = NoCall
  Fragile = {c1}
  MaxLen = 2
  Window = 1
INVARIANTS
  UploadKept
  DownloadWhole
  MixedByOverlap
  ListFailsByDelete
PROPERTIES
  EveryCallEnds
\* Every call may be over.
CHECK_DEADLOCK FALSE
