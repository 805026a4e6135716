\* Two threads of a shell over one draft: every interleaving of its calls and its check.
CONSTANTS
  NoValue = NoValue
  va = va
  vb = vb
  bad = bad
  t1 = t1
  t2 = t2
  username = username
  Raws = {va, vb}
  Sanitize <- MCSanitize
  Fields = {username}
  Checked = username
  Ruled = username
  Forbidden <- NoRule
  AcceptSets <- MCOneBuild
  MaxVersion = 2
  MaxDrafts = 1
  MaxSeq = 2
  Threads = {t1, t2}
  RingCapacity = 2
SPECIFICATION FairFacetSpec
CONSTRAINT NothingStashed
INVARIANT FacetTypeOK
INVARIANT CheckerIsNeverLost
INVARIANT PendingIsDriven
PROPERTY ChecksSettle
CHECK_DEADLOCK FALSE
