\* Two threads of a shell over two drafts: what each is told of the other, stash and restore.
CONSTANTS
  NoValue = NoValue
  va = va
  vb = vb
  bad = bad
  t1 = t1
  t2 = t2
  username = username
  Raws = {va}
  Sanitize <- MCSanitize
  Fields = {username}
  Checked = username
  Ruled = username
  Forbidden <- NoRule
  AcceptSets <- MCOneBuild
  MaxVersion = 2
  MaxDrafts = 2
  MaxSeq = 1
  Threads = {t1, t2}
  RingCapacity = 1
SPECIFICATION FacetSpec
SYMMETRY Symmetry
INVARIANT ShownVersionSettles
INVARIANT NoZombies
CHECK_DEADLOCK FALSE
