\* The text another client's submits put under the one the window judges.
CONSTANTS
  NoValue = NoValue
  va = va
  vb = vb
  vc = vc
  folder = folder
  paused = paused
  w1 = w1
  Raws = {va, vb}
  Sanitize <- MCSanitize
  Fields = {folder, paused}
  Checked = folder
  Ruled = folder
  Forbidden <- NoRule
  AcceptSets <- MCOneBuild
  MaxVersion = 2
  MaxDrafts = 3
  MaxSeq = 3
  Paused = paused
  Seed <- MCSeed
  MaxConns = 2
  Windows = {w1}
SPECIFICATION WindowSpec
CONSTRAINT OneOtherEditor
CONSTRAINT OnlyTheFolder
ACTION_CONSTRAINT NobodyLeaves
INVARIANT JudgesTheAskedText
CHECK_DEADLOCK FALSE
