\* A window and another client of one daemon, concurrent changes, deaths and
\* restarts: who holds what, and what the window shows and keeps.
CONSTANTS
  NoValue = NoValue
  va = va
  vb = vb
  vc = vc
  folder = folder
  paused = paused
  w1 = w1
  Raws = {va, vb, vc}
  Sanitize <- MCSanitize
  Fields = {folder, paused}
  Checked = folder
  Ruled = folder
  Forbidden <- NoRule
  AcceptSets <- MCOneBuild
  MaxVersion = 2
  MaxDrafts = 2
  MaxSeq = 2
  Paused = paused
  Seed <- MCSeed
  MaxConns = 2
  Windows = {w1}
SPECIFICATION WindowSpec
INVARIANT SyncdTypeOK
INVARIANT DraftsAreOwned
INVARIANT TypedTextIsStashed
INVARIANT PaneSettles
INVARIANT ShownDraftSettles
INVARIANT JudgesTheTypedText
CONSTRAINT PausedIsASwitch
CONSTRAINT TwoChangesOrTwoDrafts
CONSTRAINT OthersLeaveTheFolder
CHECK_DEADLOCK FALSE
