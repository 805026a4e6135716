\* The SwiftUI view model, one field and one draft: a check that is slow, and
\* edits while it runs.
CONSTANTS
  NoValue = NoValue
  va = va
  vb = vb
  pad = pad
  bad = bad
  username = username
  name = name
  Raws = {va, vb}
  Sanitize <- MCSanitize
  Fields = {username}
  Checked = username
  Ruled = username
  Forbidden <- NoRule
  AcceptSets <- MCOneBuild
  MaxVersion = 1
  MaxDrafts = 1
  MaxSeq = 6
  Kinds = {"apple"}
  Seed <- MCSeed
  MaxEdits = 1
  MaxQueue = 1
  MaxPushes = 0
  MaxCalls = 2
SPECIFICATION FairShellSpec
PROPERTY PhoneAsks
CHECK_DEADLOCK FALSE
