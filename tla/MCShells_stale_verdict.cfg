\* The web shell, one field: two drafts one after the other, three edits and
\* their lookups, which is what it takes for two tokens to look alike.
CONSTANTS
  NoValue = NoValue
  va = va
  vb = vb
  pad = pad
  bad = bad
  username = username
  name = name
  Raws = {va, vb, pad}
  Sanitize <- MCSanitize
  Fields = {username}
  Checked = username
  Ruled = username
  Forbidden <- NoRule
  AcceptSets <- MCOneBuild
  MaxVersion = 2
  MaxDrafts = 2
  MaxSeq = 4
  Kinds = {"web"}
  Seed <- MCSeed
  MaxEdits = 3
  MaxQueue = 1
  MaxPushes = 1
  MaxCalls = 1
SPECIFICATION ShellSpec
INVARIANT VerdictIsValueBound
CHECK_DEADLOCK FALSE
