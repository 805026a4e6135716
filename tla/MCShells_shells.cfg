\* All three shells, two fields tied by a rule: two drafts one after the other,
\* blanks around a text and a text the form rejects, two versions, and a check
\* on a thread of its own.
CONSTANTS
  NoValue = NoValue
  va = va
  vb = vb
  pad = pad
  bad = bad
  username = username
  name = name
  Raws = {va, vb, pad, bad}
  Sanitize <- MCSanitize
  Fields = {username, name}
  Checked = username
  Ruled = name
  Forbidden <- MCRule
  AcceptSets <- MCOneBuild
  MaxVersion = 2
  MaxDrafts = 2
  MaxSeq = 2
  Kinds = {"web", "apple", "android"}
  Seed <- MCSeed
  MaxEdits = 2
  MaxQueue = 1
  MaxPushes = 1
  MaxCalls = 1
SPECIFICATION ShellSpec
INVARIANT ShellTypeOK
INVARIANT UntouchedControlsFollow
INVARIANT ScreenIsOfThisDraft
PROPERTY KeystrokesStay
PROPERTY CommitIsMerge
CHECK_DEADLOCK FALSE
