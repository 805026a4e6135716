\* One field, three interchangeable values, two drafts: every way two edits,
\* their checks and the server can agree and disagree.
CONSTANTS
  NoValue = NoValue
  va = va
  vb = vb
  vc = vc
  padded = padded
  bad = bad
  username = username
  email = email
  Raws = {va, vb, vc, bad}
  Sanitize <- MCSanitize
  Fields = {username}
  Checked = username
  Ruled = username
  Forbidden <- NoRule
  AcceptSets <- MCOneBuild
  MaxVersion = 2
  MaxDrafts = 2
  MaxSeq = 3
SPECIFICATION Spec
SYMMETRY Symmetry
CONSTRAINT NothingStashed
INVARIANT TypeOK
INVARIANT SyncTracksCanonical
INVARIANT VerdictIsValueBound
PROPERTY DirtyEditsSurvive
PROPERTY CreateFlowNeverMoves
PROPERTY CommittedValueIsVerified
CHECK_DEADLOCK FALSE
