\* Stash, process death and restore, under a build that accepts `vb` and one
\* that no longer does.
CONSTANTS
  NoValue = NoValue
  va = va
  vb = vb
  vc = vc
  padded = padded
  bad = bad
  username = username
  email = email
  Raws = {va, vb, padded, bad}
  Sanitize <- MCSanitize
  Fields = {username}
  Checked = username
  Ruled = username
  Forbidden <- NoRule
  AcceptSets <- MCTightening
  MaxVersion = 1
  MaxDrafts = 2
  MaxSeq = 1
SPECIFICATION Spec
INVARIANT UnregisteredIsCreateFlow
INVARIANT StashIsLossless
PROPERTY OrphanIsTerminal
PROPERTY ImplementsEditSessions
CHECK_DEADLOCK FALSE
