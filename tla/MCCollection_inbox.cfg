\* Two rows, two drafts or one observed window, two canonical events.
CONSTANTS
  NoValue = NoValue
  va = va
  vb = vb
  bad = bad
  Raws = {va, vb, bad}
  Sanitize <- MCSanitize
  Titles <- MCTitles
  Ids = {0, 1}
  Stamps = {1, 2}
  TitleRank <- MCRank
  Filters <- MCFilters
  MaxEnd = 2
  MaxVersion = 2
  MaxDrafts = 2
  MaxWindows = 1
SPECIFICATION MCSpec
INVARIANT CollectionTypeOK
INVARIANT DraftsFollowTheirRow
INVARIANT PagesTile
INVARIANT SameVersionMeansCurrent
PROPERTY EditsLandOnWhatTheySaw
CHECK_DEADLOCK FALSE
