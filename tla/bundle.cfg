\* Two files, one of them overridden by a project; a command may die anywhere, and
\* the owner keeps forcing syncs.
SPECIFICATION FairSpec
CONSTANTS
  Filenames <- MCFilenames
  Specs <- MCSpecs
  Overriding <- MCOverriding
  MaxRelease <- MCMaxRelease
  MaxKills = 1
INVARIANTS
  CopiesAreManaged
PROPERTIES
  EditsSurvive
  InSyncIsCurrent
  StaleCopiesCatchUp
