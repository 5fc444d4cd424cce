\* Three start-ups of two instances, each with one of eight sets of definitions of
\* the default skill and of one that may be missing, over two versions and two
\* contents (one disables its skill): two start-ups overlap on what a third left,
\* or a third follows two that overlapped.  One run.  Instances stop, so the
\* system may.
CONSTANTS
  a1 = a1
  a2 = a2
  techQa = techQa
  extra = extra
  run1 = run1
  on = on
  off = off
  Instances <- TwoInstances
  SkillOrder <- Order
  RequiredSkills <- Required
  DefaultSkill = techQa
  Versions <- TwoVersions
  Contents <- TwoContents
  EnabledContents <- OnlyOn
  DefinitionSets <- Sets
  Runs <- OneRun
  NoSkill = NoSkill
  NoVersion = NoVersion
  NoContent = NoContent
  NoInstance = NoInstance
  NoSet = NoSet
  MaxStarts = 3
SPECIFICATION FairSpec
INVARIANTS
  TypeOK
  ReadyMeansPublished
  DefaultSkillResolves
  BindingsKeepTheirVersion
  LastSetIsPublished
PROPERTIES
  PublishedNeverChanges
  StartupsEnd
CHECK_DEADLOCK FALSE
