SPECIFICATION MCSpec
CONSTANTS
  Documents <- SmallDocuments
  Limits = {2, 3, 9, 14, 20, 30}
  MaxInput = 40
  MaxEntries = 9
  MaxDepth = 3
  Marker = 3
  Identities = {"s1", "s2", "s3"}
  Variants = {"sampled", "remote"}
  MaxLinks = 2
  Disabled = Disabled
  Invalid = Invalid
  NoOrigin = NoOrigin
  Allowed = {"allowed", "redacted"}
  Steps = {"0", "1", "allowed", "unknown", "redacted"}
  Parts <- SomeParts
  MaxFlaws = 3
  Builds = {"b1", "b2"}
  Profiles <- SomeProfiles
  MaxOptions = 3
  Registrations = 1
  MaxContexts = 3
  Metas <- SomeMetas
  RunIdentities <- SomeIdentities
  CacheSources <- SomeSources
  SafeValues <- SomeSafeValues
  MaxSpans = 2
INVARIANTS
  LongestFittingPrefix
  LinksAreExact
  NothingPrivateLeaves
  ValidatedFirst
  SettingsAreAsAsked
  ContextDecides
  LabelsAreProtected
CHECK_DEADLOCK FALSE
