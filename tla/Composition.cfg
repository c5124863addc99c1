CONSTANTS
  Targets = {1, 2}
  Campaigns <- AllCampaigns
  ImageSizes = {200000, 1500000}
  Slugs = {s1, s2}
  MaxRetries = 2
  MaxVisits = 2
  Lengths <- ModelLengths
  TagLists <- ModelTags
  None = None

SPECIFICATION Spec
CHECK_DEADLOCK FALSE

INVARIANTS
  GeneratedIsAccepted
  LinkAndTagsSurvive
  LinksLeadHome
