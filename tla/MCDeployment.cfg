SPECIFICATION FairDeployment
CONSTANTS
  Runner <- MCRunner
  Files = 2
  Api = "api"
  Filing = {"x", "y"}
  FormOf <- MCFormOf
  FiledAt <- MCFiledAt
  Form = {"", "4"}
  All = ""
  FeedSize = 1
  Slot = {1, 2}
INVARIANTS
  IndInv
  DoneIsComplete
  FeedInv
PROPERTIES
  ShownIsAsked
  QueriesFindSchema
  AllApplied
  Surfaces
