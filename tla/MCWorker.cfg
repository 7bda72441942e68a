SPECIFICATION FairSpec
CONSTANTS
  Filing <- MCFiling
  Form = {"13F", "4"}
  FormOf <- MCFormOf
  FeedSize = 1
  Days = 3
PROPERTIES
  EverythingCaught
  SignalStops
