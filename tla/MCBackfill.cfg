SPECIFICATION FairSpec
CONSTANTS
  NoRow = NoRow
  Job = {j1, j2}
  Filing <- TwoFilings
  Listing <- TwoLines
  FilingOf <- OneEach
  Form = {"13F", "4"}
  FormOf <- TwoForms
  QuarterOf <- FirstQuarter
  FormsOf <- AllForms
  Since <- FromFirst
  Every = 1
  LastQuarter = 2
INVARIANTS
  IndInv
  CompletedWasFed
  CountsStored
PROPERTIES
  QuartersComplete
