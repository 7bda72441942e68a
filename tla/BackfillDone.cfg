SPECIFICATION Spec
CONSTANTS
  NoRow = NoRow
  Job = {j1}
  Filing <- TwoFilings
  Listing <- ThreeLines
  FilingOf <- TwoOfThem
  Form = {"13F", "4"}
  FormOf <- TwoForms
  QuarterOf <- FirstQuarter
  FormsOf <- AllForms
  Since <- FromFirst
  Every = 1
  LastQuarter = 2
INVARIANTS
  DoneMeansFed
