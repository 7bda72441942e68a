SPECIFICATION Spec
CONSTANTS
  NoRow = NoRow
  None = None
  Nobody = Nobody
  aapl = aapl
  cola = cola
  apple = apple
  issuer = issuer
  PctLimit = 1000
  Session = {"worker", "api"}
  Text <- MCText
  Short <- MCShort
  Cik <- MCCik
  Period = {1, 2}
  Accession <- MCAccession
  Doc <- MCDoc
PROPERTIES
  DuplicateMeansIngested
