SPECIFICATION JobSpec
CONSTANTS
  NoRow = NoRow
  None = None
  aapl = aapl
  cola = cola
  tick = tick
  cikC = cikC
  cikF = cikF
  inc = inc
  corp = corp
  PctLimit = 1000
  Text <- MCText
  Short <- MCShort
  Cik <- MCCik
  Period = {1, 2, 3}
  Accession <- MCAccession
  Doc <- MCDoc
  Offers <- MCOffers
  CikText <- MCCikText
  HistoryLimit = 4
  ListLimit = 2
INVARIANTS
  ChangesFresh
