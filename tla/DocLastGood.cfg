SPECIFICATION HistorySpec
CONSTANTS
  compiled = compiled
  shipped = shipped
  base = base
  raised = raised
  NoGate = NoGate
  NoFile = NoFile
  Torn = Torn
  NoDocument = NoDocument
  Params = {compiled, shipped, base, raised}
  CompiledParams = compiled
  DefaultFileParams = shipped
  Node = {n1, n2}
  Documents <- GatedDocuments
  Word = 32768
  Divisor = 1024
  Rates <- FeeRates
  Headers <- FeeHeaders
  MaxHeight = 2
  MaxReleases = 2
  MaxCrashes = 1
INVARIANT
  LastGoodSurvives
