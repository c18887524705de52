CONSTANTS
  MaxReserve = 12
  MaxAmount = 14
  MaxLp = 10
  Fees <- MCFees
  MaxBaseline = 24
  Shares <- MCShares
  Unit <- CoinTen
  Sys = 10
SPECIFICATION Spec
INVARIANTS
  BaseInKeepsProduct
  BaseOutKeepsProduct
  QuotesAgree
  QuotesAgreeBack
  SimulationAnswers
  RoundTripNeverProfits
  ShareLeavesBaseline
  DeltaCoversPnl
