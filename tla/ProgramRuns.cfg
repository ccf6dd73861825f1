\* Every program from start to exit.  It ends.
SPECIFICATION ProgramSpec
CONSTANTS
  v1 = v1  v2 = v2  m1 = m1  m2 = m2
  w1 = w1  w2 = w2  w3 = w3
  Unset = Unset
  Measurements = {m1, m2}
  Registrations <- MCRegistrations
  Configs <- MCConfigs
  Wallets <- MCWallets
  MaxInflight = 2
  TxFee = 2
  TxGas = 1
  BaseGasBudget = 10
  SweepGas = 2
  Reserve = 3
CHECK_DEADLOCK FALSE
INVARIANTS
  OutcomeIsEarned
  TrustIsEarned
  EveryExitIsExplained
  StrandedIsVisible
  PoolIsTight
  FundsCoverRetries
  RefundReportIsHonest
