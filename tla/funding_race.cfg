SPECIFICATION FairSpec
CONSTANTS
  p1 = p1
  p2 = p2
  p3 = p3
  t1 = t1
  NoToken = NoToken
  Payments = {p1, p2}
  Tokens = {t1}
  TokenOf <- MixedTokens
  Cancels = {}
  HasExpiry = FALSE
  Provider = "bachs"
  SettlesTo = {}
  Faults = {"stall", "ttl"}
INVARIANTS TypeOK CreditsBoundedByReopens
PROPERTIES ChargeResolved CreditAnnounced
CHECK_DEADLOCK FALSE
