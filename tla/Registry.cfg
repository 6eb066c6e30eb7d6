SPECIFICATION FairSpec
CONSTANTS
  Proc = {p1, p2}
  Image <- Images
  Traffic <- Mixes
  Asks <- AsksOf
  Login <- LoginOf
  Grants <- Granted
  EcrLives = {4}
  Margin = 2
  Floor = 2
  EcrMargin = 2
  EcrDefault = 4
  MaxLatency = 1
  MaxClock = 5
  Faults = {"upstream", "challenge", "token", "aws", "revoke"}
  Nobody = Nobody
INVARIANTS
  RefusedOnlyIfWithdrawn
  TokensArriveAlive
  EcrArrivesAlive
PROPERTIES
  EcrRefreshedWhenDue
  RequestsAnswered
