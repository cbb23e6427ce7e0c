SPECIFICATION FairSpec
CONSTANTS
  A = A
  B = B
  Thread = {t1, t2}
  Nobody = Nobody
  NoUrl = NoUrl
  Host <- Hosts
  Path <- Paths
  Asked <- Downloads
  Replies <- Moves
  MaxHops = 2
  MaxOpens = 2
CHECK_DEADLOCK FALSE
INVARIANTS GatewayTypeOK OwnConnection OwnResponse NoneForgotten
PROPERTY EveryOpenReturns
