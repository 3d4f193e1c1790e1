\* Two collections of one page and a refused one: robots, redirects, retries, timeouts.
SPECIFICATION FairSpec
CONSTANTS
  t1 = t1 t2 = t2 t3 = t3 page = page moved = moved private = private robots = robots
  plain = plain foreign = foreign intranet = intranet
  site = site twin = twin mirror = mirror host = host mirror_host = mirror_host
  Null = Null
  Target <- Targets
  Pages <- AllPages
  OriginOf <- Origin
  HostOf <- SharedHost
  RobotsOf <- Robots
  Forbidden = {intranet}
  Secure <- Encrypted
  MinInterval = 1
  MaxCrawlDelay = 2
  Timeout = 2
  ParseTimeout = 1
  MaxRedirects = 1
  MaxAttempts = 2
  RetryBase = 1
  Tasks = {t1, t2, t3}
  RobotsFiles <- Files
\* Every collection of the instance ends.
CHECK_DEADLOCK FALSE
INVARIANTS TypeOK
PROPERTIES RequestsSpaced RobotsRespected TimeBounded CollectionEnds
