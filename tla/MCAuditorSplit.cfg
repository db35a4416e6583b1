CONSTANTS
  fail1 = fail1
  fail2 = fail2
  ok = ok
  ip = ip
  NoIP = noip
  Keys <- MCKeys
  Failures <- MCFailures
  Successes <- MCSuccesses
  Probes <- MCProbes
  IPs <- MCIPs
  IpOf <- MCIpOf
  AlertOnFailure = TRUE
  AlertOnNewIP = TRUE
  BruteForceThreshold = 2
  MaxPendingEvents = 3
  MaxTracks = 4
SPECIFICATION Spec
INVARIANT SourceEscalates
CHECK_DEADLOCK FALSE
