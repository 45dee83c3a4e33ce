SPECIFICATION Spec
CONSTANTS
  Conns = {c1, c2}
  Ips = {ip1}
  MaxSessions = 2
  MaxSessionsPerIp = 2
INVARIANT ClearedByHeaders
CHECK_DEADLOCK FALSE
