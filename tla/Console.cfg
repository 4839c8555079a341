SPECIFICATION FairPgSpec
CONSTANTS
  Conn = {c1, c2}
  Stat = {s1}
  Psql = {p1}
  StatCap = 1
CHECK_DEADLOCK FALSE
INVARIANT ShowSound
PROPERTIES StatWhole ConnLeaves QueryAnswered
