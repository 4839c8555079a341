---------------------------- MODULE ClientPool ----------------------------
(***************************************************************************)
(* The pool of client connections (pkg/clientpool), the connections that   *)
(* enter and leave it (the handler in Run, pkg/core/core.go) and the       *)
(* statistics server, whose callback writes to its client while            *)
(* ClientPoolForeach holds the mutex of the pool.                          *)
(***************************************************************************)
EXTENDS Integers, Sequences, FiniteSets

CONSTANTS
  Conn,     \* connections to the main socket
  Stat,     \* connections to the statistics port
  Psql,     \* connections to the psql port (see PgConsole)
  StatCap   \* lines the socket of a statistics client holds

ASSUME PoolAssumption ==
  /\ StatCap \in Nat \ {0}
  /\ Conn \cap Stat = {} /\ Conn \cap Psql = {} /\ Stat \cap Psql = {}

Free == "nobody"
ASSUME FreeAssumption == Free \notin Stat \cup Psql

VARIABLES
  up,       \* the process has not ended
  pool,     \* PoolImpl.pool
  mu,       \* who holds PoolImpl.mu over several steps
  conn,     \* where the goroutine of each connection is
  stat      \* the goroutine of each statistics connection

poolVars == <<up, pool, mu, conn, stat>>

NoStat == [pc |-> "none", left |-> {}, lines |-> {}, failed |-> FALSE, unread |-> 0, peer |-> "reading"]

PoolTypeOK ==
  /\ up \in BOOLEAN
  /\ pool \subseteq Conn
  /\ mu \in {Free} \cup Stat \cup Psql
  /\ conn \in [Conn -> {"none", "put", "serving", "pop", "over"}]
  /\ \A w \in Stat :
       /\ stat[w].pc \in {"none", "lock", "visit", "over"}
       /\ stat[w].left \subseteq Conn /\ stat[w].lines \subseteq Conn
       /\ stat[w].unread \in 0..StatCap /\ stat[w].peer \in {"reading", "closed"}
       /\ mu = w <=> stat[w].pc = "visit"

PoolInit ==
  /\ up = TRUE /\ pool = {} /\ mu = Free
  /\ conn = [c \in Conn |-> "none"]
  /\ stat = [w \in Stat |-> NoStat]

-----------------------------------------------------------------------------
(* A connection to the main socket.                                        *)

Accepted(c) ==
  /\ up /\ conn[c] = "none"
  /\ conn' = [conn EXCEPT ![c] = "put"]
  /\ UNCHANGED <<up, pool, mu, stat>>

\* Faulty variant: the mutex is not taken.
PutUnlocked(c) ==
  /\ up /\ conn[c] = "put"
  /\ pool' = pool \cup {c}
  /\ conn' = [conn EXCEPT ![c] = "serving"]
  /\ UNCHANGED <<up, mu, stat>>

Put(c) ==
  /\ up /\ conn[c] = "put" /\ mu = Free
  /\ pool' = pool \cup {c}
  /\ conn' = [conn EXCEPT ![c] = "serving"]
  /\ UNCHANGED <<up, mu, stat>>

\* ProcConn returns.
Served(c) ==
  /\ up /\ conn[c] = "serving"
  /\ conn' = [conn EXCEPT ![c] = "pop"]
  /\ UNCHANGED <<up, pool, mu, stat>>

\* Pop closes the connection.  The speeds it keeps for SHOW STATS are left out.
Pop(c) ==
  /\ up /\ conn[c] = "pop" /\ mu = Free
  /\ pool' = pool \ {c}
  /\ conn' = [conn EXCEPT ![c] = "over"]
  /\ UNCHANGED <<up, mu, stat>>

-----------------------------------------------------------------------------
(* A connection to the statistics port.                                    *)

\* The client connects; the greeting fits the socket.
StatAccepted(w) ==
  /\ up /\ stat[w].pc = "none"
  /\ stat' = [stat EXCEPT ![w].pc = "lock"]
  /\ UNCHANGED <<up, pool, mu, conn>>

\* ClientPoolForeach locks the pool and starts one goroutine per client.
StatForeach(w) ==
  /\ up /\ stat[w].pc = "lock" /\ mu = Free
  /\ mu' = w
  /\ stat' = [stat EXCEPT ![w].pc = "visit", ![w].left = pool]
  /\ UNCHANGED <<up, pool, conn>>

\* The callback for one client: its Write waits for room, or fails when the
\* statistics client has closed.
Room(w) == stat[w].unread < StatCap \/ stat[w].peer = "closed"
StatCallback(w, c) ==
  LET s == stat[w] IN
  /\ up /\ s.pc = "visit" /\ c \in s.left /\ Room(w)
  /\ stat' = [stat EXCEPT ![w] =
       IF s.peer = "closed" THEN [s EXCEPT !.left = s.left \ {c}, !.failed = TRUE]
       ELSE [s EXCEPT !.left = s.left \ {c}, !.lines = s.lines \cup {c}, !.unread = s.unread + 1]]
  /\ UNCHANGED <<up, pool, mu, conn>>

\* Faulty variant: the mutex is kept.
StatKeepsLock(w) ==
  /\ up /\ stat[w].pc = "visit" /\ stat[w].left = {}
  /\ stat' = [stat EXCEPT ![w] = [NoStat EXCEPT !.pc = "over"]]
  /\ UNCHANGED <<up, pool, mu, conn>>

\* wg.Wait returns, the pool is unlocked and the connection closed.
StatReturns(w) ==
  /\ up /\ stat[w].pc = "visit" /\ stat[w].left = {}
  /\ mu' = Free
  /\ stat' = [stat EXCEPT ![w] = [NoStat EXCEPT !.pc = "over"]]
  /\ UNCHANGED <<up, pool, conn>>

\* The statistics client reads, or closes.
StatRead(w) ==
  /\ stat[w].peer = "reading" /\ stat[w].unread > 0
  /\ stat' = [stat EXCEPT ![w].unread = @ - 1]
  /\ UNCHANGED <<up, pool, mu, conn>>
StatHangsUp(w) ==
  /\ stat[w].pc \in {"lock", "visit"} /\ stat[w].peer = "reading"
  /\ stat' = [stat EXCEPT ![w].peer = "closed", ![w].unread = 0]
  /\ UNCHANGED <<up, pool, mu, conn>>

-----------------------------------------------------------------------------

ConnStep(c) == Put(c) \/ Served(c) \/ Pop(c)
StatStep(w) == StatForeach(w) \/ StatReturns(w) \/ \E c \in Conn : StatCallback(w, c)

PoolNext ==
  \/ \E c \in Conn : Accepted(c) \/ ConnStep(c)
  \/ \E w \in Stat : StatAccepted(w) \/ StatStep(w) \/ StatRead(w) \/ StatHangsUp(w)

\* A statistics client that does not read stops the callbacks, and with them
\* whoever needs the pool.
Stuck == \E w \in Stat : stat[w].pc = "visit" /\ stat[w].left # {} /\ ~Room(w)

-----------------------------------------------------------------------------

\* A statistics answer in which no write failed has a line for every client
\* that was in the pool at one moment, between the greeting and the end:
\* connections come and go only before and after, although the lines are
\* written by as many goroutines.
StatWhole ==
  [][\A w \in Stat : stat[w].pc = "visit" /\ stat'[w].pc = "over" /\ ~stat[w].failed
       => stat[w].lines = pool]_poolVars

\* A connection enters the pool, is served and leaves it, unless a statistics
\* client keeps the pool locked for good by not reading, or the process ends.
ConnLeaves ==
  []<>~Stuck => \A c \in Conn : conn[c] # "none" ~> conn[c] = "over" \/ ~up
=============================================================================
