---------------------------- MODULE DebugServer ----------------------------
(***************************************************************************)
(* The signals of a yproxy process and the debug server that SIGHUP        *)
(* starts for a while: the signal goroutine of Run (pkg/core/core.go) and  *)
(* ServeFor and Shutdown of pkg/core/pprof.go, which share a mutex.  Time  *)
(* is the order in which countdowns are started and run out.               *)
(***************************************************************************)
EXTENDS Integers

CONSTANT MaxServe   \* bound on the calls of ServeFor

ASSUME DebugAssumption == MaxServe \in Nat \ {0}

VARIABLES
  chan,     \* sigs, a channel for one signal: the signal in it, or "empty"
  gor,      \* where the signal goroutine is
  calls,    \* ServeFor calls so far; each starts a countdown with its number
  timer,    \* dws.timer: the number of a timer, 0 for nil
  armed,    \* the countdown that runs on each timer, 0 when none does
  fired,    \* countdowns that have run out and whose Shutdown has yet to lock
  lock,     \* dws.mu: held by the Shutdown of a countdown, 0 when free
  srv,      \* the current server
  busy,     \* whether it is answering a request
  promise,  \* the countdown of the last ServeFor that returned nil
  endedBy   \* the countdown whose Shutdown ended the last server

dbgVars == <<chan, gor, calls, timer, armed, fired, lock, srv, busy, promise, endedBy>>
web == <<calls, timer, armed, fired, lock, srv, busy, promise, endedBy>>

Count == 0..MaxServe

DebugTypeOK ==
  /\ chan \in {"empty", "HUP", "USR1", "TERM"}
  /\ gor \in {"receive", "ServeFor", "returned"}
  /\ calls \in Count /\ timer \in Count /\ armed \in [1..MaxServe -> Count]
  /\ fired \subseteq Count \ {0} /\ lock \in Count
  /\ srv \in {"none", "up", "closing"} /\ busy \in BOOLEAN
  /\ promise \in Count /\ endedBy \in Count
  /\ srv = "up" <=> timer # 0
  /\ srv = "closing" <=> lock # 0

DebugInit ==
  /\ chan = "empty" /\ gor = "receive"
  /\ calls = 0 /\ timer = 0 /\ armed = [k \in 1..MaxServe |-> 0] /\ fired = {}
  /\ lock = 0 /\ srv = "none" /\ busy = FALSE /\ promise = 0 /\ endedBy = 0

\* A signal for which the channel has no room is dropped.
Kill(s) ==
  /\ gor # "returned"
  /\ s = "HUP" => calls < MaxServe
  /\ chan' = IF chan = "empty" THEN s ELSE chan
  /\ UNCHANGED <<gor, web>>

\* SIGUSR1 reloads the configuration and the log; SIGHUP calls ServeFor; every
\* other signal stops the process.
Receive ==
  /\ gor = "receive" /\ chan # "empty"
  /\ chan' = "empty"
  /\ gor' = CASE chan = "USR1" -> "receive"
              [] chan = "HUP" /\ calls < MaxServe -> "ServeFor"
              [] chan = "HUP" /\ calls >= MaxServe -> "receive"
              [] OTHER -> "returned"
  /\ UNCHANGED web

\* Faulty variant: the timer is stopped and not started again.
ServeForStops ==
  /\ gor = "ServeFor" /\ lock = 0
  /\ calls' = calls + 1
  /\ IF timer # 0
     THEN /\ armed' = [armed EXCEPT ![timer] = 0]
          /\ promise' = IF armed[timer] # 0 THEN calls' ELSE promise
          /\ UNCHANGED <<timer, srv>>
     ELSE /\ timer' = calls' /\ armed' = [armed EXCEPT ![calls'] = calls']
          /\ srv' = "up" /\ promise' = calls'
  /\ gor' = "receive"
  /\ UNCHANGED <<chan, fired, lock, busy, endedBy>>

\* With a server up its timer is reset: that is a new countdown even when the
\* old one has run out, and then the call reports an error.  Otherwise there
\* is a new server with a new timer.
ServeFor ==
  /\ gor = "ServeFor" /\ lock = 0
  /\ calls' = calls + 1
  /\ IF timer # 0
     THEN /\ armed' = [armed EXCEPT ![timer] = calls']
          /\ promise' = IF armed[timer] # 0 THEN calls' ELSE promise
          /\ UNCHANGED <<timer, srv>>
     ELSE /\ timer' = calls' /\ armed' = [armed EXCEPT ![calls'] = calls']
          /\ srv' = "up" /\ promise' = calls'
  /\ gor' = "receive"
  /\ UNCHANGED <<chan, fired, lock, busy, endedBy>>

\* A countdown runs out: AfterFunc's goroutine is about to lock the mutex.
\* Countdowns are equally long, so the older one runs out first.
Fire(k) ==
  /\ armed[k] # 0
  /\ \A j \in 1..MaxServe : armed[j] # 0 => armed[k] <= armed[j]
  /\ fired' = fired \cup {armed[k]}
  /\ armed' = [armed EXCEPT ![k] = 0]
  /\ UNCHANGED <<chan, gor, calls, timer, lock, srv, busy, promise, endedBy>>

\* Shutdown: nothing when there is no timer, else the server stops listening
\* and the mutex is kept until its requests are answered.
Shutdown(c) ==
  /\ c \in fired /\ lock = 0
  /\ fired' = fired \ {c}
  /\ IF timer = 0 THEN UNCHANGED <<timer, lock, srv, endedBy>>
     ELSE timer' = 0 /\ lock' = c /\ srv' = "closing" /\ endedBy' = c
  /\ UNCHANGED <<chan, gor, calls, armed, busy, promise>>

\* Faulty variant: the mutex is not released.
ShutdownKeepsLock ==
  /\ lock # 0 /\ ~busy
  /\ srv' = "none"
  /\ UNCHANGED <<chan, gor, calls, timer, armed, fired, lock, busy, promise, endedBy>>

ShutdownReturns ==
  /\ lock # 0 /\ ~busy
  /\ lock' = 0 /\ srv' = "none"
  /\ UNCHANGED <<chan, gor, calls, timer, armed, fired, busy, promise, endedBy>>

\* A client of the debug server.
Request == srv = "up" /\ ~busy /\ busy' = TRUE
           /\ UNCHANGED <<chan, gor, calls, timer, armed, fired, lock, srv, promise, endedBy>>
Respond == busy /\ busy' = FALSE
           /\ UNCHANGED <<chan, gor, calls, timer, armed, fired, lock, srv, promise, endedBy>>

Timers == (\E k \in 1..MaxServe : Fire(k)) \/ (\E c \in 1..MaxServe : Shutdown(c)) \/ ShutdownReturns

DebugNext ==
  \/ \E s \in {"HUP", "USR1", "TERM"} : Kill(s)
  \/ Receive \/ ServeFor \/ Timers \/ Request \/ Respond

DebugSpec == DebugInit /\ [][DebugNext]_dbgVars

-----------------------------------------------------------------------------

\* The debug server does not stay up: once nobody asks for it any more it
\* goes down.
DebugEnds == (srv = "up") ~> (srv # "up")

\* A signal to stop that is in the channel is acted upon, although the
\* goroutine that takes it may be waiting in ServeFor for a Shutdown that
\* waits for the clients of the debug server.
StopTaken == (chan = "TERM") ~> (gor = "returned")

\* A server is not ended before the countdown of the last ServeFor that
\* returned without an error: it is up for the whole duration asked for.
FullDuration == srv = "closing" => endedBy >= promise
=============================================================================
