------------------------------ MODULE PgConsole ------------------------------
(***************************************************************************)
(* The psql port: PostgresIface, ProcessShow and ProcessCopy of            *)
(* pkg/core/pg/pg.go, on the client pool.  A client of the simple query    *)
(* protocol sends one message and waits for ReadyForQuery.                 *)
(***************************************************************************)
EXTENDS ClientPool

VARIABLE psql   \* each session

pgVars == <<poolVars, psql>>

\* What a client may send: while it connects, and as a query.  "clients",
\* "stats" and "stat_system" are SHOW commands, "copy badly" is a COPY with an
\* option of a wrong type, "syntax" does not parse, "extended" is any message but
\* Query, Terminate included.
Startup == {"SSLRequest", "StartupMessage", "CancelRequest"}
Query == {"hello", "clients", "stats", "stat_system", "show other", "copy",
          "copy badly", "kkb", "unknown", "syntax"}

\* infos of SHOW CLIENTS, a slice: the words of its header, where ptr is the
\* callback that has allocated the array.
Nil == "nil"
ASSUME NilAssumption == Nil \notin Conn
Words == {"ptr", "len", "cap"}
NoInfos == [ptr |-> Nil, len |-> 0, cap |-> 0]

\* msg: what has been sent and not been answered; arr: the arrays; cb: the
\* callbacks, each with its copy of the header and what it has yet to load or
\* to store.
NoSession == [pc |-> "none", msg |-> "none", infos |-> NoInfos, arr |-> << >>, cb |-> << >>,
              answer |-> "none"]

SessionOK(s) ==
  /\ s.pc \in {"none", "startup", "auth", "receive", "visit", "dying", "over"}
  /\ s.msg \in {"none", "password", "extended"} \cup Startup \cup Query
  /\ DOMAIN s.arr \subseteq DOMAIN s.cb /\ DOMAIN s.cb \subseteq Conn
  /\ \A c \in DOMAIN s.cb : s.cb[c].at \in {"load", "store"} /\ s.cb[c].todo \subseteq Words \cup {"slot"}
  /\ s.answer \in {"none", "rows", "error", "done"}

PgTypeOK ==
  /\ PoolTypeOK
  /\ \A w \in Psql : SessionOK(psql[w]) /\ (mu = w <=> psql[w].pc = "visit")

PgInit == PoolInit /\ psql = [w \in Psql |-> NoSession]

Set(w, s) == psql' = [psql EXCEPT ![w] = s]

-----------------------------------------------------------------------------
(* The client.                                                             *)

Dial(w) ==
  /\ up /\ psql[w].pc = "none"
  /\ Set(w, [psql[w] EXCEPT !.pc = "startup"])
  /\ UNCHANGED poolVars

Send(w, m) ==
  /\ psql[w].msg = "none"
  /\ CASE psql[w].pc = "startup" -> m \in Startup
       [] psql[w].pc = "auth" -> m = "password"
       [] psql[w].pc = "receive" -> m \in Query \cup {"extended"}
       [] OTHER -> FALSE
  /\ Set(w, [psql[w] EXCEPT !.msg = m, !.answer = "none"])
  /\ UNCHANGED poolVars

\* The client closes: the next Receive fails and the session ends.
HangUp(w) ==
  /\ up /\ psql[w].pc \in {"startup", "auth", "receive"} /\ psql[w].msg = "none"
  /\ Set(w, [psql[w] EXCEPT !.pc = "over"])
  /\ UNCHANGED poolVars

-----------------------------------------------------------------------------
(* PostgresIface.                                                          *)

\* SSL is refused and the loop goes on; StartupMessage ends it; anything else
\* ends the session.
StartupStep(w) ==
  /\ up /\ psql[w].pc = "startup" /\ psql[w].msg # "none"
  /\ Set(w, [psql[w] EXCEPT !.msg = "none",
       !.pc = CASE psql[w].msg = "SSLRequest" -> "startup"
                [] psql[w].msg = "StartupMessage" -> "auth"
                [] OTHER -> "over"])
  /\ UNCHANGED poolVars

\* Whatever answers the request for a password is accepted.
AuthStep(w) ==
  /\ up /\ psql[w].pc = "auth" /\ psql[w].msg # "none"
  /\ Set(w, [psql[w] EXCEPT !.msg = "none", !.pc = "receive"])
  /\ UNCHANGED poolVars

\* The rows or the error, and ReadyForQuery.
Answered(a) == [NoSession EXCEPT !.pc = "receive", !.answer = a]

\* Queries that need nothing but the session.  COPY is a dry run: the files to
\* copy, and CommandComplete whether or not they could be listed.  KKB answers
\* and then ends the process.  A message that is not a query has no answer.
Simple(w) ==
  LET s == psql[w] IN
  /\ up /\ s.pc = "receive" /\ s.msg \notin {"none", "clients", "stats", "copy badly"}
  /\ CASE s.msg \in {"hello", "stat_system"} -> Set(w, Answered("rows"))
       [] s.msg = "copy" -> \E a \in {"rows", "done"} : Set(w, Answered(a))
       [] s.msg \in {"show other", "unknown", "syntax"} -> Set(w, Answered("error"))
       [] s.msg = "kkb" -> Set(w, [Answered("done") EXCEPT !.pc = "dying"])
       [] OTHER -> Set(w, [s EXCEPT !.msg = "none"])
  /\ UNCHANGED poolVars

\* The end of the process: os.Exit, a panic, or an access outside an array,
\* after which nothing is known of it.
Lost == up' = FALSE /\ UNCHANGED <<pool, mu, conn, stat, psql>>

Die(w) == up /\ psql[w].pc = "dying" /\ Lost

\* The type assertion on the value of the option panics.
CopyPanics(w) == up /\ psql[w].pc = "receive" /\ psql[w].msg = "copy badly" /\ Lost

\* SHOW STATS: Quantile for each size category, each under the mutex.
ShowStats(w) ==
  /\ up /\ psql[w].pc = "receive" /\ psql[w].msg = "stats" /\ mu = Free
  /\ Set(w, Answered("rows"))
  /\ UNCHANGED poolVars

\* SHOW CLIENTS: ClientPoolForeach starts a callback for each client of the
\* pool, which appends the client to infos.
ShowClients(w) ==
  /\ up /\ psql[w].pc = "receive" /\ psql[w].msg = "clients" /\ mu = Free
  /\ mu' = w
  /\ Set(w, [psql[w] EXCEPT !.pc = "visit", !.infos = NoInfos, !.arr = << >>,
                            !.cb = [c \in pool |-> [at |-> "load", h |-> NoInfos, todo |-> Words]]])
  /\ UNCHANGED <<up, pool, conn, stat>>

\* Nothing orders the callbacks, which run concurrently: each loads the words
\* of the header one by one ...
LoadInfos(w, c) ==
  LET s == psql[w] IN
  /\ up /\ s.pc = "visit" /\ c \in DOMAIN s.cb /\ s.cb[c].at = "load"
  /\ \E x \in s.cb[c].todo :
       Set(w, [s EXCEPT !.cb[c] = [at |-> "load", h |-> [s.cb[c].h EXCEPT ![x] = s.infos[x]],
                                   todo |-> s.cb[c].todo \ {x}]])
  /\ UNCHANGED poolVars

\* ... adds one to the length, and, when that is more than the capacity, copies
\* the elements to an array of its own, twice as large if that is enough ...
Inside(s, p, n) == n = 0 \/ (p \in DOMAIN s.arr /\ n <= Len(s.arr[p]))
Grown(n, k) == IF n > 2 * k THEN n ELSE 2 * k

InPlace(s, c, h) ==
  [s EXCEPT !.cb[c] = [at |-> "store", h |-> [h EXCEPT !.len = h.len + 1], todo |-> {"len", "slot"}]]
Copied(s, c, h, k) ==
  [s EXCEPT !.arr = [d \in DOMAIN s.arr \cup {c} |->
                       IF d # c THEN s.arr[d]
                       ELSE [i \in 1..k |-> IF i <= h.len THEN s.arr[h.ptr][i] ELSE Nil]],
            !.cb[c] = [at |-> "store", h |-> [ptr |-> c, len |-> h.len + 1, cap |-> k],
                       todo |-> Words \cup {"slot"}]]

GrowInfos(w, c) ==
  LET s == psql[w]
      h == s.cb[c].h
  IN
  /\ up /\ s.pc = "visit" /\ c \in DOMAIN s.cb /\ s.cb[c].at = "load" /\ s.cb[c].todo = {}
  /\ \/ h.len < h.cap /\ Set(w, InPlace(s, c, h)) /\ UNCHANGED poolVars
     \/ /\ h.len >= h.cap /\ Inside(s, h.ptr, h.len)
        /\ Set(w, Copied(s, c, h, Grown(h.len + 1, h.cap))) /\ UNCHANGED poolVars
     \/ h.len >= h.cap /\ ~Inside(s, h.ptr, h.len) /\ Lost

\* ... and stores the words that it has changed ...
StoreInfos(w, c) ==
  LET s == psql[w] IN
  /\ up /\ s.pc = "visit" /\ c \in DOMAIN s.cb /\ s.cb[c].at = "store"
  /\ \E x \in s.cb[c].todo \cap Words :
       Set(w, [s EXCEPT !.infos[x] = s.cb[c].h[x],
                        !.cb[c] = [at |-> "store", h |-> s.cb[c].h, todo |-> s.cb[c].todo \ {x}]])
  /\ UNCHANGED poolVars

Slot(s, c, e) ==
  [s EXCEPT !.arr = [d \in DOMAIN s.arr |->
                       IF d = s.cb[c].h.ptr THEN [s.arr[d] EXCEPT ![s.cb[c].h.len] = e] ELSE s.arr[d]],
            !.cb[c] = [at |-> "store", h |-> s.cb[c].h, todo |-> s.cb[c].todo \ {"slot"}]]

\* Faulty variant: the callback stores the client of another goroutine, the
\* loop variable being shared.
StoreShared(w, c) ==
  LET s == psql[w] IN
  /\ up /\ s.pc = "visit" /\ c \in DOMAIN s.cb /\ s.cb[c].at = "store" /\ "slot" \in s.cb[c].todo
  /\ IF Inside(s, s.cb[c].h.ptr, s.cb[c].h.len)
     THEN (\E e \in pool : Set(w, Slot(s, c, e))) /\ UNCHANGED poolVars
     ELSE Lost

\* ... and the client behind the elements.
StoreClient(w, c) ==
  LET s == psql[w] IN
  /\ up /\ s.pc = "visit" /\ c \in DOMAIN s.cb /\ s.cb[c].at = "store" /\ "slot" \in s.cb[c].todo
  /\ IF Inside(s, s.cb[c].h.ptr, s.cb[c].h.len)
     THEN Set(w, Slot(s, c, c)) /\ UNCHANGED poolVars
     ELSE Lost

\* wg.Wait returns when every callback has stored everything.
Done(s) == \A c \in DOMAIN s.cb : s.cb[c].at = "store" /\ s.cb[c].todo = {}
Rows(s) == [i \in 1..s.infos.len |-> s.arr[s.infos.ptr][i]]

\* The rows can be written: the array has them, and none is a nil client.
Readable(s) == Inside(s, s.infos.ptr, s.infos.len) /\ \A i \in DOMAIN Rows(s) : Rows(s)[i] # Nil

\* Faulty variant: the session ends without an answer.
ShowClientsSilent(w) ==
  /\ up /\ psql[w].pc = "visit" /\ Done(psql[w])
  /\ mu' = Free
  /\ Set(w, [NoSession EXCEPT !.pc = "over", !.msg = "clients"])
  /\ UNCHANGED <<up, pool, conn, stat>>

\* The pool is unlocked before anything is written.
ShowClientsReturns(w) ==
  /\ up /\ psql[w].pc = "visit" /\ Done(psql[w])
  /\ \/ /\ Readable(psql[w]) /\ mu' = Free
        /\ Set(w, Answered("rows"))
        /\ UNCHANGED <<up, pool, conn, stat>>
     \/ ~Readable(psql[w]) /\ Lost

-----------------------------------------------------------------------------

SessionStep(w) ==
  \/ StartupStep(w) \/ AuthStep(w) \/ Simple(w) \/ CopyPanics(w)
  \/ ShowStats(w) \/ ShowClients(w) \/ ShowClientsReturns(w)
  \/ \E c \in Conn : LoadInfos(w, c) \/ GrowInfos(w, c) \/ StoreInfos(w, c) \/ StoreClient(w, c)

PgNext ==
  \/ PoolNext /\ UNCHANGED psql
  \/ \E w \in Psql :
       \/ Dial(w) \/ HangUp(w) \/ Die(w) \/ SessionStep(w)
       \/ \E m \in Startup \cup Query \cup {"password", "extended"} : Send(w, m)

PgSpec == PgInit /\ [][PgNext]_pgVars

\* The goroutines run, and a sync.Mutex starves nobody.  Nothing is asked of
\* the clients.
FairPgSpec ==
  /\ PgSpec
  /\ \A c \in Conn : SF_poolVars(ConnStep(c))
  /\ \A w \in Stat : SF_poolVars(StatStep(w))
  /\ \A w \in Psql : SF_pgVars(SessionStep(w))

-----------------------------------------------------------------------------

\* What SHOW CLIENTS answers, although the callbacks append to infos without
\* synchronisation, are clients of the pool, none twice, and at least one when
\* there is one.  It need not be all of them, and there need not be an answer:
\* the header may be a mixture of two, and an element not be there yet.
ShowSound ==
  \A w \in Psql :
    psql[w].pc = "visit" /\ Done(psql[w]) /\ Readable(psql[w]) =>
      LET i == Rows(psql[w]) IN
      /\ \A k \in DOMAIN i : i[k] \in pool /\ \A l \in DOMAIN i : i[k] = i[l] => k = l
      /\ pool # {} => i # << >>

\* Every query is answered with ReadyForQuery, unless a statistics client keeps
\* the pool locked for good, or the process ends: it is told to die, or panics.
QueryAnswered ==
  []<>~Stuck =>
    \A w \in Psql : (psql[w].msg \in Query) ~> (psql[w].answer # "none" \/ ~up)
=============================================================================
