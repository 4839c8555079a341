------------------------------ MODULE Instance ------------------------------
(***************************************************************************)
(* yproxy processes that take over from one another: Run and               *)
(* DispatchServer (pkg/core/core.go).  They share the paths of two unix    *)
(* sockets; a new process waits for a path to become free, an old one is   *)
(* told to stop, gives its paths up and serves the connections it has.     *)
(***************************************************************************)
EXTENDS Integers, FiniteSets

CONSTANTS
  Inst,       \* the processes
  Link,       \* the clients' connections
  MaxCrashes  \* bound on the processes that die without warning

Sock == {"main", "ic"}   \* SocketPath, InterconnectSocketPath
NoFile == "nothing"

ASSUME InstanceAssumption == MaxCrashes \in Nat /\ NoFile \notin Inst

VARIABLES
  file,     \* the process that created the socket file at a path
  open,     \* the sockets on which a process listens
  var,      \* those whose listener variable is set
  loop,     \* the accept loop of DispatchServer on each
  pc,       \* where Run is
  sig,      \* where the signal goroutine is
  ctx,      \* whether the context is cancelled
  early,    \* processes told to stop before they were ready
  link      \* the connections

instVars == <<file, open, var, loop, pc, sig, ctx, early, link>>

Exited == {"nil", "ctxErr", "crashed"}
Alive(i) == pc[i] \notin Exited \cup {"off"}

NoLink == [at |-> NoFile, on |-> "main", counted |-> FALSE, st |-> "none"]

InstTypeOK ==
  /\ file \in [Sock -> Inst \cup {NoFile}]
  /\ open \in [Inst -> SUBSET Sock] /\ var \in [Inst -> SUBSET Sock]
  /\ loop \in [Inst -> [Sock -> {"none", "accepting", "ended"}]]
  /\ pc \in [Inst -> {"off", "main", "main=", "ic", "ic=", "ready", "wait", "waited"} \cup Exited]
  /\ sig \in [Inst -> {"waiting", "got", "closedMain", "returned"}]
  /\ ctx \subseteq Inst /\ early \subseteq Inst
  /\ \A i \in Inst : \A s \in open[i] : file[s] = i
  /\ link \in [Link -> [at : Inst \cup {NoFile}, on : Sock, counted : BOOLEAN,
                        st : {"none", "queued", "accepted", "served", "done", "lost"}]]

InstInit ==
  /\ file = [s \in Sock |-> NoFile]
  /\ open = [i \in Inst |-> {}] /\ var = [i \in Inst |-> {}]
  /\ loop = [i \in Inst |-> [s \in Sock |-> "none"]]
  /\ pc = [i \in Inst |-> "off"] /\ sig = [i \in Inst |-> "waiting"]
  /\ ctx = {} /\ early = {}
  /\ link = [c \in Link |-> NoLink]

-----------------------------------------------------------------------------
(* Run                                                                     *)

Start(i) ==
  /\ pc[i] = "off"
  /\ pc' = [pc EXCEPT ![i] = "main"]
  /\ UNCHANGED <<file, open, var, loop, sig, ctx, early, link>>

\* A tick of the retry loop on which net.Listen succeeds: there is no file at
\* the path.  (With EADDRINUSE the loop goes on; it takes a cancelled context
\* into account only when it chooses that branch of the select.)
Listen(i, s) ==
  /\ pc[i] = s /\ file[s] = NoFile
  /\ file' = [file EXCEPT ![s] = i]
  /\ open' = [open EXCEPT ![i] = @ \cup {s}]
  /\ pc' = [pc EXCEPT ![i] = IF s = "main" THEN "main=" ELSE "ic="]
  /\ UNCHANGED <<var, loop, sig, ctx, early, link>>

\* The variable is assigned and DispatchServer started; after the second one
\* systemd is told that the process is ready.
Dispatch(i, s) ==
  /\ pc[i] = IF s = "main" THEN "main=" ELSE "ic="
  /\ var' = [var EXCEPT ![i] = @ \cup {s}]
  /\ loop' = [loop EXCEPT ![i][s] = "accepting"]
  /\ pc' = [pc EXCEPT ![i] = IF s = "main" THEN "ic" ELSE "ready"]
  /\ UNCHANGED <<file, open, sig, ctx, early, link>>

\* The process is gone: its sockets are closed, their files stay, and its
\* connections are cut.
Exit(i, how) ==
  /\ pc' = [pc EXCEPT ![i] = how]
  /\ open' = [open EXCEPT ![i] = {}]
  /\ link' = [c \in Link |->
                IF link[c].at = i /\ link[c].st \in {"queued", "accepted", "served"}
                THEN IF link[c].st = "queued" THEN NoLink
                     ELSE [link[c] EXCEPT !.st = "lost"]
                ELSE link[c]]
  /\ UNCHANGED <<file, var, loop, sig, ctx, early>>

\* A retry loop notices the cancelled context: Run returns ctx.Err().
GiveUp(i) == pc[i] \in Sock /\ i \in ctx /\ Exit(i, "ctxErr")

Stopping(i) ==
  /\ pc[i] = "ready" /\ i \in ctx
  /\ pc' = [pc EXCEPT ![i] = "wait"]
  /\ UNCHANGED <<file, open, var, loop, sig, ctx, early, link>>

\* Faulty variant: the active connections are not waited for.
WaitNot(i) ==
  /\ pc[i] = "wait"
  /\ pc' = [pc EXCEPT ![i] = "waited"]
  /\ UNCHANGED <<file, open, var, loop, sig, ctx, early, link>>

\* activeConnections.Wait() returns: no connection is counted at the moment.
Wait(i) ==
  /\ pc[i] = "wait"
  /\ \A c \in Link : ~(link[c].at = i /\ link[c].st = "served")
  /\ pc' = [pc EXCEPT ![i] = "waited"]
  /\ UNCHANGED <<file, open, var, loop, sig, ctx, early, link>>

\* Run returns and main ends the process, whatever has begun since.
Finish(i) == pc[i] = "waited" /\ Exit(i, "nil")

\* Killed, out of memory, a panic, os.Exit, or Run returns because net.Listen
\* fails with another error than EADDRINUSE.
Crash(i) ==
  /\ Alive(i) /\ Cardinality({j \in Inst : pc[j] = "crashed"}) < MaxCrashes
  /\ Exit(i, "crashed")

-----------------------------------------------------------------------------
(* The signal goroutine: a signal to stop (SIGUSR2, SIGINT, SIGTERM)       *)

Signal(i) ==
  /\ Alive(i) /\ sig[i] = "waiting"
  /\ sig' = [sig EXCEPT ![i] = "got"]
  /\ early' = IF pc[i] = "ready" THEN early ELSE early \cup {i}
  /\ UNCHANGED <<file, open, var, loop, pc, ctx, link>>

\* Faulty variant: the file is left to the exit of the process.
CloseKeepsFile(i, s) ==
  /\ open' = [open EXCEPT ![i] = @ \ {s}]
  /\ file' = file
  /\ link' = [c \in Link |->
                IF link[c].at = i /\ link[c].on = s /\ link[c].st = "queued"
                THEN NoLink ELSE link[c]]

\* UnixListener.Close: the file goes once, with the first Close; connections
\* that nobody has accepted are refused.
Close(i, s) ==
  /\ open' = [open EXCEPT ![i] = @ \ {s}]
  /\ file' = IF s \in open[i] THEN [file EXCEPT ![s] = NoFile] ELSE file
  /\ link' = [c \in Link |->
                IF link[c].at = i /\ link[c].on = s /\ link[c].st = "queued"
                THEN NoLink ELSE link[c]]

\* Faulty variant: the goroutine returns without cancelling the context.
CloseListenerOnly(i, s) ==
  /\ Alive(i) /\ sig[i] = IF s = "main" THEN "got" ELSE "closedMain"
  /\ sig' = [sig EXCEPT ![i] = IF s = "main" THEN "closedMain" ELSE "returned"]
  /\ IF s \in var[i] THEN Close(i, s) ELSE UNCHANGED <<open, file, link>>
  /\ UNCHANGED <<var, loop, pc, ctx, early>>

\* Each listener is closed when its variable is seen to be set, the main one
\* first; then the goroutine returns and cancels the context.
CloseListener(i, s) ==
  /\ Alive(i) /\ sig[i] = IF s = "main" THEN "got" ELSE "closedMain"
  /\ sig' = [sig EXCEPT ![i] = IF s = "main" THEN "closedMain" ELSE "returned"]
  /\ IF s \in var[i] THEN Close(i, s) ELSE UNCHANGED <<open, file, link>>
  /\ ctx' = IF s = "main" THEN ctx ELSE ctx \cup {i}
  /\ UNCHANGED <<var, loop, pc, early>>

-----------------------------------------------------------------------------
(* DispatchServer and its clients                                          *)

\* A client connects to the process that listens at the path.
Connect(c, s) ==
  /\ link[c].st = "none" /\ file[s] # NoFile /\ s \in open[file[s]]
  /\ link' = [link EXCEPT ![c] = [at |-> file[s], on |-> s, counted |-> FALSE, st |-> "queued"]]
  /\ UNCHANGED <<file, open, var, loop, pc, sig, ctx, early>>

Accept(c) ==
  /\ link[c].st = "queued" /\ loop[link[c].at][link[c].on] = "accepting"
  /\ link' = [link EXCEPT ![c].st = "accepted"]
  /\ UNCHANGED <<file, open, var, loop, pc, sig, ctx, early>>

\* The connection's goroutine begins: activeConnections.Add(1), which counts
\* for the shutdown unless Wait has returned already.
Serve(c) ==
  /\ link[c].st = "accepted"
  /\ link' = [link EXCEPT ![c].st = "served",
                          ![c].counted = pc[link[c].at] # "waited"]
  /\ UNCHANGED <<file, open, var, loop, pc, sig, ctx, early>>

\* It ends: activeConnections.Done().
LinkServed(c) ==
  /\ link[c].st = "served"
  /\ link' = [link EXCEPT ![c] = [NoLink EXCEPT !.st = "done"]]
  /\ UNCHANGED <<file, open, var, loop, pc, sig, ctx, early>>

\* Faulty variant: the second Close removes the file again.
AcceptLoopUnlinks(i, s) ==
  /\ Alive(i) /\ loop[i][s] = "accepting" /\ s \notin open[i]
  /\ loop' = [loop EXCEPT ![i][s] = "ended"]
  /\ file' = [file EXCEPT ![s] = NoFile]
  /\ UNCHANGED <<open, var, pc, sig, ctx, early, link>>

\* Accept reports that the listener is closed; the loop ends and closes it
\* again, which no longer touches the file.
AcceptLoopEnds(i, s) ==
  /\ Alive(i) /\ loop[i][s] = "accepting" /\ s \notin open[i]
  /\ loop' = [loop EXCEPT ![i][s] = "ended"]
  /\ Close(i, s)
  /\ UNCHANGED <<var, pc, sig, ctx, early>>

-----------------------------------------------------------------------------

RunStep(i) ==
  \/ \E s \in Sock : Listen(i, s)
  \/ \E s \in Sock : Dispatch(i, s)
  \/ GiveUp(i) \/ Stopping(i) \/ Wait(i) \/ Finish(i)

SignalStep(i) == \E s \in Sock : CloseListener(i, s)

LinkStep(c) == Accept(c) \/ Serve(c) \/ LinkServed(c)

InstNext ==
  \/ \E i \in Inst : Start(i) \/ RunStep(i) \/ Signal(i) \/ SignalStep(i) \/ Crash(i)
  \/ \E i \in Inst, s \in Sock : AcceptLoopEnds(i, s)
  \/ \E c \in Link : LinkStep(c) \/ \E s \in Sock : Connect(c, s)

InstSpec == InstInit /\ [][InstNext]_instVars

-----------------------------------------------------------------------------

\* A process that has told systemd it is ready and has not been told to stop
\* is the one that clients reach: no other process takes over its paths or
\* removes its files, although every one of them closes each listener twice.
ReadyReachable ==
  \A i \in Inst : pc[i] = "ready" /\ sig[i] = "waiting" =>
    \A s \in Sock : file[s] = i /\ s \in open[i]

\* A process told to stop once it was ready serves the connections it has
\* counted before its Wait returned to their end before it exits, although
\* others are accepted and counted while it waits.
CountedServed ==
  \A c \in Link : link[c].st = "lost" /\ link[c].counted =>
    pc[link[c].at] = "crashed" \/ link[c].at \in early

\* Only a crash costs a client the connection that was accepted from it.
ActiveServed == \A c \in Link : link[c].st = "lost" => pc[link[c].at] = "crashed"

\* A process told to stop exits, whatever state it was in.
StopExits == \A i \in Inst : (sig[i] # "waiting") ~> pc[i] \in Exited

\* A process that waits for the socket comes to listen on it when the others
\* are gone, provided they were not told to stop before they were ready and
\* did not crash: nothing removes the file they leave behind then.
Handover ==
  \A i \in Inst :
    (pc[i] = "main" /\ \A j \in Inst \ {i} : ~Alive(j))
      ~> \/ "main" \in open[i] \/ sig[i] # "waiting" \/ pc[i] = "crashed"
         \/ \E j \in Inst \ {i} : Alive(j) \/ j \in early \/ pc[j] = "crashed"
=============================================================================
