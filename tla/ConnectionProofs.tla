-------------------------- MODULE ConnectionProofs --------------------------
(***************************************************************************)
(* Proofs about the streaming requests of Connection: cat (RetryReader),   *)
(* for objects of every length, every start_offset, buffer size and number *)
(* of retries; put (PutPipeline) and copy (Copy), for every number of      *)
(* messages, files, goroutines and passes.                                 *)
(***************************************************************************)
EXTENDS Connection, TLAPS

-----------------------------------------------------------------------------
(* Cat.                                                                    *)

\* The types; an open stream stands at offsetReached, and everything the
\* client has got lies before it.
ReaderInv ==
  /\ TypeOK
  /\ pc = "reading" =>
       /\ src # NoStream => src = offsetReached
       /\ \A b \in got : b < offsetReached

\* What the client receives in one Read are bytes of the stream.
LEMMA ConsumeEffect ==
  ASSUME TypeOK, src # NoStream, NEW n \in 0..Chunk, Fits(n), Consume(n)
  PROVE  /\ skipped' \in 0..StartOffset
         /\ got' \subseteq Byte
         /\ \A b \in got' : b \in got \/ b \in src..(src + n - 1)
<1>0. /\ Length \in Nat /\ StartOffset \in Nat /\ n \in Nat
      /\ src \in Nat /\ src + n <= Length
  BY ReaderAssumption DEF TypeOK, NoStream, Fits
<1>1. CASE Skipping
  BY <1>0, <1>1 DEF TypeOK, Fits, Consume, Skipping
<1>2. CASE ~ Skipping
  <2>1. got' = got \cup src..(src + n - 1) /\ skipped' = skipped
    BY <1>2 DEF Consume
  <2>2. src..(src + n - 1) \subseteq Byte
    BY <1>0 DEF Byte
  <2> QED
    BY <2>1, <2>2 DEF TypeOK
<1> QED
  BY <1>1, <1>2

\* Every step preserves ReaderInv.
LEMMA ReaderStep == ReaderInv /\ [Next]_vars => ReaderInv'
<1> SUFFICES ASSUME ReaderInv, [Next]_vars PROVE ReaderInv'
  OBVIOUS
<1> USE ReaderAssumption DEF ReaderInv, TypeOK, NoStream, needReacquire
<1>1. CASE Restart
  BY <1>1 DEF Restart
<1>2. CASE RestartFails
  BY <1>2 DEF RestartFails
<1>3. ASSUME NEW n \in 0..Chunk, ReadBytes(n) PROVE ReaderInv'
  <2>1. /\ skipped' \in 0..StartOffset /\ got' \subseteq Byte
        /\ \A b \in got' : b \in got \/ b \in src..(src + n - 1)
    BY <1>3, ConsumeEffect DEF ReadBytes
  <2>2. /\ pc' = "reading" /\ src = offsetReached /\ src \in Nat
        /\ n \in Nat /\ Length \in Nat /\ RetryLimit \in Nat
        /\ src' = src + n /\ offsetReached' = src + n /\ src + n <= Length
        /\ retry' = 0
    BY <1>3 DEF ReadBytes, Fits
  <2>3. src' \in 0..Length /\ offsetReached' \in 0..Length /\ retry' \in 0..RetryLimit
    BY <2>2
  <2>4. \A b \in got : b \in Int /\ b < src
    BY <1>3, <2>2 DEF ReadBytes, Byte
  <2>5. \A b \in got' : b < offsetReached'
    BY <2>1, <2>2, <2>4
  <2> QED
    BY <2>1, <2>2, <2>3, <2>5
<1>4. ASSUME NEW n \in 0..Chunk, ReadEOF(n) PROVE ReaderInv'
  <2>1. skipped' \in 0..StartOffset /\ got' \subseteq Byte
    BY <1>4, ConsumeEffect DEF ReadEOF
  <2> QED
    BY <1>4, <2>1 DEF ReadEOF
<1>5. ASSUME NEW n \in 0..Chunk, ReadError(n) PROVE ReaderInv'
  <2>1. /\ pc' = "reading" /\ offsetReached \in Nat /\ n \in Nat
        /\ Length \in Nat /\ src' = -1 /\ offsetReached' = offsetReached + n
        /\ offsetReached + n <= Length /\ skipped' = skipped /\ got' = got
        /\ \A b \in got : b < offsetReached
    BY <1>5 DEF ReadError, Fits
  <2>2. offsetReached' \in 0..Length /\ retry' \in 0..RetryLimit
    BY <1>5, <2>1 DEF ReadError
  <2>3. \A b \in got : b \in Int /\ b < offsetReached'
    BY <2>1 DEF Byte
  <2> QED
    BY <2>1, <2>2, <2>3
<1>6. CASE GiveUp \/ ClientGone
  BY <1>6 DEF GiveUp, ClientGone
<1>7. CASE UNCHANGED vars
  BY <1>7 DEF vars
<1> QED
  BY <1>1, <1>2, <1>3, <1>4, <1>5, <1>6, <1>7 DEF Next, Step

\* NewYRetryReader starts in a state that satisfies the inductive invariant.
LEMMA ReaderInit == Init => ReaderInv
BY ReaderAssumption DEF Init, ReaderInv, TypeOK, NoStream

\* The positions, the retry counter and the bytes delivered stay within the
\* object and the limits.
THEOREM TypeCorrect == Spec => []TypeOK
<1>1. ReaderInv => TypeOK
  BY DEF ReaderInv
<1> QED
  BY <1>1, ReaderInit, ReaderStep, PTL DEF Spec

\* The client gets every byte once and in order, even when failing reads
\* return bytes: the offset at which a stream is reopened never goes back.
THEOREM BytesInOrder == Spec => InOrder
<1>1. ReaderInv /\ [Next]_vars
        => [\A b \in got' \ got : \A c \in got : c < b]_vars
  <2> SUFFICES ASSUME ReaderInv, Next, NEW b \in got' \ got, NEW c \in got
               PROVE  c < b
    BY DEF vars
  <2> USE ReaderAssumption DEF ReaderInv, TypeOK, NoStream, needReacquire, Byte
  <2>1. ASSUME NEW n \in 0..Chunk, ReadBytes(n) \/ ReadEOF(n) PROVE c < b
    <3>1. /\ pc = "reading" /\ src = offsetReached
          /\ src # NoStream /\ Fits(n) /\ Consume(n)
      BY <2>1 DEF ReadBytes, ReadEOF
    <3>2. b \in src..(src + n - 1)
      BY Zenon, <3>1, ConsumeEffect
    <3> QED
      BY <3>1, <3>2
  <2> QED
    BY <2>1 DEF Next, Step, Restart, RestartFails, ReadError, GiveUp,
       ClientGone
<1> QED
  BY <1>1, ReaderInit, ReaderStep, PTL DEF Spec, InOrder

-----------------------------------------------------------------------------
(* Completeness, when failing reads return no bytes.                       *)

\* What the caller has consumed is exactly what lies before offsetReached.
GapInv ==
  /\ ReaderInv
  /\ NoGaps
  /\ pc = "reading" /\ Skipping => offsetReached = skipped /\ got = {}
  /\ pc = "reading" /\ ~ Skipping =>
       StartOffset <= offsetReached /\ got = StartOffset..(offsetReached - 1)

\* Every step preserves GapInv.
LEMMA GapStep == ~ HalfReads /\ GapInv /\ [Next]_vars => GapInv'
<1> SUFFICES ASSUME ~ HalfReads, GapInv, [Next]_vars PROVE GapInv'
  OBVIOUS
<1>0. ReaderInv'
  BY ReaderStep DEF GapInv
<1> USE ReaderAssumption DEF GapInv, NoGaps, Skipping
<1>1. CASE Restart \/ RestartFails \/ GiveUp \/ ClientGone \/ UNCHANGED vars
  BY <1>0, <1>1 DEF Restart, RestartFails, GiveUp, ClientGone, vars
<1>2. ASSUME NEW n \in 0..Chunk, ReadError(n) PROVE GapInv'
  BY <1>0, <1>2 DEF ReadError, ReaderInv, TypeOK
<1>3. ASSUME NEW n \in 0..Chunk, ReadBytes(n) \/ ReadEOF(n) PROVE GapInv'
  <2>1. /\ pc = "reading" /\ src = offsetReached /\ src \in Nat
        /\ n \in Nat /\ Length \in Nat /\ StartOffset \in Nat
        /\ skipped \in Nat /\ skipped <= StartOffset /\ Fits(n) /\ Consume(n)
    BY <1>3 DEF ReadBytes, ReadEOF, needReacquire, ReaderInv, TypeOK, NoStream
  <2>2. \/ pc' = "reading" /\ offsetReached' = src + n
        \/ /\ src + n = Length
           /\ pc' = IF Skipping /\ skipped + n < StartOffset
                    THEN "failed" ELSE "eof"
    BY <1>3, <2>1 DEF ReadBytes, ReadEOF
  <2>3. CASE Skipping
    <3>1. /\ src = skipped /\ got = {} /\ skipped' = skipped + n /\ got' = {}
          /\ skipped + n <= StartOffset
      BY <2>1, <2>3 DEF Fits, Consume
    <3>2. skipped + n = StartOffset => StartOffset..(src + n - 1) = {}
      BY <2>1, <3>1
    <3> QED
      BY <1>0, <2>1, <2>2, <2>3, <3>1, <3>2
  <2>4. CASE ~ Skipping
    <3>1. /\ StartOffset <= src /\ got = StartOffset..(src - 1)
          /\ got' = got \cup src..(src + n - 1) /\ skipped' = skipped
      BY <2>1, <2>4 DEF Consume
    <3>2. got' = StartOffset..(src + n - 1)
      BY <2>1, <3>1
    <3>3. \A b \in got' : \A c \in StartOffset..b : c \in got'
      BY <2>1, <3>2
    <3> QED
      BY <1>0, <2>1, <2>2, <2>4, <3>1, <3>2, <3>3
  <2> QED
    BY <2>3, <2>4
<1> QED
  BY <1>1, <1>2, <1>3 DEF Next, Step

\* When a failing read returns no bytes, the client receives the object from
\* start_offset on without a gap, and all of it when cat succeeds, whatever
\* the sequence of lost connections, failed restarts and short reads.
THEOREM CatIsComplete == ~ HalfReads => (Spec => []NoGaps)
<1> SUFFICES ASSUME ~ HalfReads PROVE Spec => []NoGaps
  OBVIOUS
<1>1. Init => GapInv
  BY ReaderInit, ReaderAssumption DEF Init, GapInv, NoGaps, Skipping
<1>2. GapInv /\ [Next]_vars => GapInv'
  BY GapStep
<1>3. GapInv => NoGaps
  BY DEF GapInv
<1> QED
  BY <1>1, <1>2, <1>3, PTL DEF Spec

-----------------------------------------------------------------------------
(* The refinement, under the same assumption.                              *)

\* One step of the retrying reader is a step of the reliable one, or none.
LEMMA RefinementStep ==
  ASSUME ~ HalfReads, GapInv, GapInv', [Next]_vars
  PROVE  [Reliable!Deliver \/ Reliable!Fail]_(Reliable!rvars)
<1> USE ReaderAssumption
<1>1. CASE Restart \/ RestartFails \/ UNCHANGED vars
  BY <1>1 DEF Restart, RestartFails, vars, Reliable!rvars
<1>2. ASSUME NEW n \in 0..Chunk, ReadError(n) PROVE UNCHANGED Reliable!rvars
  BY <1>2 DEF ReadError, Reliable!rvars
<1>3. CASE GiveUp \/ ClientGone
  BY <1>3 DEF GiveUp, ClientGone, Reliable!Fail
<1>4. ASSUME NEW n \in 0..Chunk, ReadBytes(n) \/ ReadEOF(n)
      PROVE  Reliable!Deliver \/ Reliable!Fail \/ UNCHANGED Reliable!rvars
  <2>1. /\ pc = "reading" /\ src = offsetReached /\ src \in Nat
        /\ n \in Nat /\ Length \in Nat /\ StartOffset \in Nat /\ src + n <= Length
        /\ skipped \in Nat /\ skipped <= StartOffset /\ Fits(n) /\ Consume(n)
    BY <1>4 DEF ReadBytes, ReadEOF, Fits, needReacquire, GapInv, ReaderInv,
       TypeOK, NoStream
  <2>2. CASE ReadBytes(n) /\ Skipping
    BY <2>2 DEF ReadBytes, Consume, Reliable!rvars
  <2>3. CASE ReadEOF(n) /\ pc' = "failed"
    <3>1. Skipping /\ got' = got
      BY <2>3 DEF ReadEOF, Consume
    <3> QED
      BY <2>1, <2>3, <3>1 DEF Reliable!Fail
  <2>4. CASE ReadBytes(n) /\ ~ Skipping
    <3>1. /\ StartOffset <= src /\ got = StartOffset..(src - 1)
          /\ got' = got \cup src..(src + n - 1) /\ pc' = pc
      BY <2>1, <2>4 DEF Consume, GapInv, ReadBytes
    <3>2. got' = StartOffset..((src + n) - 1) /\ got \subseteq got'
      BY <2>1, <3>1
    <3>3. src + n \in StartOffset..Length
      BY <2>1, <3>1
    <3> QED
      BY Zenon, <2>1, <3>1, <3>2, <3>3 DEF Reliable!Deliver
  <2>5. CASE ReadEOF(n) /\ pc' # "failed"
    <3>1. pc' = "eof" /\ src + n = Length
      BY <2>5 DEF ReadEOF
    <3>2. got' = StartOffset..(Length - 1)
      BY <3>1 DEF GapInv, NoGaps
    <3>3. got \subseteq got'
      BY <2>1 DEF Consume
    <3>4. StartOffset <= Length
      <4>1. CASE Skipping
        BY <2>1, <2>5, <3>1, <4>1 DEF ReadEOF, GapInv
      <4>2. CASE ~ Skipping
        BY <2>1, <4>2 DEF GapInv
      <4> QED
        BY <4>1, <4>2
    <3>5. Length \in StartOffset..Length
      BY <2>1, <3>4
    <3> QED
      BY <2>1, <3>1, <3>2, <3>3, <3>5 DEF Reliable!Deliver
  <2> QED
    BY Zenon, <1>4, <2>2, <2>3, <2>4, <2>5
<1> QED
  BY <1>1, <1>2, <1>3, <1>4 DEF Next, Step

\* When a failing read returns no bytes, the retrying reader implements the
\* reliable one: for objects of every length the client cannot tell lost and
\* reopened connections from a single one.
THEOREM CatIsReliable == ~ HalfReads => (Spec => ImplementsReliableRead)
<1> SUFFICES ASSUME ~ HalfReads PROVE Spec => ImplementsReliableRead
  OBVIOUS
<1>1. Init => Reliable!Init /\ GapInv
  BY ReaderInit, ReaderAssumption DEF Init, GapInv, NoGaps, Skipping, Reliable!Init
<1>2. GapInv /\ [Next]_vars => GapInv'
  BY GapStep
<1>3. GapInv /\ GapInv' /\ [Next]_vars
        => [Reliable!Deliver \/ Reliable!Fail]_(Reliable!rvars)
  BY RefinementStep
<1> QED
  BY <1>1, <1>2, <1>3, PTL DEF Spec, ImplementsReliableRead, Reliable!Spec

-----------------------------------------------------------------------------
(* Put, when a Write passes a whole message.                               *)

\* The stream has ended, and everything was read, unless it was cut.
AllTaken == cl # "sending" /\ (cl = "gone" \/ taken = sent)

\* Until PutFileToDest returns, the pipe holds exactly what the receiver has
\* read and PutFileToDest has not, and the receiver closes its end only
\* behind the last message and the end of the envelope.
PipeInv ==
  /\ pipe = "data" => rpc = "writing" /\ body = taken - 1
  /\ pipe # "data" => body = taken
  /\ pipe = "head" => rpc = "opening"
  /\ pipe = "seal" => rpc = "sealing"
  /\ rpc \in {"closing", "sealing"} => AllTaken
  /\ rpc = "sealing" => Encrypt
  /\ rpc = "sealing" /\ pipe = "none" => tail = "sealed"
  /\ wend = "closed" =>
       /\ rpc = "exited" /\ AllTaken /\ pipe = "none"
       /\ Encrypt => tail = "sealed"

\* The read end is open until the handler has its outcome; an object in S3, and
\* a file that PutFileToDest has written to the end, holds everything the
\* client has sent before its stream ended.
PutInv ==
  /\ PutTypeOK
  /\ rend = "closed" <=> upc \in {"ready", "failed"}
  /\ upc = "put" => PipeInv /\ (~ inPlace => object = NoObj)
  /\ object <= body
  /\ upc \in {"wait", "ready"} =>
       object # NoObj /\ cl # "sending" /\ (cl = "gone" \/ object = sent)
  /\ object # NoObj /\ (inPlace => upc \in {"wait", "ready"}) => (Encrypt => tail = "sealed")

\* A put starts in a state that satisfies the invariant.
LEMMA PutInitInv == PutInit => PutInv
BY PutAssumption DEF PutInit, PutInv, PutTypeOK, PipeInv, AllTaken, NoObj, End

\* Every step of the client, the receiver and the handler preserves it.
LEMMA PutStepInv == Whole /\ PutInv /\ [PutNext]_pvars => PutInv'
<1> SUFFICES ASSUME Whole, PutInv, [PutNext]_pvars PROVE PutInv'
  BY Zenon
<1> USE PutAssumption DEF PutInv, PutTypeOK, PipeInv, AllTaken, NoObj, End, Encrypt,
        clVars, recVars, putVars
<1>1. CASE SendCopyData
  BY <1>1 DEF SendCopyData
<1>2. CASE EndStream
  BY SMTT(60), <1>2 DEF EndStream
<1>3. CASE StartReceiver
  BY <1>3 DEF StartReceiver
<1>4. CASE EnvelopeOpened
  BY ZenonT(60), <1>4 DEF EnvelopeOpened
<1>5. CASE ReadPacket
  BY <1>5 DEF ReadPacket
<1>6. CASE WriteReturns
  BY <1>6 DEF WriteReturns
<1>7. CASE CloseWriter
  BY ZenonT(60), <1>7 DEF CloseWriter
<1>8. CASE EnvelopeSealed
  BY ZenonT(60), <1>8 DEF EnvelopeSealed
<1>9. CASE PutReads
  BY SMTT(60), <1>9 DEF PutReads
<1>10. CASE PutSucceeds
  BY SMTT(60), <1>10 DEF PutSucceeds, EndOfPipe
<1>11. CASE PutFails
  BY SMTT(60), <1>11 DEF PutFails, EndOfPipe
<1>12. CASE ReplyReady
  BY SMTT(60), <1>12 DEF ReplyReady
<1>13. CASE CreateFile
  BY SMTT(60), <1>13 DEF CreateFile
<1>14. CASE WriteFile
  BY SMTT(60), <1>14 DEF WriteFile
<1>15. CASE UNCHANGED pvars
  BY SMTT(60), <1>15 DEF pvars
<1> QED
  BY Zenon, <1>1, <1>2, <1>3, <1>4, <1>5, <1>6, <1>7, <1>8, <1>9, <1>10, <1>11,
     <1>12, <1>13, <1>14, <1>15 DEF PutNext, PutClient, Receiver, Put, PutWork

\* One step of the pipeline is a step of the atomic put, or none.
LEMMA PutRefinementStep ==
  ASSUME Whole, PutInv, PutInv', [PutNext]_pvars
  PROVE  [\/ Atomic!Send \/ Atomic!EndOfStream \/ Atomic!Store
          \/ Atomic!Write \/ Atomic!Answer]_(Atomic!avars)
<1> USE DEF PutInv, NoObj, Encrypt, clVars, recVars, putVars, Atomic!avars
<1>1. CASE SendCopyData
  BY Zenon, <1>1 DEF SendCopyData, Atomic!Send
<1>2. CASE EndStream
  BY SMTT(60), <1>2 DEF EndStream, Atomic!EndOfStream
<1>3. CASE Receiver \/ UNCHANGED pvars
  BY SMTT(60), <1>3 DEF Receiver, StartReceiver, EnvelopeOpened, ReadPacket,
     WriteReturns, CloseWriter, EnvelopeSealed, pvars
<1>4. CASE PutReads
  BY SMTT(60), <1>4 DEF PutReads
<1>5. CASE PutSucceeds
  BY SMTT(60), <1>5 DEF PutSucceeds, EndOfPipe, PipeInv, AllTaken, PutTypeOK, Atomic!Store,
     Atomic!Everything
<1>6. CASE PutFails
  BY SMTT(60), <1>6 DEF PutFails, EndOfPipe, PipeInv, AllTaken, PutTypeOK, Atomic!Store,
     Atomic!Everything, Atomic!Answer
<1>7. CASE ReplyReady
  BY SMTT(60), <1>7 DEF ReplyReady, PutTypeOK, Atomic!Answer, Atomic!Everything
<1>8. CASE CreateFile
  BY SMTT(60), <1>8 DEF CreateFile, PutTypeOK, Atomic!Write
<1>9. CASE WriteFile
  BY SMTT(60), <1>9 DEF WriteFile, PutTypeOK, Atomic!Write
<1> QED
  BY Zenon, <1>1, <1>2, <1>3, <1>4, <1>5, <1>6, <1>7, <1>8, <1>9
  DEF PutNext, PutClient, Put, PutWork

\* When a Write passes a whole message, the receiver goroutine, the pipe, the
\* envelope and PutFileToDest together implement a put to S3 in one step: no
\* object appears before the client's stream has ended, and one whose stream
\* was not cut by a lost connection lacks neither a message nor the end of its
\* envelope.  A file is a beginning of what was sent at any time.  In both,
\* ReadyForQuery is sent only once everything is there.
THEOREM PutIsAtomic == Whole => (PutSpec => ImplementsAtomicPut)
<1> SUFFICES ASSUME Whole PROVE PutSpec => ImplementsAtomicPut
  OBVIOUS
<1>1. PutInit => Atomic!Init
  BY DEF PutInit, Atomic!Init, NoObj
<1>2. PutInv /\ [PutNext]_pvars => PutInv'
  BY PutStepInv
<1>3. PutInv /\ PutInv' /\ [PutNext]_pvars
        => [\/ Atomic!Send \/ Atomic!EndOfStream \/ Atomic!Store
            \/ Atomic!Write \/ Atomic!Answer]_(Atomic!avars)
  BY Zenon, PutRefinementStep
<1> QED
  BY PutInitInv, <1>1, <1>2, <1>3, PTL DEF PutSpec, ImplementsAtomicPut, Atomic!Spec

-----------------------------------------------------------------------------
(* Copy, with any number of goroutines, passes and requests.               *)

\* A goroutine will store the file, or report it, or have its error masked.
Pending(f) ==
  \E s \in Slot : task[s].at \in {"server", "stream", "checkError"} /\ task[s].file = f

Accounted(f) == dst[f] = "whole" \/ f \in masked \/ f \in stale

\* During a pass no file is forgotten: it is whole or accounted for, or waits in
\* this pass or for the next, or has a goroutine.
CopyInv ==
  /\ CopyTypeOK
  /\ cpc # "pass" => \A s \in Slot : task[s].at = "free"
  /\ cpc = "pass" =>
       \A f \in Live : Accounted(f) \/ todo[f] > 0 \/ failed[f] > 0 \/ Pending(f)
  /\ CopyAccounted

\* A goroutine that is not free has a file.
LEMMA TaskFile ==
  ASSUME CopyTypeOK, NEW s \in Slot
  PROVE  /\ task[s].at = "free" => task[s] = Free
         /\ task[s].at # "free" =>
              /\ task[s].file \in File
              /\ task[s].at \in {"server", "stream", "checkNil", "checkError"}
              /\ task[s] = [at |-> task[s].at, file |-> task[s].file]
BY SMTT(60) DEF CopyTypeOK, Task, Free

\* The semaphore, the lists and the counters keep their types.
LEMMA CopyTypeStep == CopyTypeOK /\ [CopyNext]_cvars => CopyTypeOK'
<1> SUFFICES ASSUME CopyTypeOK, [CopyNext]_cvars PROVE CopyTypeOK'
  BY Zenon
<1> USE CopyAssumption DEF CopyTypeOK, None, Task, Free, Fail, Leftover, reqVars
<1>1. CASE ProcessCopy
  BY SMTT(60), <1>1 DEF ProcessCopy
<1>2. ASSUME NEW s \in Slot, NEW f \in File, StartTask(s, f) PROVE CopyTypeOK'
  BY SMTT(60), <1>2 DEF StartTask
<1>3. ASSUME NEW s \in Slot, ServerSideCopy(s) PROVE CopyTypeOK'
  BY SMTT(60), <1>3, TaskFile DEF ServerSideCopy
<1>4. ASSUME NEW s \in Slot, DecryptFails(s) PROVE CopyTypeOK'
  BY SMTT(60), <1>4, TaskFile DEF DecryptFails
<1>5. ASSUME NEW s \in Slot, Stream(s) PROVE CopyTypeOK'
  BY SMTT(60), <1>5, TaskFile DEF Stream
<1>6. ASSUME NEW s \in Slot, CheckErr(s) PROVE CopyTypeOK'
  BY SMTT(60), <1>6, TaskFile DEF CheckErr
<1>7. CASE EndPass \/ Reply \/ Crash
  BY SMTT(60), <1>7 DEF EndPass, Reply, Crash
<1>8. ASSUME NEW f \in File, LateFailure(f) PROVE CopyTypeOK'
  BY SMTT(60), <1>8 DEF LateFailure
<1>9. CASE UNCHANGED cvars
  BY SMTT(60), <1>9 DEF cvars
<1> QED
  BY Zenon, <1>1, <1>2, <1>3, <1>4, <1>5, <1>6, <1>7, <1>8, <1>9 DEF CopyNext, CopyWork

\* What a request still has to do for a file.
Open(f) == todo[f] > 0 \/ failed[f] > 0 \/ Pending(f)

\* A step of one goroutine leaves the others pending.
LEMMA OthersPending ==
  ASSUME CopyTypeOK, NEW s \in Slot, NEW f, task[s].file # f \/ task[s].at \in {"free", "checkNil"},
         NEW t, task' = [task EXCEPT ![s] = t], Pending(f)
  PROVE  Pending(f)'
BY SMTT(60) DEF Pending, CopyTypeOK

\* Nor does it touch their files or what is known about them.
LEMMA GoroutineStep ==
  ASSUME CopyTypeOK, CopyTypeOK', Live \subseteq File, \A g \in Live : Accounted(g) \/ Open(g),
         NEW s \in Slot, NEW f, f = task[s].file, NEW t, task' = [task EXCEPT ![s] = t],
         UNCHANGED <<reqVars, todo>>, masked \subseteq masked',
         \A g \in File : failed'[g] >= failed[g],
         \A g \in File : g # f => dst'[g] = dst[g],
         f \in Live => Accounted(f)' \/ Open(f)'
  PROVE  \A g \in Live : Accounted(g)' \/ Open(g)'
<1> SUFFICES ASSUME NEW g \in Live, g # f PROVE Accounted(g)' \/ Open(g)'
  BY Zenon
<1>1. Accounted(g) => Accounted(g)'
  BY Zenon DEF Accounted, reqVars
<1>2. Pending(g) => Pending(g)'
  BY Zenon, OthersPending
<1>3. failed[g] > 0 => failed'[g] > 0
  <2>1. failed[g] \in Nat /\ failed'[g] \in Nat /\ failed'[g] >= failed[g]
    BY SMTT(60) DEF CopyTypeOK
  <2> QED
    BY <2>1
<1> QED
  BY Zenon, <1>1, <1>2, <1>3 DEF Open

\* No step forgets a file: a goroutine that ends without storing it has
\* reported it, or another has written err in between.
LEMMA CopyStepInv == CopyInv /\ [CopyNext]_cvars => CopyInv'
<1> SUFFICES ASSUME CopyInv, [CopyNext]_cvars PROVE CopyInv'
  BY Zenon
<1>0. CopyTypeOK /\ CopyTypeOK' /\ Live \subseteq File
  BY Zenon, CopyTypeStep, CopyAssumption DEF CopyInv
<1>1. /\ cpc = "pass" => \A f \in Live : Accounted(f) \/ Open(f)
      /\ cpc # "pass" => \A s \in Slot : task[s].at = "free"
  BY Zenon DEF CopyInv, Open
<1> DEFINE Quiet == cpc' # "pass" => \A s \in Slot : task'[s].at = "free"
           Kept == cpc' = "pass" => \A f \in Live : Accounted(f)' \/ Open(f)'
<1> SUFFICES Quiet /\ Kept /\ CopyAccounted'
  BY Zenon, <1>0 DEF CopyInv, Open
<1>2. CASE ProcessCopy
  <2>1. cpc' # "ok" /\ task' = task /\ cpc = "idle"
    BY SMTT(60), <1>2 DEF ProcessCopy
  <2>2. ASSUME cpc' = "pass", NEW f \in Live PROVE Accounted(f)' \/ Open(f)'
    <3>1. CASE f \in ToCopy
      BY SMTT(60), <1>0, <1>2, <2>2, <3>1 DEF ProcessCopy, Open
    <3>2. CASE f \notin ToCopy
      BY SMTT(60), <1>0, <1>2, <2>2, <3>2 DEF ProcessCopy, ToCopy, Accounted, CopyTypeOK
    <3> QED
      BY Zenon, <3>1, <3>2
  <2> QED
    BY Zenon, <1>1, <2>1, <2>2 DEF CopyAccounted
<1>3. ASSUME NEW s \in Slot, NEW f \in File, StartTask(s, f) PROVE Quiet /\ Kept /\ CopyAccounted'
  <2>1. cpc = "pass" /\ cpc' = "pass"
    BY SMTT(60), <1>3 DEF StartTask, reqVars
  <2>2. ASSUME NEW g \in Live PROVE Accounted(g)' \/ Open(g)'
    <3>1. CASE g = f
      <4>1. task'[s].file = f /\ task'[s].at \in {"server", "stream"}
        BY SMTT(60), <1>0, <1>3 DEF StartTask, CopyTypeOK
      <4>2. task'[s].at \in {"server", "stream", "checkError"}
        BY <4>1
      <4> QED
        BY Zenon, <3>1, <4>1, <4>2 DEF Open, Pending
    <3>2. CASE g # f
      <4>1. todo'[g] = todo[g] /\ failed' = failed /\ (Accounted(g) => Accounted(g)')
        BY SMTT(60), <1>0, <1>3, <3>2 DEF StartTask, reqVars, Accounted, CopyTypeOK
      <4>2. Pending(g) => Pending(g)'
        <5>1. task[s].at \in {"free", "checkNil"}
          BY SMTT(60), <1>3 DEF StartTask, Free
        <5> QED
          BY Zenon, <1>0, <1>3, <5>1, OthersPending DEF StartTask
      <4> QED
        BY Zenon, <1>1, <2>1, <4>1, <4>2 DEF Open
    <3> QED
      BY Zenon, <3>1, <3>2
  <2> QED
    BY Zenon, <2>1, <2>2 DEF CopyAccounted
<1>4. ASSUME NEW s \in Slot, ServerSideCopy(s) \/ DecryptFails(s) \/ Stream(s) \/ CheckErr(s)
      PROVE  Quiet /\ Kept /\ CopyAccounted'
  <2>0. PICK f : f = task[s].file
    BY Zenon
  <2>1. task[s].at # "free"
    BY SMTT(60), <1>4, <2>0 DEF ServerSideCopy, DecryptFails, Stream, CheckErr
  <2>2. cpc = "pass" /\ cpc' = "pass"
    <3>1. cpc' = cpc
      BY SMTT(60), <1>4, <2>0 DEF ServerSideCopy, DecryptFails, Stream, CheckErr, reqVars
    <3> QED
      BY Zenon, <1>1, <2>1, <3>1
  <2>3. f \in File /\ task \in [Slot -> Task] /\ failed \in [File -> Nat] /\ dst \in [File -> {"none", "part", "whole"}]
    BY Zenon, <1>0, <2>0, <2>1, TaskFile DEF CopyTypeOK
  <2>4. UNCHANGED <<reqVars, todo>> /\ masked \subseteq masked'
    BY SMTT(60), <1>4, <2>0 DEF ServerSideCopy, DecryptFails, Stream, CheckErr
  <2>5. \A g \in File : failed'[g] >= failed[g]
    BY SMTT(60), <1>4, <2>0, <2>3 DEF ServerSideCopy, DecryptFails, Stream, CheckErr, Fail
  <2>6. \A g \in File : g # f => dst'[g] = dst[g]
    BY SMTT(60), <1>4, <2>0, <2>3 DEF ServerSideCopy, DecryptFails, Stream, CheckErr, Leftover
  <2>7. \E t : task' = [task EXCEPT ![s] = t]
    <3>1. ASSUME NEW a, task' = [task EXCEPT ![s].at = a] PROVE \E t : task' = [task EXCEPT ![s] = t]
      BY Zenon, <3>1
    <3> QED
      BY Zenon, <1>4, <3>1 DEF ServerSideCopy, DecryptFails, Stream, CheckErr
  <2>8. ASSUME f \in Live PROVE Accounted(f)' \/ Open(f)'
    <3>1. CASE ServerSideCopy(s)
      <4>1. CASE dst' = [dst EXCEPT ![f] = "whole"]
        BY Zenon, <2>3, <4>1 DEF Accounted
      <4>2. CASE task' = [task EXCEPT ![s].at = "stream"]
        <5>1. task'[s].file = f /\ task'[s].at \in {"server", "stream", "checkError"}
          BY SMTT(60), <1>0, <2>0, <2>1, <2>3, <4>2, TaskFile
        <5> QED
          BY Zenon, <5>1 DEF Open, Pending
      <4> QED
        BY Zenon, <2>0, <3>1, <4>1, <4>2 DEF ServerSideCopy
    <3>2. CASE failed' = [failed EXCEPT ![f] = @ + 1]
      <4>1. failed'[f] > 0
        BY SMTT(60), <2>3, <3>2
      <4> QED
        BY Zenon, <4>1 DEF Open
    <3>3. CASE Stream(s) /\ dst' = [dst EXCEPT ![f] = "whole"]
      BY Zenon, <2>3, <3>3 DEF Accounted
    <3>4. CASE Stream(s) /\ err' = "error"
      <4>1. task'[s].file = f /\ task'[s].at \in {"server", "stream", "checkError"}
        BY SMTT(60), <1>0, <2>0, <2>1, <2>3, <3>4, TaskFile DEF Stream
      <4> QED
        BY Zenon, <4>1 DEF Open, Pending
    <3>5. CASE CheckErr(s) /\ err # "error"
      <4>1. err = "nil" /\ dst' = dst /\ failed' = failed
        BY Zenon, <1>0, <3>5 DEF CheckErr, CopyTypeOK
      <4>2. CASE task[s].at = "checkError"
        BY Zenon, <2>0, <3>5, <4>1, <4>2 DEF CheckErr, Accounted
      <4>3. CASE task[s].at # "checkError"
        <5>1. task[s].at \in {"free", "checkNil"}
          BY SMTT(60), <3>5, <4>3 DEF CheckErr
        <5>2. Pending(f) => Pending(f)'
          BY Zenon, <1>0, <2>7, <5>1, OthersPending
        <5> QED
          BY Zenon, <1>1, <2>2, <2>4, <2>8, <4>1, <5>2 DEF Open, Accounted, reqVars
      <4> QED
        BY Zenon, <4>2, <4>3
    <3> QED
      BY Zenon, <1>4, <2>0, <3>1, <3>2, <3>3, <3>4, <3>5 DEF DecryptFails, Stream, CheckErr, Fail
  <2>9. \A g \in Live : Accounted(g)' \/ Open(g)'
    BY Zenon, <1>0, <1>1, <2>0, <2>2, <2>4, <2>5, <2>6, <2>7, <2>8, GoroutineStep
  <2> QED
    BY Zenon, <2>2, <2>9 DEF CopyAccounted
<1>5. CASE EndPass
  <2>1. task' = task /\ \A s \in Slot : task[s].at = "free"
    BY SMTT(60), <1>5 DEF EndPass, Free
  <2>2. \A f \in Live : Accounted(f)' \/ failed[f] > 0
    <3>1. \A f \in Live : ~ Pending(f) /\ ~ (todo[f] > 0)
      BY SMTT(60), <1>0, <1>5, <2>1 DEF EndPass, None, Pending
    <3>2. cpc = "pass" /\ dst' = dst /\ masked' = masked /\ stale' = stale
      BY Zenon, <1>5 DEF EndPass
    <3> QED
      BY Zenon, <1>1, <3>1, <3>2 DEF Open, Accounted
  <2>3. cpc' = "pass" => todo' = failed
    BY SMTT(60), <1>5 DEF EndPass
  <2>4. cpc' = "ok" => \A f \in File : failed[f] = 0
    BY SMTT(60), <1>5 DEF EndPass, None
  <2>5. cpc' = "ok" => \A f \in Live : Accounted(f)'
    BY <1>0, <2>2, <2>4
  <2> QED
    BY Zenon, <2>1, <2>2, <2>3, <2>5 DEF Open, Accounted, CopyAccounted
<1>6. CASE Reply \/ Crash
  <2>1. cpc' = "idle" /\ ((task' = task /\ cpc # "pass") \/ task' = [s \in Slot |-> Free])
    BY SMTT(60), <1>6 DEF Reply, Crash
  <2> QED
    BY SMTT(60), <1>1, <2>1 DEF CopyAccounted, Free
<1>7. ASSUME NEW f \in File, LateFailure(f) PROVE Quiet /\ Kept /\ CopyAccounted'
  <2>1. cpc = "pass" /\ cpc' = "pass" /\ UNCHANGED <<dst, todo, task, masked, stale>>
    BY Zenon, <1>7 DEF LateFailure, reqVars
  <2>2. \A g \in File : failed[g] > 0 => failed'[g] > 0
    BY SMTT(60), <1>0, <1>7 DEF LateFailure, Fail, CopyTypeOK
  <2> QED
    BY Zenon, <1>0, <1>1, <2>1, <2>2 DEF Open, Accounted, Pending, CopyAccounted
<1>8. CASE UNCHANGED cvars
  BY Zenon, <1>1, <1>8 DEF cvars, Open, Accounted, Pending, CopyAccounted, CopyInv
<1> QED
  BY Zenon, <1>2, <1>3, <1>4, <1>5, <1>6, <1>7, <1>8 DEF CopyNext, CopyWork

\* For any number of files, goroutines, passes and requests, and whatever fails
\* or crashes on the way: a copy that reports success has stored every live
\* file in full, but for those whose error was overwritten in the shared err,
\* and those of which a part lay in the new storage before.
THEOREM CopyIsAccounted == CopySpec => []CopyAccounted
<1>1. CopyInit => CopyInv
  <2> SUFFICES ASSUME CopyInit PROVE CopyInv
    BY Zenon
  <2>1. CopyTypeOK
    BY SMTT(60), CopyAssumption DEF CopyInit, CopyTypeOK, None, Task, Free
  <2>2. cpc = "idle" /\ \A s \in Slot : task[s].at = "free"
    BY SMTT(60) DEF CopyInit, Free
  <2> QED
    BY Zenon, <2>1, <2>2 DEF CopyInv, CopyAccounted
<1>2. CopyInv /\ [CopyNext]_cvars => CopyInv'
  BY CopyStepInv
<1>3. CopyInv => CopyAccounted
  BY DEF CopyInv
<1> QED
  BY <1>1, <1>2, <1>3, PTL DEF CopySpec

-----------------------------------------------------------------------------
(* The connection: what holds of its handlers holds of its requests.       *)

\* A connection makes steps of one handler and none of the others.
LEMMA ConnHandlers == ConnSpec => Spec /\ PutSpec /\ CopySpec
<1>1. ConnInit => Init /\ PutInit /\ CopyInit
  BY DEF ConnInit
<1>2. [Cat \/ PutStep \/ CopyStep]_allVars => [Next]_vars /\ [PutNext]_pvars /\ [CopyNext]_cvars
  BY DEF Cat, PutStep, CopyStep, allVars
<1> QED
  BY <1>1, <1>2, PTL DEF ConnSpec, Spec, PutSpec, CopySpec
=============================================================================
