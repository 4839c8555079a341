----------------------------- MODULE RetryReader -----------------------------
(***************************************************************************)
(* Reading one object for a client: YproxyRetryReader over YRestartReader  *)
(* (pkg/proc/yio/yrreader.go), and ProcessCatExtended, which first         *)
(* discards start_offset bytes and then copies the rest to the client.     *)
(* A byte is its position in the object.                                   *)
(***************************************************************************)
EXTENDS Integers

CONSTANTS
  Backend,      \* storage_type: "s3" or "fs"
  Length,       \* length of the object
  StartOffset,  \* msg.StartOffset
  Chunk,        \* size of the buffer passed to Read
  RetryLimit,   \* defaultRetryLimit (100 in the code)
  HalfReads     \* whether a failing Read may return bytes as well

ASSUME ReaderAssumption ==
  /\ Backend \in {"s3", "fs"}
  /\ Length \in Nat
  /\ StartOffset \in Nat
  /\ Chunk \in Nat \ {0}
  /\ RetryLimit \in Nat \ {0}
  /\ HalfReads \in BOOLEAN

VARIABLES
  pc,             \* "reading", or how the request ended
  src,            \* next byte of the open stream, NoStream when there is none
  offsetReached,
  retry,          \* retries made by the current call of Read
  skipped,        \* bytes ProcessCatExtended has discarded
  got             \* bytes the client has received

vars == <<pc, src, offsetReached, retry, skipped, got>>

NoStream == -1

\* needReacquire is set exactly when the stream has been closed.
needReacquire == src = NoStream

Byte == 0..(Length - 1)

TypeOK ==
  /\ pc \in {"reading", "eof", "failed", "gone"}
  /\ src \in {NoStream} \cup 0..Length
  /\ offsetReached \in 0..Length
  /\ retry \in 0..RetryLimit
  /\ skipped \in 0..StartOffset
  /\ got \subseteq Byte

Init ==
  /\ pc = "reading"
  /\ src = NoStream
  /\ offsetReached = 0
  /\ retry = 0
  /\ skipped = 0
  /\ got = {}

Skipping == skipped < StartOffset

\* What Read may return: io.CopyN limits the buffer while it discards.
Fits(n) ==
  /\ n \in 0..Chunk
  /\ src + n <= Length
  /\ Skipping => skipped + n <= StartOffset

\* The caller disposes of the n bytes that Read has returned.
Consume(n) ==
  IF Skipping
  THEN skipped' = skipped + n /\ UNCHANGED got
  ELSE got' = got \cup src..(src + n - 1) /\ UNCHANGED skipped

\* A range request for nothing is an error (InvalidRange) of S3.
RangeExists(off) == Backend = "s3" => off < Length

\* Restart opens a stream at offsetReached ...
Restart ==
  /\ pc = "reading" /\ needReacquire /\ retry < RetryLimit
  /\ RangeExists(offsetReached)
  /\ src' = offsetReached
  /\ UNCHANGED <<pc, offsetReached, retry, skipped, got>>

\* Faulty variant: the retry is not counted.
RestartFailsUncounted ==
  /\ pc = "reading" /\ needReacquire /\ retry < RetryLimit
  /\ UNCHANGED vars

\* ... or fails, which costs a retry.
RestartFails ==
  /\ pc = "reading" /\ needReacquire /\ retry < RetryLimit
  /\ retry' = retry + 1
  /\ UNCHANGED <<pc, src, offsetReached, skipped, got>>

\* Read returns bytes and no error; the next call starts its own retries.
ReadBytes(n) ==
  /\ pc = "reading" /\ ~ needReacquire /\ retry < RetryLimit
  /\ n > 0 /\ Fits(n)
  /\ Consume(n)
  /\ src' = src + n
  /\ offsetReached' = offsetReached + n
  /\ retry' = 0
  /\ UNCHANGED pc

\* Faulty variant: a stream that breaks off is taken for the end.
ReadEOFEarly(n) ==
  /\ pc = "reading" /\ ~ needReacquire /\ retry < RetryLimit
  /\ Fits(n)
  /\ Consume(n)
  /\ pc' = IF Skipping /\ skipped + n < StartOffset THEN "failed" ELSE "eof"
  /\ UNCHANGED <<src, offsetReached, retry>>

\* Read returns the last bytes, if any, with io.EOF.  Ending short of
\* start_offset is an error of io.CopyN.
ReadEOF(n) ==
  /\ pc = "reading" /\ ~ needReacquire /\ retry < RetryLimit
  /\ Fits(n) /\ src + n = Length
  /\ Consume(n)
  /\ pc' = IF Skipping /\ skipped + n < StartOffset THEN "failed" ELSE "eof"
  /\ UNCHANGED <<src, offsetReached, retry>>

\* Read returns an error, perhaps with bytes: they are counted, the stream is
\* closed and the same call tries again.
ReadError(n) ==
  /\ pc = "reading" /\ ~ needReacquire /\ retry < RetryLimit
  /\ Fits(n) /\ (n > 0 => HalfReads)
  /\ offsetReached' = offsetReached + n
  /\ src' = NoStream
  /\ retry' = retry + 1
  /\ UNCHANGED <<pc, skipped, got>>

\* The retries are used up: Read returns -1 and the error.
GiveUp ==
  /\ pc = "reading" /\ retry = RetryLimit
  /\ pc' = "failed"
  /\ UNCHANGED <<src, offsetReached, retry, skipped, got>>

\* Writing to the client fails.
ClientGone ==
  /\ pc = "reading" /\ ~ needReacquire /\ ~ Skipping
  /\ pc' = "gone"
  /\ UNCHANGED <<src, offsetReached, retry, skipped, got>>

Step ==
  \/ Restart
  \/ RestartFails
  \/ \E n \in 0..Chunk : ReadBytes(n) \/ ReadEOF(n) \/ ReadError(n)
  \/ GiveUp

Next == Step \/ ClientGone

Spec == Init /\ [][Next]_vars

-----------------------------------------------------------------------------

(* What the client has received so far is the object from start_offset on, *)
(* without a gap, and all of it when the copy ends without an error,       *)
(* however often the connection to the store was lost.                     *)
NoGaps ==
  /\ \A b \in got : \A c \in StartOffset..b : c \in got
  /\ pc = "eof" => got = StartOffset..(Length - 1)

(* The client gets every byte once and in order: a step adds only bytes    *)
(* that come after all those it has got.                                   *)
InOrder == [][\A b \in got' \ got : \A c \in got : c < b]_vars

(* Seen from the client, the retrying reader is a reliable one: with all   *)
(* its streams opened, broken and reopened it delivers the object piece by *)
(* piece, and reports the end only there.                                  *)
Reliable == INSTANCE ReliableRead WITH
  First <- StartOffset, Size <- Length, out <- got,
  state <- IF pc = "reading" THEN "open" ELSE IF pc = "eof" THEN "complete" ELSE "failed"
ImplementsReliableRead == Reliable!Spec

=============================================================================
