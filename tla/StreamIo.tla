------------------------------ MODULE StreamIo ------------------------------
(***************************************************************************)
(* AsyncRead and AsyncWrite of a NethernetStream,                          *)
(* src/src/transport/stream.rs, over the session between its two ends.     *)
(*                                                                         *)
(* The stream at "snd" is written, the one at "rcv" is read.  The futures  *)
(* of the session that a stream keeps are the tasks Writer and Reader of   *)
(* Session.  They advance only inside a call of a poll function, that is   *)
(* while op (rop) is not "none", and the call may return Pending at each   *)
(* of their awaits; the tasks of the session run beside it.                *)
(***************************************************************************)
EXTENDS Session

CONSTANTS Writer,   (* the send future of the stream at "snd" *)
          Reader    (* the recv future of the stream at "rcv" *)

ASSUME StreamAssumption == Senders = {Writer} /\ Receivers = {Reader}

VARIABLES
  op,         \* the poll function at work: "write" (up to the old send future), "start"
              \* (the new one), "flush", "shutdown" or "none"
  buf,        \* length of the argument of poll_write
  future,     \* send_future: "none", "new" (not past its checks) or "begun"
  pending,    \* length of the data of that future
  shutdown,   \* shutdown_future is kept between two polls
  gone,       \* the stream at "snd" has been dropped
  rop,        \* "read" while poll_read is at work, or "none"
  chunk,      \* what is left of the chunk in the StreamReader
  written,    \* the bytes taken by poll_write, unless an error took them back
  flushed,    \* how many of them the last poll_flush that returned Ok covers
  read        \* the bytes that poll_read returned

futureVars == <<future, pending>>
writeVars  == <<op, buf, futureVars, shutdown, gone, written, flushed>>
readVars   == <<rop, chunk, read>>
ioVars     == <<vars, writeVars, readVars>>

IoInit ==
  /\ Init
  /\ op = "none" /\ buf = 0 /\ future = "none" /\ pending = 0
  /\ shutdown = FALSE /\ gone = FALSE
  /\ rop = "none" /\ chunk = <<>>
  /\ written = <<>> /\ flushed = 0 /\ read = <<>>
-----------------------------------------------------------------------------
(* The application calls a poll function. *)
Poll(name, len) ==
  /\ op = "none" /\ ~gone
  /\ op' = name /\ buf' = len
  /\ UNCHANGED <<vars, futureVars, shutdown, gone, written, flushed, readVars>>

PollWrite == \E len \in Lengths :
  /\ Len(sent) + (IF future = "new" THEN 1 ELSE 0) < MaxMessages
  /\ Poll("write", len)

PollFlush == Poll("flush", 0)

PollShutdown == Poll("shutdown", 0)

Return == op' = "none" /\ buf' = 0

(* A call returns Pending and leaves its futures where they are. *)
PollPending ==
  /\ op \in {"write", "flush", "shutdown"} /\ (future # "none" \/ shutdown)
  /\ Return
  /\ UNCHANGED <<vars, futureVars, shutdown, gone, written, flushed, readVars>>
-----------------------------------------------------------------------------
(* Each of the three polls the stored future first: past its checks ... *)
SendBegins ==
  /\ op # "none" /\ future = "new"
  /\ BeginSend(Writer, pending)
  /\ future' = "begun"
  /\ UNCHANGED <<op, buf, pending, shutdown, gone, written, flushed, readVars>>

(* ... and from segment to segment; after the last it is dropped ... *)
SendProceeds ==
  /\ op # "none" /\ future = "begun"
  /\ SendSegment(Writer)
  /\ IF sender'[Writer] = Idle THEN future' = "none" /\ pending' = 0 ELSE UNCHANGED futureVars
  /\ UNCHANGED <<op, buf, shutdown, gone, written, flushed, readVars>>

\* The future is dropped, and its data with it.
ForgetsSend ==
  /\ future' = "none" /\ pending' = 0
  /\ written' = SubSeq(written, 1, Len(written) - pending)

Refused == closed["snd"] \/ ~attached["snd"] \/ TooLarge(pending)

\* Mutant: the future is put back before it is polled.
SendErr_PutsBack ==
  /\ op # "none"
  /\ \/ future = "new" /\ Refused /\ UNCHANGED vars
     \/ future = "begun" /\ SendFails(Writer)
  /\ Return
  /\ UNCHANGED <<futureVars, written, shutdown, gone, flushed, readVars>>

\* Mutant: a send that ended with an error is taken for one that completed.
SendErr_Swallows ==
  /\ op # "none" /\ future = "begun"
  /\ SendFails(Writer)
  /\ future' = "none" /\ pending' = 0
  /\ UNCHANGED <<op, buf, written, shutdown, gone, flushed, readVars>>

(* ... or it ends with an error, which the call returns: the error of an
   earlier poll_write, if that has returned Ok. *)
SendErr ==
  /\ op # "none"
  /\ \/ future = "new" /\ Refused /\ UNCHANGED vars
     \/ future = "begun" /\ SendFails(Writer)
  /\ ForgetsSend
  /\ Return
  /\ UNCHANGED <<shutdown, gone, flushed, readVars>>
-----------------------------------------------------------------------------
\* The new future takes the place of the old one.
StartsSend ==
  /\ op' = "start" /\ buf' = 0
  /\ future' = "new" /\ pending' = buf
  /\ written' = written \o Payload(Len(sent) + 1, buf)
  /\ UNCHANGED <<vars, shutdown, gone, flushed, readVars>>

\* Mutant: a future that is still pending is overwritten.
WriteStarts_Overwrites == op = "write" /\ future # "begun" /\ StartsSend

(* poll_write, with nothing left to send: a future for the new data, which
   is polled once ... *)
WriteStarts == op = "write" /\ future = "none" /\ StartsSend

(* ... and the length is returned, also if that future is pending. *)
WriteReturns ==
  /\ op = "start"
  /\ Return
  /\ UNCHANGED <<vars, futureVars, shutdown, gone, written, flushed, readVars>>

\* Mutant: a pending future is no reason to wait.
FlushReturns_Early ==
  /\ op = "flush"
  /\ Return
  /\ flushed' = Len(written)
  /\ UNCHANGED <<vars, futureVars, shutdown, gone, written, readVars>>

(* poll_flush *)
FlushReturns ==
  /\ op = "flush" /\ future = "none"
  /\ Return
  /\ flushed' = Len(written)
  /\ UNCHANGED <<vars, futureVars, shutdown, gone, written, readVars>>

\* Mutant: poll_shutdown does not flush.
ShutdownBegins_Unflushed ==
  /\ op = "shutdown" /\ ~shutdown
  /\ CloseFlag("snd")
  /\ shutdown' = TRUE
  /\ UNCHANGED <<op, buf, futureVars, gone, written, flushed, readVars>>

(* poll_shutdown, once flushed: the future of close sets the flag ... *)
ShutdownBegins ==
  /\ op = "shutdown" /\ future = "none" /\ ~shutdown
  /\ CloseFlag("snd")
  /\ shutdown' = TRUE
  /\ flushed' = Len(written)
  /\ UNCHANGED <<op, buf, futureVars, gone, written, readVars>>

(* ... and closes the channels. *)
ShutdownReturns ==
  /\ op = "shutdown" /\ future = "none" /\ shutdown
  /\ CloseTransport("snd")
  /\ Return
  /\ shutdown' = FALSE
  /\ UNCHANGED <<futureVars, gone, written, flushed, readVars>>

(* poll_shutdown of a session that is closed *)
ShutdownAgain ==
  /\ op = "shutdown" /\ future = "none" /\ ~shutdown
  /\ closed["snd"]
  /\ Return
  /\ flushed' = Len(written)
  /\ UNCHANGED <<vars, futureVars, shutdown, gone, written, readVars>>

(* The stream is dropped between two calls, its futures with it: a pending
   close has set the flag and never closes the channels. *)
DropStream ==
  /\ op = "none" /\ ~gone
  /\ gone' = TRUE /\ shutdown' = FALSE
  /\ IF future = "begun" THEN CancelSend(Writer) ELSE SendersMayCancel /\ UNCHANGED vars
  /\ ForgetsSend
  /\ UNCHANGED <<op, buf, flushed, readVars>>
-----------------------------------------------------------------------------
(* poll_read *)
PollRead ==
  /\ rop = "none"
  /\ rop' = "read"
  /\ UNCHANGED <<vars, writeVars, chunk, read>>

\* An empty StreamReader polls the SessionStream, and that its recv future.
PollsRecv == rop = "read" /\ chunk = <<>>

\* Mutant: a future that was ready is not replaced.
ReadProceeds_Once ==
  /\ PollsRecv /\ taken = 0
  /\ RecvEnter(Reader) \/ RecvLock(Reader)
  /\ UNCHANGED <<writeVars, readVars>>

ReadProceeds ==
  /\ PollsRecv
  /\ RecvEnter(Reader) \/ RecvLock(Reader)
  /\ UNCHANGED <<writeVars, readVars>>

(* The future is ready and replaced by one that has not been polled. *)
ReadReceives ==
  /\ PollsRecv
  /\ RecvPacket(Reader)
  /\ chunk' = packets[taken + 1]
  /\ UNCHANGED <<writeVars, rop, read>>

\* Pending, or, from a session that was closed before the future was first
\* polled, the end of the stream.
ReadPending ==
  /\ PollsRecv
  /\ rop' = "none"
  /\ UNCHANGED <<vars, writeVars, chunk, read>>

\* Mutant: what does not fit into the buffer is dropped.
ReadReturns_Truncates ==
  /\ rop = "read" /\ chunk # <<>>
  /\ \E n \in 1..Len(chunk) : read' = read \o SubSeq(chunk, 1, n)
  /\ chunk' = <<>>
  /\ rop' = "none"
  /\ UNCHANGED <<vars, writeVars>>

(* As much of the chunk as fits into the caller's buffer; the rest is kept. *)
ReadReturns ==
  /\ rop = "read" /\ chunk # <<>>
  /\ \E n \in 1..Len(chunk) :
       /\ read' = read \o SubSeq(chunk, 1, n)
       /\ chunk' = SubSeq(chunk, n + 1, Len(chunk))
  /\ rop' = "none"
  /\ UNCHANGED <<vars, writeVars>>
-----------------------------------------------------------------------------
Writing ==
  \/ PollWrite \/ PollFlush \/ PollShutdown \/ PollPending
  \/ SendBegins \/ SendProceeds \/ SendErr
  \/ WriteStarts \/ WriteReturns \/ FlushReturns
  \/ ShutdownBegins \/ ShutdownReturns \/ ShutdownAgain \/ DropStream

Reading == PollRead \/ ReadProceeds \/ ReadReceives \/ ReadPending \/ ReadReturns

(* What goes on in the two sessions meanwhile; "rcv" is closed directly. *)
SessionRuns ==
  /\ \/ OnMessage \/ Enqueue
     \/ \E e \in Ends : AttachReliable(e) \/ PeerCloses(e)
     \/ CloseFlag("rcv") \/ CloseTransport("rcv")
  /\ UNCHANGED <<writeVars, readVars>>

IoNext == Writing \/ Reading \/ SessionRuns

IoSpec == IoInit /\ [][IoNext]_ioVars

(* Fairness.  The reading application polls again and again.  A future says
   Pending only while it has to wait and is polled again when it is woken, so
   a step of its that is possible again and again is taken.  The sessions run
   as in Session.  Nothing is asked of the writing application. *)
IoFairness ==
  /\ WF_ioVars(PollRead)
  /\ SF_ioVars(ReadProceeds \/ ReadReceives \/ ReadReturns)
  /\ WF_ioVars(SessionRuns /\ (OnMessage \/ Enqueue \/ \E e \in Ends : AttachReliable(e)))

IoFairSpec == IoSpec /\ IoFairness
-----------------------------------------------------------------------------
WriteTypeOK ==
  /\ op \in {"none", "write", "start", "flush", "shutdown"}
  /\ buf \in Lengths \cup {0}
  /\ future \in {"none", "new", "begun"}
  /\ pending \in Lengths \cup {0}
  /\ shutdown \in BOOLEAN /\ gone \in BOOLEAN
  /\ written \in Seq(Bytes)
  /\ flushed \in 0..Len(written)

ReadTypeOK ==
  /\ rop \in {"none", "read"}
  /\ chunk \in Seq(Bytes)
  /\ read \in Seq(Bytes)

\* The state kept by the stream follows the future of the session.
FutureOK ==
  /\ future = "none" => pending = 0
  /\ sender[Writer] # Idle <=> future = "begun"

(* Types, and the states of the send future. *)
IoTypeOK == TypeOK /\ WriteTypeOK /\ ReadTypeOK /\ FutureOK

(* A flush that returned Ok: every byte that poll_write had accepted before
   it, unless an error took it back, is in a message that is on the wire with
   its last segment.  An error that nobody was told of takes nothing back: the
   failure of a send that poll_write had reported as done (stream.rs:410) is
   returned before any flush is Ok. *)
FlushedIsSent ==
  \A k \in 1..flushed : written[k][1] \in Messages /\ outcome[written[k][1]] = "ok"

(* poll_shutdown flushes first (stream.rs:459): the session is not closed
   under a send that poll_write has reported as done. *)
ShutdownFlushes == closed["snd"] => sender[Writer] = Idle

(* The two halves are a stream of bytes. *)
Bytewise == INSTANCE ByteStream

ByteStreamSpec == Bytewise!Spec

(* What a flush covers is read in the end, unless an end is closed. *)
FlushedArrives ==
  flushed > Len(read) ~> (Len(read) >= flushed \/ \E e \in Ends : closed[e])
=============================================================================
