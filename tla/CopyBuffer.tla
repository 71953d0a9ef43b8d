----------------------------- MODULE CopyBuffer -----------------------------
(***************************************************************************)
(* CopyBuffer::poll_copy (src/leaf/src/common/io.rs): the single-direction *)
(* copy loop.  Each action is one call the loop makes on its reader or     *)
(* writer that returns Ready; a call that returns Pending changes nothing  *)
(* and is the absence of a step.  Bytes are counted, not named: within a   *)
(* direction the order of bytes is fixed by the single reader and writer.  *)
(*                                                                         *)
(* Besides the fields of CopyBuffer the module keeps the two endpoints of  *)
(* each direction: how much the reader's peer has produced and whether it  *)
(* has closed, and a buffered writer (a BufWriter, a TLS record layer)     *)
(* whose bytes reach its peer only when flushed or when its buffer fills.  *)
(***************************************************************************)
EXTENDS Naturals, FiniteSetsExt

CONSTANTS
  Dirs,      \* the copy directions; each has its own reader and writer
  BufSize,   \* size given to CopyBuffer::new_with_capacity (may be 0)
  WBufMax    \* bytes the writer holds before poll_write pends

ASSUME BufSize \in Nat /\ WBufMax \in Nat \ {0}

VARIABLES
  read_done,   \* CopyBuffer.read_done
  need_flush,  \* CopyBuffer.need_flush
  pos,         \* CopyBuffer.pos
  cap,         \* CopyBuffer.cap
  amt,         \* CopyBuffer.amt: bytes poll_write accepted
  sent,        \* bytes the reader's peer has produced
  readN,       \* bytes poll_read has handed to the buffer
  srcClosed,   \* the reader's peer has closed its write half
  wbuf,        \* bytes held by the writer, not yet flushed
  out          \* bytes the writer has delivered to its peer

bufVars == <<read_done, need_flush, pos, cap, amt>>
endVars == <<sent, readN, srcClosed, wbuf, out>>

\* Bytes waiting at the reader.
Avail(d) == sent[d] - readN[d]

BufTypeOK ==
  /\ read_done \in [Dirs -> BOOLEAN]
  /\ need_flush \in [Dirs -> BOOLEAN]
  /\ pos \in [Dirs -> Nat] /\ cap \in [Dirs -> Nat]
  /\ \A d \in Dirs : pos[d] <= cap[d] /\ cap[d] <= BufSize
  /\ amt \in [Dirs -> Nat] /\ sent \in [Dirs -> Nat] /\ readN \in [Dirs -> Nat]
  /\ srcClosed \in [Dirs -> BOOLEAN]
  /\ wbuf \in [Dirs -> 0..WBufMax] /\ out \in [Dirs -> Nat]

\* CopyBuffer::new_with_capacity, and endpoints on which nothing has happened.
InitBuffer ==
  /\ read_done = [d \in Dirs |-> FALSE]
  /\ need_flush = [d \in Dirs |-> FALSE]
  /\ pos = [d \in Dirs |-> 0]
  /\ cap = [d \in Dirs |-> 0]
  /\ amt = [d \in Dirs |-> 0]
  /\ sent = [d \in Dirs |-> 0]
  /\ readN = [d \in Dirs |-> 0]
  /\ srcClosed = [d \in Dirs |-> FALSE]
  /\ wbuf = [d \in Dirs |-> 0]
  /\ out = [d \in Dirs |-> 0]

\* The loop is at its read branch: the buffer is drained and EOF not seen.
WantsRead(d) == pos[d] = cap[d] /\ ~read_done[d]

\* poll_read is Ready: bytes are waiting, the peer closed, or the ReadBuf
\* has no room (a zero-capacity ReadBuf is filled with nothing at once).
ReadReady(d) == Avail(d) > 0 \/ srcClosed[d] \/ BufSize = 0

\* poll_flush of the writer: what it holds reaches its peer.
Flush(d) ==
  /\ out' = [out EXCEPT ![d] = @ + wbuf[d]]
  /\ wbuf' = [wbuf EXCEPT ![d] = 0]

\* Seeded fault: poll_read is issued while bytes of the previous read are
\* still unwritten, and the buffer is reset over them.
ReadDataUndrained(d) ==
  /\ ~read_done[d]
  /\ BufSize > 0 /\ Avail(d) > 0
  /\ \E n \in 1..Min({Avail(d), BufSize}) :
       /\ pos' = [pos EXCEPT ![d] = 0]
       /\ cap' = [cap EXCEPT ![d] = n]
       /\ readN' = [readN EXCEPT ![d] = @ + n]
  /\ UNCHANGED <<read_done, need_flush, amt, sent, srcClosed, wbuf, out>>

\* poll_read fills n > 0 bytes: the buffer is reset to [0, n).
ReadData(d) ==
  /\ WantsRead(d)
  /\ BufSize > 0 /\ Avail(d) > 0
  /\ \E n \in 1..Min({Avail(d), BufSize}) :
       /\ pos' = [pos EXCEPT ![d] = 0]
       /\ cap' = [cap EXCEPT ![d] = n]
       /\ readN' = [readN EXCEPT ![d] = @ + n]
  /\ UNCHANGED <<read_done, need_flush, amt, sent, srcClosed, wbuf, out>>

\* Seeded fault: an EOF taken whenever nothing is waiting, peer closed or not.
ReadZeroAnyEmpty(d) ==
  /\ WantsRead(d)
  /\ Avail(d) = 0 \/ BufSize = 0
  /\ read_done' = [read_done EXCEPT ![d] = TRUE]
  /\ UNCHANGED <<need_flush, pos, cap, amt>> /\ UNCHANGED endVars

\* poll_read fills 0 bytes: the loop takes it as EOF.
ReadZero(d) ==
  /\ WantsRead(d)
  /\ (Avail(d) = 0 /\ srcClosed[d]) \/ BufSize = 0
  /\ read_done' = [read_done EXCEPT ![d] = TRUE]
  /\ UNCHANGED <<need_flush, pos, cap, amt>> /\ UNCHANGED endVars

\* Seeded fault: the flush before returning Pending is left out.
FlushOnReadPendingDropped(d) == FALSE

\* poll_read is Pending while an earlier write is unflushed: the writer is
\* flushed before Pending is returned, so a reader whose input depends on
\* what the writer holds is not starved.
FlushOnReadPending(d) ==
  /\ WantsRead(d) /\ ~ReadReady(d)
  /\ need_flush[d]
  /\ Flush(d)
  /\ need_flush' = [need_flush EXCEPT ![d] = FALSE]
  /\ UNCHANGED <<read_done, pos, cap, amt, sent, readN, srcClosed>>

\* Seeded fault: the count poll_write reports is trusted past the slice
\* (release builds skip the debug_assert of pos <= cap).
WriteDataPastCap(d) ==
  /\ pos[d] < cap[d]
  /\ wbuf[d] < WBufMax
  /\ \E i \in 1..Min({cap[d] - pos[d] + 1, WBufMax - wbuf[d]}) :
       /\ pos' = [pos EXCEPT ![d] = @ + i]
       /\ amt' = [amt EXCEPT ![d] = @ + i]
       /\ wbuf' = [wbuf EXCEPT ![d] = @ + i]
  /\ need_flush' = [need_flush EXCEPT ![d] = TRUE]
  /\ UNCHANGED <<read_done, cap, sent, readN, srcClosed, out>>

\* poll_write accepts i > 0 bytes of buf[pos..cap].
WriteData(d) ==
  /\ pos[d] < cap[d]
  /\ wbuf[d] < WBufMax
  /\ \E i \in 1..Min({cap[d] - pos[d], WBufMax - wbuf[d]}) :
       /\ pos' = [pos EXCEPT ![d] = @ + i]
       /\ amt' = [amt EXCEPT ![d] = @ + i]
       /\ wbuf' = [wbuf EXCEPT ![d] = @ + i]
  /\ need_flush' = [need_flush EXCEPT ![d] = TRUE]
  /\ UNCHANGED <<read_done, cap, sent, readN, srcClosed, out>>

\* Everything written and EOF seen: the final poll_flush, after which
\* poll_copy returns Ready(Ok(amt)).
FinalFlush(d) ==
  /\ pos[d] = cap[d] /\ read_done[d]
  /\ Flush(d)
  /\ UNCHANGED bufVars /\ UNCHANGED <<sent, readN, srcClosed>>

\* poll_copy returns Pending: the read pends with nothing left to flush, or
\* the write pends because the writer is full.
CopyPending(d) ==
  \/ WantsRead(d) /\ ~ReadReady(d) /\ ~need_flush[d]
  \/ pos[d] < cap[d] /\ wbuf[d] = WBufMax

\* The steps of poll_copy that leave it running.
CopyStep(d) ==
  \/ ReadData(d)
  \/ ReadZero(d)
  \/ FlushOnReadPending(d)
  \/ WriteData(d)
=============================================================================
