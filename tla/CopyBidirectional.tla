-------------------------- MODULE CopyBidirectional --------------------------
(***************************************************************************)
(* CopyBidirectional (src/leaf/src/common/io.rs): the relay between the   *)
(* inbound peer A and the outbound peer B.  Direction a_to_b copies A's    *)
(* reads into B's writer, b_to_a the reverse.  Each direction is a         *)
(* TransferState Running -> ShuttingDown -> Done; reaching Done shuts the  *)
(* opposite peer's write half and arms the other direction's idle timer.   *)
(*                                                                         *)
(* The peers' applications are part of the model: each produces up to      *)
(* MaxBytes and may close its write half.  With Echo the inbound client    *)
(* waits for every byte to come back before sending the next, and the      *)
(* server echoes what it receives and closes after the client's EOF.       *)
(***************************************************************************)
EXTENDS CopyBuffer

CONSTANTS
  MaxBytes,  \* bytes each peer application produces at most
  Echo,      \* TRUE: request/response peers; FALSE: independent producers
  Faults,    \* TRUE: poll_read/poll_write/poll_flush/poll_shutdown may fail
  Timeouts,  \* uplink_timeout_duration (a_to_b) and downlink_timeout_duration
             \* (b_to_a), in seconds
  MaxTime    \* seconds the clock is followed for; beyond, any time may pass

ASSUME Dirs = {"a_to_b", "b_to_a"}
ASSUME MaxBytes \in Nat /\ Echo \in BOOLEAN /\ Faults \in BOOLEAN
ASSUME Timeouts \in [Dirs -> Nat] /\ MaxTime \in Nat

VARIABLES
  xfer,       \* a_to_b / b_to_a: "Running", "ShuttingDown" or "Done"
  xferCount,  \* the count carried by ShuttingDown(count)
  total,      \* a_to_b_count / b_to_a_count
  delay,      \* a_to_b_delay / b_to_a_delay: "None", "Armed" or "Elapsed"
  stats,      \* uplink_counter / downlink_counter of Stats
  shut,       \* poll_shutdown of this direction's writer has completed
  result,     \* "Pending", or the output of the future: "Ok" or "Err"
  now,        \* the clock, in seconds, up to MaxTime
  deadline,   \* when the Sleep in a_to_b_delay / b_to_a_delay completes
  doneAt      \* history: when each direction became Done

timeVars == <<now, deadline, doneAt>>
biVars == <<xfer, xferCount, total, delay, stats, shut, result, timeVars>>
vars == <<bufVars, endVars, biVars>>

Other(d) == IF d = "a_to_b" THEN "b_to_a" ELSE "a_to_b"

\* enum TransferState: Running(CopyBuffer) | ShuttingDown(u64) | Done; the
\* buffer and the count of the first two are kept in separate variables.
TransferState == {"Running", "ShuttingDown", "Done"}

\* The a_to_b_delay / b_to_a_delay fields: None, or a Sleep that is still
\* armed or has elapsed.
DelaySlot == {"None", "Armed", "Elapsed"}

TypeOK ==
  /\ BufTypeOK
  /\ xfer \in [Dirs -> TransferState]
  /\ xferCount \in [Dirs -> Nat] /\ total \in [Dirs -> Nat]
  /\ delay \in [Dirs -> DelaySlot]
  /\ stats \in [Dirs -> Nat] /\ shut \in [Dirs -> BOOLEAN]
  /\ result \in {"Pending", "Ok", "Err"}
  /\ now \in 0..MaxTime /\ deadline \in [Dirs -> Nat] /\ doneAt \in [Dirs -> Nat]

\* copy_buf_bidirectional_with_timeout: both directions Running with fresh
\* buffers, no timers.
Init ==
  /\ InitBuffer
  /\ xfer = [d \in Dirs |-> "Running"]
  /\ xferCount = [d \in Dirs |-> 0]
  /\ total = [d \in Dirs |-> 0]
  /\ delay = [d \in Dirs |-> "None"]
  /\ stats = [d \in Dirs |-> 0]
  /\ shut = [d \in Dirs |-> FALSE]
  /\ result = "Pending"
  /\ now = 0 /\ deadline = [d \in Dirs |-> 0] /\ doneAt = [d \in Dirs |-> 0]

Live == result = "Pending"

---------------------------------------------------------------------------
(* The relay future: one action per outcome of a call made by poll.        *)

\* A Running direction's poll_copy makes progress and stays Running.
Copy(d) ==
  /\ Live /\ xfer[d] = "Running"
  /\ CopyStep(d)
  /\ UNCHANGED biVars

\* Seeded fault: the copied amount is added to the opposite direction's
\* statistics counter.
CopyDoneSwappedStats(d) ==
  /\ Live /\ xfer[d] = "Running"
  /\ FinalFlush(d)
  /\ xfer' = [xfer EXCEPT ![d] = "ShuttingDown"]
  /\ xferCount' = [xferCount EXCEPT ![d] = amt[d]]
  /\ stats' = [stats EXCEPT ![Other(d)] = @ + amt[d]]
  /\ UNCHANGED <<total, delay, shut, result, timeVars>>

\* poll_copy returns Ready(Ok(count)): ShuttingDown(count), and the count is
\* added to the direction's statistics counter.
CopyDone(d) ==
  /\ Live /\ xfer[d] = "Running"
  /\ FinalFlush(d)
  /\ xfer' = [xfer EXCEPT ![d] = "ShuttingDown"]
  /\ xferCount' = [xferCount EXCEPT ![d] = amt[d]]
  /\ stats' = [stats EXCEPT ![d] = @ + amt[d]]
  /\ UNCHANGED <<total, delay, shut, result, timeVars>>

\* Seeded fault: the promotion carries the bytes read rather than the bytes
\* written.
TimeoutReadCount(d) ==
  /\ Live /\ xfer[d] = "Running"
  /\ CopyPending(d) /\ delay[d] = "Elapsed"
  /\ xfer' = [xfer EXCEPT ![d] = "ShuttingDown"]
  /\ xferCount' = [xferCount EXCEPT ![d] = readN[d]]
  /\ UNCHANGED <<total, delay, stats, shut, result, timeVars>>
  /\ UNCHANGED bufVars /\ UNCHANGED endVars

\* Seeded fault: the promotion is taken on any Pending, timer or not.
TimeoutUnguarded(d) ==
  /\ Live /\ xfer[d] = "Running"
  /\ CopyPending(d)
  /\ xfer' = [xfer EXCEPT ![d] = "ShuttingDown"]
  /\ xferCount' = [xferCount EXCEPT ![d] = amt[d]]
  /\ UNCHANGED <<total, delay, stats, shut, result, timeVars>>
  /\ UNCHANGED bufVars /\ UNCHANGED endVars

\* poll_copy returns Pending and the direction's timer has elapsed: it is
\* promoted to ShuttingDown(amount_transfered()); bytes read but not yet
\* written are dropped with the buffer.  The statistics are not updated.
Timeout(d) ==
  /\ Live /\ xfer[d] = "Running"
  /\ CopyPending(d) /\ delay[d] = "Elapsed"
  /\ xfer' = [xfer EXCEPT ![d] = "ShuttingDown"]
  /\ xferCount' = [xferCount EXCEPT ![d] = amt[d]]
  /\ UNCHANGED <<total, delay, stats, shut, result, timeVars>>
  /\ UNCHANGED bufVars /\ UNCHANGED endVars

\* Seeded fault: Done arms the direction's own timer instead of the other's.
ShutdownArmsOwn(d) ==
  /\ Live /\ xfer[d] = "ShuttingDown"
  /\ Flush(d)
  /\ shut' = [shut EXCEPT ![d] = TRUE]
  /\ total' = [total EXCEPT ![d] = @ + xferCount[d]]
  /\ xfer' = [xfer EXCEPT ![d] = "Done"]
  /\ delay' = [delay EXCEPT ![d] = "Armed"]
  /\ deadline' = [deadline EXCEPT ![d] = now + Timeouts[d]]
  /\ result' = IF xfer[Other(d)] = "Done" THEN "Ok" ELSE "Pending"
  /\ doneAt' = [doneAt EXCEPT ![d] = now]
  /\ UNCHANGED <<xferCount, stats, now>> /\ UNCHANGED bufVars
  /\ UNCHANGED <<sent, readN, srcClosed>>

\* Seeded fault: the Sleep armed on the other direction is given this
\* direction's duration (uplink and downlink swapped).
ShutdownSwappedTimeouts(d) ==
  /\ Live /\ xfer[d] = "ShuttingDown"
  /\ Flush(d)
  /\ shut' = [shut EXCEPT ![d] = TRUE]
  /\ total' = [total EXCEPT ![d] = @ + xferCount[d]]
  /\ xfer' = [xfer EXCEPT ![d] = "Done"]
  /\ delay' = [delay EXCEPT ![Other(d)] = "Armed"]
  /\ deadline' = [deadline EXCEPT ![Other(d)] = now + Timeouts[d]]
  /\ result' = IF xfer[Other(d)] = "Done" THEN "Ok" ELSE "Pending"
  /\ doneAt' = [doneAt EXCEPT ![d] = now]
  /\ UNCHANGED <<xferCount, stats, now>> /\ UNCHANGED bufVars
  /\ UNCHANGED <<sent, readN, srcClosed>>

\* poll_shutdown of the opposite peer's writer returns Ok (a buffered writer
\* flushes first): the count is added to the total, the direction is Done
\* and the other direction's timer is (re)started.  When both are Done the
\* future resolves to Ok((a_to_b_count, b_to_a_count)).
Shutdown(d) ==
  /\ Live /\ xfer[d] = "ShuttingDown"
  /\ Flush(d)
  /\ shut' = [shut EXCEPT ![d] = TRUE]
  /\ total' = [total EXCEPT ![d] = @ + xferCount[d]]
  /\ xfer' = [xfer EXCEPT ![d] = "Done"]
  /\ delay' = [delay EXCEPT ![Other(d)] = "Armed"]
  /\ deadline' = [deadline EXCEPT ![Other(d)] = now + Timeouts[Other(d)]]
  /\ result' = IF xfer[Other(d)] = "Done" THEN "Ok" ELSE "Pending"
  /\ doneAt' = [doneAt EXCEPT ![d] = now]
  /\ UNCHANGED <<xferCount, stats, now>> /\ UNCHANGED bufVars
  /\ UNCHANGED <<sent, readN, srcClosed>>

\* A read, write or flush of a Running direction, or the shutdown of a
\* ShuttingDown one, returns Err: the future resolves to that error at once.
IoError(d) ==
  /\ Faults /\ Live /\ xfer[d] # "Done"
  /\ result' = "Err"
  /\ UNCHANGED <<xfer, xferCount, total, delay, stats, shut, timeVars>>
  /\ UNCHANGED bufVars /\ UNCHANGED endVars

\* poll_write accepts 0 bytes of a non-empty slice: poll_copy returns the
\* WriteZero error, and so does the future; the bytes still in the buffer
\* are never written and no further read is made.
WriteZero(d) ==
  /\ Faults /\ Live /\ xfer[d] = "Running"
  /\ pos[d] < cap[d]
  /\ result' = "Err"
  /\ UNCHANGED <<xfer, xferCount, total, delay, stats, shut, timeVars>>
  /\ UNCHANGED bufVars /\ UNCHANGED endVars

\* One pass of poll's loop over direction d: the match on its TransferState
\* (a_to_b first, then the mirrored b_to_a block).
PollDirection(d) ==
  \/ Copy(d) \/ CopyDone(d) \/ Timeout(d) \/ Shutdown(d) \/ IoError(d)
  \/ WriteZero(d)

---------------------------------------------------------------------------
(* The environment: time, the writers' own transmission, the peers.       *)

\* The Sleep of an armed timer completes at its deadline; beyond MaxTime
\* the clock is no longer followed and it may complete at any step.
TimerElapse(d) ==
  /\ Live /\ delay[d] = "Armed"
  /\ now >= deadline[d] \/ now = MaxTime
  /\ delay' = [delay EXCEPT ![d] = "Elapsed"]
  /\ UNCHANGED <<xfer, xferCount, total, stats, shut, result, timeVars>>
  /\ UNCHANGED bufVars /\ UNCHANGED endVars

\* A second passes.
Tick ==
  /\ Live /\ now < MaxTime
  /\ now' = now + 1
  /\ UNCHANGED <<deadline, doneAt>>
  /\ UNCHANGED <<xfer, xferCount, total, delay, stats, shut, result>>
  /\ UNCHANGED bufVars /\ UNCHANGED endVars

\* A writer whose buffer is full transmits it without being flushed.
WriterDrain(d) ==
  /\ Live /\ wbuf[d] = WBufMax
  /\ Flush(d)
  /\ UNCHANGED <<sent, readN, srcClosed>> /\ UNCHANGED bufVars
  /\ UNCHANGED biVars

\* The peer that feeds direction d may produce a byte: with Echo the client
\* waits for all it sent to come back, the server returns what it received.
MayProduce(d) ==
  \/ ~Echo
  \/ d = "a_to_b" /\ out["b_to_a"] = sent["a_to_b"]
  \/ d = "b_to_a" /\ sent["b_to_a"] < out["a_to_b"]

\* With Echo the server closes after its input's EOF, having echoed all.
MayClose(d) ==
  \/ ~Echo \/ d = "a_to_b"
  \/ shut["a_to_b"] /\ sent["b_to_a"] = out["a_to_b"]

PeerSend(d) ==
  /\ Live /\ ~srcClosed[d] /\ sent[d] < MaxBytes /\ MayProduce(d)
  /\ sent' = [sent EXCEPT ![d] = @ + 1]
  /\ UNCHANGED <<readN, srcClosed, wbuf, out>> /\ UNCHANGED bufVars
  /\ UNCHANGED biVars

PeerClose(d) ==
  /\ Live /\ ~srcClosed[d] /\ MayClose(d)
  /\ srcClosed' = [srcClosed EXCEPT ![d] = TRUE]
  /\ UNCHANGED <<sent, readN, wbuf, out>> /\ UNCHANGED bufVars
  /\ UNCHANGED biVars

\* The future has resolved; the flow's task goes on to drop both peers.
Resolved ==
  /\ ~Live
  /\ UNCHANGED vars

Next ==
  \/ \E d \in Dirs :
       \/ PollDirection(d)
       \/ TimerElapse(d) \/ WriterDrain(d) \/ PeerSend(d) \/ PeerClose(d)
  \/ Tick
  \/ Resolved

\* The runtime re-polls the task whenever a call it made can progress, so
\* every step of the future is weakly fair; time passes and a full writer
\* transmits.  The peers' applications owe nothing: they may stay silent
\* and never close.
Fairness ==
  \A d \in Dirs :
    /\ WF_vars(ReadData(d) /\ xfer[d] = "Running" /\ Live /\ UNCHANGED biVars)
    /\ WF_vars(ReadZero(d) /\ xfer[d] = "Running" /\ Live /\ UNCHANGED biVars)
    /\ WF_vars(FlushOnReadPending(d) /\ xfer[d] = "Running" /\ Live
                 /\ UNCHANGED biVars)
    /\ WF_vars(WriteData(d) /\ xfer[d] = "Running" /\ Live /\ UNCHANGED biVars)
    /\ WF_vars(CopyDone(d)) /\ WF_vars(Timeout(d)) /\ WF_vars(Shutdown(d))
    /\ WF_vars(TimerElapse(d)) /\ WF_vars(WriterDrain(d))
    /\ WF_vars(Tick)

Spec == Init /\ [][Next]_vars
FairSpec == Spec /\ Fairness

---------------------------------------------------------------------------
(* Properties.                                                            *)

\* poll_copy loses no byte while it runs (spec 4.1 "never loses bytes
\* between buffers"): every byte read is either still in the buffer or was
\* accepted by the writer, and every accepted byte is held or delivered.
NoLossWhileRunning ==
  \A d \in Dirs : xfer[d] = "Running" =>
    /\ readN[d] = amt[d] + (cap[d] - pos[d])
    /\ amt[d] = out[d] + wbuf[d]

\* A direction that ended at EOF delivered everything its source peer sent,
\* and counted exactly that (spec 8.1, copy conservation): a 0-byte read is
\* taken as EOF only when the peer has really finished.
CopyConservation ==
  \A d \in Dirs : xfer[d] = "Done" /\ read_done[d] =>
    /\ total[d] = sent[d] /\ out[d] = sent[d] /\ srcClosed[d]

\* The (a_to_b, b_to_a) totals the future resolves to are the bytes each
\* peer actually received, whether a direction ended at EOF or by timeout.
TotalsDelivered ==
  result = "Ok" => \A d \in Dirs : total[d] = out[d]

\* The uplink/downlink statistics never report more bytes than the
\* direction they name has delivered.
StatsNeverOvercount ==
  \A d \in Dirs : stats[d] <= out[d]

\* A peer's write half is shut down only after the direction writing into
\* it saw EOF or its idle timer elapsed.
NoPrematureHalfClose ==
  [][\A d \in Dirs : ~shut[d] /\ shut'[d] =>
        read_done[d] \/ delay[d] = "Elapsed"]_vars

\* Every byte a writer accepted reaches the peer unless the relay fails,
\* even when no more input arrives to push it out (the flush-on-read-pending
\* rule of poll_copy).
WrittenEventuallyDelivered ==
  \A d \in Dirs : \A n \in 1..MaxBytes :
    (amt[d] >= n) ~> (out[d] >= n \/ result = "Err")

\* The idle grace is honoured: a direction is cut short by its timer, before
\* its source's EOF, only once its own timeout (uplink for a_to_b, downlink
\* for b_to_a, per the TCP_*_TIMEOUT docs in option/mod.rs and spec 4.1)
\* has passed since the opposite direction finished its shutdown.
GraceHonoured ==
  [][\A d \in Dirs :
       xfer[d] = "Running" /\ xfer'[d] = "ShuttingDown" /\ ~read_done'[d]
       /\ now < MaxTime
       => now >= doneAt[Other(d)] + Timeouts[d]]_vars

\* Once one peer has been half-closed the relay ends, even if the other
\* peer never closes: the timer armed on the other direction bounds it.
HalfCloseEndsRelay ==
  (\E d \in Dirs : shut[d]) ~> (result # "Pending")

\* The relay implements the pipe pair of RelayPipe: each peer receives a
\* prefix of what the other sent, its write half is shut only at the
\* source's EOF with everything delivered or after the opposite direction
\* closed, and delivery and closing are never withheld for ever.  The map
\* sends the relay's shut flags to the pipes' closed flags.
Pipe == INSTANCE RelayPipe WITH closed <- shut

RelayRefinement == Pipe!PipeSpec
=============================================================================
