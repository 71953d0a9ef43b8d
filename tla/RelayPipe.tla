----------------------------- MODULE RelayPipe -----------------------------
(***************************************************************************)
(* What the relay promises (spec 4.1-4.2), with no buffers, polls or       *)
(* timers: each direction is a pipe from one peer to the other.  A pipe    *)
(* delivers a prefix of what its source sent; it is closed (the receiving  *)
(* peer's write half shut down) either at the source's EOF with everything *)
(* delivered, or, once the opposite pipe has closed, with whatever it had  *)
(* delivered by then.  The relay ends Ok when both are closed, or Err at   *)
(* any time before.  Delivery and closing are eventually taken.            *)
(***************************************************************************)
EXTENDS Naturals

CONSTANTS Dirs, MaxBytes

VARIABLES
  sent,       \* bytes the source peer of each direction has produced
  out,        \* bytes the receiving peer has been given
  srcClosed,  \* the source peer has closed its write half
  closed,     \* the pipe has shut the receiving peer's write half
  result      \* "Pending", "Ok" or "Err"

pipeVars == <<sent, out, srcClosed, closed, result>>

\* The direction opposite to d.
Opposite(d) == CHOOSE e \in Dirs : e # d

PipeInit ==
  /\ sent = [d \in Dirs |-> 0] /\ out = [d \in Dirs |-> 0]
  /\ srcClosed = [d \in Dirs |-> FALSE] /\ closed = [d \in Dirs |-> FALSE]
  /\ result = "Pending"

Send(d) ==
  /\ result = "Pending" /\ ~srcClosed[d] /\ sent[d] < MaxBytes
  /\ sent' = [sent EXCEPT ![d] = @ + 1]
  /\ UNCHANGED <<out, srcClosed, closed, result>>

CloseSource(d) ==
  /\ result = "Pending" /\ ~srcClosed[d]
  /\ srcClosed' = [srcClosed EXCEPT ![d] = TRUE]
  /\ UNCHANGED <<sent, out, closed, result>>

\* Some more of what was sent reaches the receiver, in order.
Deliver(d) ==
  /\ result = "Pending" /\ ~closed[d] /\ out[d] < sent[d]
  /\ \E k \in (out[d] + 1)..sent[d] : out' = [out EXCEPT ![d] = k]
  /\ UNCHANGED <<sent, srcClosed, closed, result>>

\* The pipe closes: at EOF having delivered all, or cut after the opposite
\* pipe closed; a last delivery may come with the close.
Close(d) ==
  /\ result = "Pending" /\ ~closed[d]
  /\ \E k \in out[d]..sent[d] :
       /\ (srcClosed[d] /\ k = sent[d]) \/ closed[Opposite(d)]
       /\ out' = [out EXCEPT ![d] = k]
  /\ closed' = [closed EXCEPT ![d] = TRUE]
  /\ result' = IF closed[Opposite(d)] THEN "Ok" ELSE "Pending"
  /\ UNCHANGED <<sent, srcClosed>>

Fail ==
  /\ result = "Pending" /\ \E d \in Dirs : ~closed[d]
  /\ result' = "Err"
  /\ UNCHANGED <<sent, out, srcClosed, closed>>

PipeNext ==
  \/ \E d \in Dirs : Send(d) \/ CloseSource(d) \/ Deliver(d) \/ Close(d)
  \/ Fail

PipeSpec ==
  /\ PipeInit /\ [][PipeNext]_pipeVars
  /\ \A d \in Dirs : WF_pipeVars(Deliver(d)) /\ WF_pipeVars(Close(d))
=============================================================================
