---------------------------- MODULE RetryHandler ----------------------------
(***************************************************************************)
(* The retry outbound, UdpOutboundHandler::handle of                       *)
(* src/leaf/src/proxy/retry/udp.rs: for each of `attempts` passes, for     *)
(* each actor in order, connect_udp_outbound then the actor's handle; the  *)
(* first Ok is returned, a connect error is returned at once, a handle     *)
(* error moves on, and after the last pass the call fails with             *)
(* "all attempts failed".  Actors are numbered 1..N; what each connect and *)
(* handle returns is chosen by the environment, except that an actor that  *)
(* is a null outbound (src/leaf/src/proxy/null/outbound/udp.rs) always     *)
(* fails its handle with "null handler".                                   *)
(***************************************************************************)
EXTENDS Naturals, Sequences

CONSTANTS
  N,         \* number of actors (self.actors.len())
  Attempts   \* self.attempts

ASSUME N \in Nat /\ Attempts \in Nat

VARIABLES
  kind,    \* the kind of each actor: "null" or "proxy" (any other outbound)
  pass,    \* passes of the outer loop started so far
  idx,     \* position of the inner loop: the actor about to be tried, N+1 when the pass is over
  phase,   \* "connect": next is connect_udp_outbound; "handle": next is the actor's handle
  trace,   \* what the call observed, one record per actor tried
  result   \* "Pending", "Ok", "ConnectErr" or "AllFailed"

vars == <<kind, pass, idx, phase, trace, result>>

Outcome == [actor : 1..N, connect : {"ok", "err"}, handle : {"ok", "err", "none"}]

TypeOK ==
  /\ kind \in [1..N -> {"null", "proxy"}]
  /\ pass \in 0..Attempts /\ idx \in 1..(N + 1)
  /\ phase \in {"connect", "handle"}
  /\ trace \in Seq(Outcome)
  /\ result \in {"Pending", "Ok", "ConnectErr", "AllFailed"}

\* The call begins before its first pass.
Init ==
  /\ kind \in [1..N -> {"null", "proxy"}]
  /\ pass = 0 /\ idx = N + 1 /\ phase = "connect"
  /\ trace = <<>> /\ result = "Pending"

\* Seeded fault: one pass more than `attempts`.
StartPassInclusive ==
  /\ result = "Pending" /\ idx = N + 1 /\ pass <= Attempts
  /\ pass' = pass + 1 /\ idx' = 1
  /\ UNCHANGED <<kind, phase, trace, result>>

\* The outer loop `for _ in 0..self.attempts` begins another pass.
StartPass ==
  /\ result = "Pending" /\ idx = N + 1 /\ pass < Attempts
  /\ pass' = pass + 1 /\ idx' = 1
  /\ UNCHANGED <<kind, phase, trace, result>>

\* Seeded fault: a connect error is treated like a handle error.
ConnectRetried ==
  /\ result = "Pending" /\ phase = "connect" /\ idx <= N
  /\ \E r \in {"ok", "err"} :
       /\ trace' = Append(trace, [actor |-> idx, connect |-> r, handle |-> "none"])
       /\ IF r = "ok" THEN phase' = "handle" /\ UNCHANGED idx
                      ELSE idx' = idx + 1 /\ UNCHANGED phase
  /\ UNCHANGED <<kind, pass, result>>

\* connect_udp_outbound(sess, dns, a).await? : an error leaves the call.
Connect ==
  /\ result = "Pending" /\ phase = "connect" /\ idx <= N
  /\ \E r \in {"ok", "err"} :
       /\ trace' = Append(trace, [actor |-> idx, connect |-> r, handle |-> "none"])
       /\ IF r = "ok" THEN phase' = "handle" /\ UNCHANGED result
                      ELSE result' = "ConnectErr" /\ UNCHANGED phase
  /\ UNCHANGED <<kind, pass, idx>>

\* What an actor's handle may return: the null outbound always fails.
HandleResults(a) == IF kind[a] = "null" THEN {"err"} ELSE {"ok", "err"}

\* UdpOutboundHandler::handle(a, sess, transport): Ok is returned, Err
\* continues with the next actor.
Handle ==
  /\ result = "Pending" /\ phase = "handle"
  /\ \E r \in HandleResults(idx) :
       /\ trace' = [trace EXCEPT ![Len(trace)].handle = r]
       /\ IF r = "ok" THEN result' = "Ok" /\ UNCHANGED idx
                      ELSE idx' = idx + 1 /\ UNCHANGED result
  /\ phase' = "connect"
  /\ UNCHANGED <<kind, pass>>

\* Every pass is over: Err("all attempts failed").
Exhausted ==
  /\ result = "Pending" /\ idx = N + 1 /\ pass = Attempts
  /\ result' = "AllFailed"
  /\ UNCHANGED <<kind, pass, idx, phase, trace>>

\* The call has returned.
Returned == result # "Pending" /\ UNCHANGED vars

Next == StartPass \/ Connect \/ Handle \/ Exhausted \/ Returned

Spec == Init /\ [][Next]_vars

---------------------------------------------------------------------------
(* The reference: the policy of spec 4.4 as a function of what was seen.   *)

\* The actors in the order the passes visit them.
VisitOrder == [k \in 1..(Attempts * N) |-> ((k - 1) % N) + 1]

\* The result the policy prescribes for a sequence of observed outcomes.
RECURSIVE RetryRef(_)
RetryRef(t) ==
  IF t = <<>> THEN "AllFailed"
  ELSE IF Head(t).connect = "err" THEN "ConnectErr"
  ELSE IF Head(t).handle = "ok" THEN "Ok"
  ELSE RetryRef(Tail(t))

\* The retry handler tries the actors in pass order, never beyond
\* attempts x actors, and returns what the reference policy prescribes for
\* the outcomes it saw: the first Ok, a connect error at once, and
\* "all attempts failed" only after every actor failed in every pass.
RetryContract ==
  /\ Len(trace) <= Attempts * N
  /\ \A k \in 1..Len(trace) : trace[k].actor = VisitOrder[k]
  /\ result # "Pending" =>
       /\ result = RetryRef(trace)
       /\ result = "AllFailed" => Len(trace) = Attempts * N

=============================================================================
