--------------------------- MODULE RandomHandler ---------------------------
(***************************************************************************)
(* The random outbound, UdpOutboundHandler::handle of                      *)
(* src/leaf/src/proxy/random/udp.rs.  Each call seeds a fresh StdRng from  *)
(* entropy, draws an index with gen_range(0..len), connects through that   *)
(* actor and returns the actor's handle result; a connect error is         *)
(* returned by `?`.  Calls share nothing, so concurrent calls interleave   *)
(* freely.  Actors are numbered 0..N-1; the draw is a nondeterministic     *)
(* choice over the range, and what connect and handle return is chosen by *)
(* the environment.                                                        *)
(***************************************************************************)
EXTENDS Naturals, Sequences

CONSTANTS
  N,         \* self.actors.len()
  Calls,     \* concurrent invocations of handle (model values)
  MaxCalls   \* bound on the number of invocations in a behaviour

ASSUME N \in Nat /\ MaxCalls \in Nat

VARIABLES
  pc,       \* per call: "idle", "connect", "handle" or "panicked"
  trace,    \* per call: what the current invocation observed, one record per actor tried
  result,   \* per call: "None" while running, else what the last invocation returned
  made      \* invocations begun so far

vars == <<pc, trace, result, made>>

Actors == 0..(N - 1)

Outcome == [actor : Actors, connect : {"ok", "err", "none"}, handle : {"ok", "err", "none"}]

TypeOK ==
  /\ pc \in [Calls -> {"idle", "connect", "handle", "panicked"}]
  /\ trace \in [Calls -> Seq(Outcome)]
  /\ result \in [Calls -> {"None", "Ok", "Err"}]
  /\ made \in 0..MaxCalls

Init ==
  /\ pc = [c \in Calls |-> "idle"]
  /\ trace = [c \in Calls |-> <<>>]
  /\ result = [c \in Calls |-> "None"]
  /\ made = 0

\* The range of gen_range(0..len): empty when there are no actors, and
\* gen_range panics on an empty range.
Draws == 0..(N - 1)

\* `let i = rng.gen_range(0..self.actors.len());` then `self.actors[i]`:
\* a fresh invocation draws its actor; nothing of an earlier call is kept.
Pick(c) ==
  /\ pc[c] = "idle" /\ made < MaxCalls
  /\ made' = made + 1
  /\ result' = [result EXCEPT ![c] = "None"]
  /\ IF Draws = {}
       THEN pc' = [pc EXCEPT ![c] = "panicked"] /\ UNCHANGED trace
       ELSE \E i \in Draws :
              /\ trace' = [trace EXCEPT ![c] =
                              <<[actor |-> i, connect |-> "none", handle |-> "none"]>>]
              /\ pc' = [pc EXCEPT ![c] = "connect"]

Connect(c) ==
  /\ pc[c] = "connect"
  /\ \E r \in {"ok", "err"} :
       /\ trace' = [trace EXCEPT ![c][Len(trace[c])].connect = r]
       /\ IF r = "ok"
            THEN pc' = [pc EXCEPT ![c] = "handle"] /\ UNCHANGED result
            ELSE /\ pc' = [pc EXCEPT ![c] = "idle"]
                 /\ result' = [result EXCEPT ![c] = "Err"]
  /\ UNCHANGED made

\* UdpOutboundHandler::handle of the actor drawn, self.actors[i], is the
\* call's result, Ok or Err.
Delegate(c) ==
  /\ pc[c] = "handle"
  /\ \E r \in {"ok", "err"} :
       /\ trace' = [trace EXCEPT ![c][Len(trace[c])].handle = r]
       /\ result' = [result EXCEPT ![c] = IF r = "ok" THEN "Ok" ELSE "Err"]
  /\ pc' = [pc EXCEPT ![c] = "idle"]
  /\ UNCHANGED made

\* Every invocation the bound allows has returned.
Quiescent ==
  /\ made = MaxCalls /\ \A c \in Calls : pc[c] \in {"idle", "panicked"}
  /\ UNCHANGED vars

Next ==
  \/ \E c \in Calls : Pick(c) \/ Connect(c) \/ Delegate(c)
  \/ Quiescent

Spec == Init /\ [][Next]_vars

---------------------------------------------------------------------------

\* A call of handle returns, Ok or Err, and never panics the flow's task
\* (spec 7: "random: bubble up" inner errors).
HandleNeverPanics == \A c \in Calls : pc[c] # "panicked"

(* The reference: spec 4.4 and 7, "random: bubble up".                     *)

\* What a call returns for what it observed: the one actor drawn, its
\* connect error, or else its handle result.
RandomRef(t) ==
  IF Len(t) # 1 THEN "NotOneActor"
  ELSE IF t[1].connect = "err" THEN "Err"
  ELSE IF t[1].handle = "ok" THEN "Ok"
  ELSE "Err"

=============================================================================
