------------------------- MODULE RoundRobinHandler -------------------------
(***************************************************************************)
(* The round-robin outbound, handle of src/leaf/src/proxy/rr/tcp.rs and    *)
(* src/leaf/src/proxy/rr/udp.rs (identical selection code).  One handler   *)
(* is shared by concurrent flows, which run on different worker threads:  *)
(* the relaxed load of `next`, the indexing of `actors` and the store of   *)
(* the successor are separate steps that other calls may interleave with. *)
(* Actors are numbered 0..N-1 as in the Vec.                               *)
(***************************************************************************)
EXTENDS Naturals, FiniteSetsExt

CONSTANTS
  N,         \* self.actors.len(); nothing in the handler rejects 0
  Calls,     \* concurrent invocations of handle (model values)
  MaxPicks   \* bound on the number of invocations in a behaviour

ASSUME N \in Nat /\ MaxPicks \in Nat /\ Calls # {}

VARIABLES
  next,     \* the AtomicUsize cursor
  pc,       \* per call: "idle", "loaded", "connect", "handle", "panicked"
  current,  \* per call: the value its load returned
  picks,    \* how many invocations each actor was given
  made,     \* invocations begun so far
  raced     \* some load ran while another call was between its load and store

vars == <<next, pc, current, picks, made, raced>>

Actors == 0..(N - 1)

TypeOK ==
  /\ next \in Nat
  /\ pc \in [Calls -> {"idle", "loaded", "connect", "handle", "panicked"}]
  /\ current \in [Calls -> Actors]
  /\ picks \in [Actors -> Nat] /\ made \in 0..MaxPicks
  /\ raced \in BOOLEAN

\* Handler construction: next is AtomicUsize::new(0).
Init ==
  /\ next = 0
  /\ pc = [c \in Calls |-> "idle"]
  /\ current = [c \in Calls |-> 0]
  /\ picks = [a \in Actors |-> 0]
  /\ made = 0
  /\ raced = FALSE

\* `let current = self.next.load(Relaxed); let a = &self.actors[current];`
\* Indexing past the end of the Vec panics.
Load(c) ==
  /\ pc[c] = "idle" /\ made < MaxPicks
  /\ current' = [current EXCEPT ![c] = next]
  /\ pc' = [pc EXCEPT ![c] = IF next < N THEN "loaded" ELSE "panicked"]
  /\ made' = made + 1
  /\ raced' = (raced \/ \E o \in Calls \ {c} : pc[o] = "loaded")
  /\ UNCHANGED <<next, picks>>

\* Seeded fault: the wrap test is `current > len - 1` written as
\* `current > len`.
StoreOffByOne(c) ==
  /\ pc[c] = "loaded"
  /\ next' = IF current[c] > N - 1 + 1 THEN 0 ELSE current[c] + 1
  /\ picks' = [picks EXCEPT ![current[c]] = @ + 1]
  /\ pc' = [pc EXCEPT ![c] = "connect"]
  /\ UNCHANGED <<current, made, raced>>

\* Seeded fault: the successor is computed but the loaded value is stored.
StoreStale(c) ==
  /\ pc[c] = "loaded"
  /\ next' = current[c]
  /\ picks' = [picks EXCEPT ![current[c]] = @ + 1]
  /\ pc' = [pc EXCEPT ![c] = "connect"]
  /\ UNCHANGED <<current, made, raced>>

\* `let next = if current >= len - 1 { 0 } else { current + 1 };`
\* `self.next.store(next, Relaxed);` and actor `current` is the one used.
Store(c) ==
  /\ pc[c] = "loaded"
  /\ next' = IF current[c] >= N - 1 THEN 0 ELSE current[c] + 1
  /\ picks' = [picks EXCEPT ![current[c]] = @ + 1]
  /\ pc' = [pc EXCEPT ![c] = "connect"]
  /\ UNCHANGED <<current, made, raced>>

\* connect_*_outbound for the chosen actor: Ok goes on to its handle, an
\* error is returned by `?`.
Connect(c) ==
  /\ pc[c] = "connect"
  /\ \E ok \in BOOLEAN : pc' = [pc EXCEPT ![c] = IF ok THEN "handle" ELSE "idle"]
  /\ UNCHANGED <<next, current, picks, made, raced>>

\* The chosen actor's handle returns; its result is the call's result.
Delegate(c) ==
  /\ pc[c] = "handle"
  /\ pc' = [pc EXCEPT ![c] = "idle"]
  /\ UNCHANGED <<next, current, picks, made, raced>>

\* Every invocation the bound allows has returned.
Quiescent ==
  /\ made = MaxPicks /\ \A c \in Calls : pc[c] \in {"idle", "panicked"}
  /\ UNCHANGED vars

Next ==
  \/ \E c \in Calls : Load(c) \/ Store(c) \/ Connect(c) \/ Delegate(c)
  \/ Quiescent

Spec == Init /\ [][Next]_vars

---------------------------------------------------------------------------

\* The cursor always designates an actor, so no call indexes past the end
\* of `actors`, however loads and stores of concurrent calls interleave.
CursorInRange ==
  /\ next \in Actors
  /\ \A c \in Calls : pc[c] # "panicked"

\* When no two calls ever overlapped between load and store, the actors
\* were given turns in strict rotation: their counts differ by at most one
\* (spec 8.5).  Overlapping calls may pick the same actor; the spec accepts
\* that, so the property is conditioned on the absence of overlap.
RotationWhenSerial ==
  ~raced => Max({picks[a] : a \in Actors}) - Min({picks[a] : a \in Actors}) <= 1

\* A call of handle returns, Ok or Err, and never panics the flow's task:
\* spec 7 has composed handlers turn inner failures into errors ("rr:
\* bubble up").  Indexing `actors[current]` panics when actors is empty.
HandleNeverPanics == \A c \in Calls : pc[c] # "panicked"
=============================================================================
