--------------------------- MODULE PacketInbound ---------------------------
(***************************************************************************)
(* The packet inbound of src/leaf/src/proxy/packet/inbound.rs: a TCP       *)
(* listener whose every connection carries framed IP packets to and from a *)
(* NetStack.  The accept loop serves one connection at a time: it builds   *)
(* the two copy tasks s2t (stack -> tun) and t2s (tun -> stack), awaits    *)
(* select(t2s, s2t), which ends the session as soon as either finishes and *)
(* drops the other, and only then accepts again.  An accept error breaks   *)
(* the loop and the listener is gone.                                      *)
(*                                                                         *)
(* Packets are counted, not named.  What the peer client and the stack do  *)
(* is the environment: the client connects, sends and closes; the stack    *)
(* emits packets; sends and writes may fail when Faults holds.             *)
(***************************************************************************)
EXTENDS Naturals, Sequences

CONSTANTS
  Clients,    \* clients of the listener (model values)
  NoClient,   \* no connection is being served
  MaxPkts,    \* packets each side produces per session
  Faults      \* whether accept, send, write and read may fail

ASSUME NoClient \notin Clients /\ MaxPkts \in Nat /\ Faults \in BOOLEAN

VARIABLES
  lstate,    \* the accept loop: "accepting", "serving" or "stopped"
  backlog,   \* connections established by the kernel, not yet accepted
  cstate,    \* per client: "idle", "queued", "served" or "ended"
  open,      \* per client: it has not closed its side of the connection
  conn,      \* the connection being served, or NoClient
  s2t, t2s,  \* the two copy tasks of the session: "run" or "done"
  tunIn,     \* packets the client sent that t2s has not read
  stackOut,  \* packets the stack holds that s2t has not read
  made       \* packets produced in this session by each side

vars == <<lstate, backlog, cstate, open, conn, s2t, t2s, tunIn, stackOut, made>>

TypeOK ==
  /\ lstate \in {"accepting", "serving", "stopped"}
  /\ backlog \in Seq(Clients)
  /\ cstate \in [Clients -> {"idle", "queued", "served", "ended"}]
  /\ open \in [Clients -> BOOLEAN]
  /\ conn \in Clients \cup {NoClient}
  /\ s2t \in {"run", "done"} /\ t2s \in {"run", "done"}
  /\ tunIn \in Nat /\ stackOut \in Nat
  /\ made \in [{"client", "stack"} -> 0..MaxPkts]

\* new(): when PacketInboundSettings::parse_from_bytes fails, `?` returns
\* the error and no runner exists; otherwise the runner starts.  Either way
\* the port is settings.local_port.
StartStates == IF Faults THEN {"accepting", "stopped"} ELSE {"accepting"}

\* The runner's future after TcpListener::bind(..).await.unwrap(): nothing
\* connected yet; a failed bind (the port is taken) panics the runner, and,
\* as with no runner at all, the listener is gone from the start.
Init ==
  /\ lstate \in StartStates
  /\ backlog = <<>>
  /\ cstate = [c \in Clients |-> "idle"] /\ open = [c \in Clients |-> TRUE]
  /\ conn = NoClient /\ s2t = "done" /\ t2s = "done"
  /\ tunIn = 0 /\ stackOut = 0
  /\ made = [s \in {"client", "stack"} |-> 0]

sessionVars == <<s2t, t2s, tunIn, stackOut, made>>

\* A client connects; the kernel queues the connection.
ClientConnect(c) ==
  /\ cstate[c] = "idle" /\ lstate # "stopped"
  /\ cstate' = [cstate EXCEPT ![c] = "queued"]
  /\ backlog' = Append(backlog, c)
  /\ UNCHANGED <<lstate, open, conn, sessionVars>>

\* The client being served sends a packet.
ClientSend ==
  /\ conn # NoClient /\ open[conn] /\ made["client"] < MaxPkts
  /\ tunIn' = tunIn + 1
  /\ made' = [made EXCEPT !["client"] = @ + 1]
  /\ UNCHANGED <<lstate, backlog, cstate, open, conn, s2t, t2s, stackOut>>

\* A client closes its side, served or still queued.
ClientClose(c) ==
  /\ cstate[c] \in {"queued", "served"} /\ open[c]
  /\ open' = [open EXCEPT ![c] = FALSE]
  /\ UNCHANGED <<lstate, backlog, cstate, conn, sessionVars>>

\* The session's NetStack has a packet for the client.
StackEmit ==
  /\ conn # NoClient /\ made["stack"] < MaxPkts
  /\ stackOut' = stackOut + 1
  /\ made' = [made EXCEPT !["stack"] = @ + 1]
  /\ UNCHANGED <<lstate, backlog, cstate, open, conn, s2t, t2s, tunIn>>

\* listener.accept().await returns Ok: a fresh NetStack is built for the
\* connection and both copy tasks start.  With nothing queued, accept pends.
Accept ==
  /\ lstate = "accepting" /\ backlog # <<>>
  /\ conn' = Head(backlog)
  /\ backlog' = Tail(backlog)
  /\ cstate' = [cstate EXCEPT ![Head(backlog)] = "served"]
  /\ lstate' = "serving"
  /\ s2t' = "run" /\ t2s' = "run"
  /\ UNCHANGED <<open, tunIn, stackOut, made>>

\* listener.accept().await returns Err: "accept connection failed" and the
\* loop breaks for good.
AcceptErr ==
  /\ Faults /\ lstate = "accepting"
  /\ lstate' = "stopped"
  /\ UNCHANGED <<backlog, cstate, open, conn, sessionVars>>

\* Whether a send or write may fail.
IoResults == IF Faults THEN {"ok", "err"} ELSE {"ok"}

\* Seeded fault: s2t sends a packet whether or not the read produced one.
S2TUnguarded ==
  /\ lstate = "serving" /\ s2t = "run"
  /\ stackOut' = stackOut - 1
  /\ \E r \in IoResults : s2t' = IF r = "ok" THEN "run" ELSE "done"
  /\ UNCHANGED <<lstate, backlog, cstate, open, conn, t2s, tunIn, made>>

\* s2t: stack_reader.read returns Ok(n) and the packet goes to the tun
\* sink; a send error makes the task return.
S2T ==
  /\ lstate = "serving" /\ s2t = "run" /\ stackOut > 0
  /\ stackOut' = stackOut - 1
  /\ \E r \in IoResults : s2t' = IF r = "ok" THEN "run" ELSE "done"
  /\ UNCHANGED <<lstate, backlog, cstate, open, conn, t2s, tunIn, made>>

\* s2t: stack_reader.read returns Ok(0) (stack EOF) or an error, and the
\* task returns.
S2TEnd ==
  /\ Faults /\ lstate = "serving" /\ s2t = "run"
  /\ s2t' = "done"
  /\ UNCHANGED <<lstate, backlog, cstate, open, conn, t2s, tunIn, stackOut, made>>

\* t2s: tun_stream.next() yields Some(Ok(packet)), written to the stack; a
\* write error makes the task return.
T2S ==
  /\ lstate = "serving" /\ t2s = "run" /\ tunIn > 0
  /\ tunIn' = tunIn - 1
  /\ \E r \in IoResults : t2s' = IF r = "ok" THEN "run" ELSE "done"
  /\ UNCHANGED <<lstate, backlog, cstate, open, conn, s2t, stackOut, made>>

\* t2s: the stream yields None once the client has closed and all it sent
\* was read, and the while-let loop ends.
T2SEnd ==
  /\ lstate = "serving" /\ t2s = "run" /\ tunIn = 0 /\ ~open[conn]
  /\ t2s' = "done"
  /\ UNCHANGED <<lstate, backlog, cstate, open, conn, s2t, tunIn, stackOut, made>>

\* t2s: the stream yields Some(Err) (a read or framing error); the task
\* returns.
T2SErr ==
  /\ Faults /\ lstate = "serving" /\ t2s = "run"
  /\ t2s' = "done"
  /\ UNCHANGED <<lstate, backlog, cstate, open, conn, s2t, tunIn, stackOut, made>>

\* Seeded fault: the session awaits both tasks (join) instead of select.
SessionEndJoin ==
  /\ lstate = "serving" /\ s2t = "done" /\ t2s = "done"
  /\ cstate' = [cstate EXCEPT ![conn] = "ended"]
  /\ conn' = NoClient /\ lstate' = "accepting"
  /\ tunIn' = 0 /\ stackOut' = 0
  /\ made' = [s \in {"client", "stack"} |-> 0]
  /\ UNCHANGED <<backlog, open, s2t, t2s>>

\* select(t2s, s2t).await resolves when either task has returned; the other
\* is dropped with the stream and the stack, and what they held is lost.
\* The loop goes back to accept.
SessionEnd ==
  /\ lstate = "serving" /\ (s2t = "done" \/ t2s = "done")
  /\ cstate' = [cstate EXCEPT ![conn] = "ended"]
  /\ conn' = NoClient /\ lstate' = "accepting"
  /\ s2t' = "done" /\ t2s' = "done"
  /\ tunIn' = 0 /\ stackOut' = 0
  /\ made' = [s \in {"client", "stack"} |-> 0]
  /\ UNCHANGED <<backlog, open>>

\* The loop has broken, or waits in accept with nobody left to connect.
Idle ==
  /\ \/ lstate = "stopped"
     \/ lstate = "accepting" /\ backlog = <<>> /\ \A c \in Clients : cstate[c] # "idle"
  /\ UNCHANGED vars

Next ==
  \/ \E c \in Clients : ClientConnect(c) \/ ClientClose(c)
  \/ ClientSend \/ StackEmit
  \/ Accept \/ AcceptErr \/ S2T \/ S2TEnd \/ T2S \/ T2SEnd \/ T2SErr
  \/ SessionEnd
  \/ Idle

\* The runner is one task polled by the runtime: each of its steps that is
\* enabled is eventually taken.  Failures, the clients and the stack get
\* no fairness.
Spec ==
  /\ Init /\ [][Next]_vars
  /\ WF_vars(Accept) /\ WF_vars(S2T) /\ WF_vars(T2S) /\ WF_vars(T2SEnd)
  /\ WF_vars(SessionEnd)

---------------------------------------------------------------------------

\* A client that closes its connection is let go: t2s drains what it sent,
\* sees the end of the stream and returns, and select ends the session even
\* though s2t, waiting on the stack, never returns.
ClosedClientReleased ==
  \A c \in Clients : (conn = c /\ ~open[c]) ~> (conn # c)

\* Clients that close their connection sooner or later: an assumption on
\* the peers, under which a client can wait for ever only because of the
\* listener itself.
ClosingClientsSpec == Spec /\ \A c \in Clients : WF_vars(ClientClose(c))

\* The accept loop awaits each session inline, so a queued client waits for
\* the sessions before it; when clients close, every queued client is
\* eventually accepted, unless the listener has stopped.
QueuedClientServed ==
  \A c \in Clients :
    (cstate[c] = "queued") ~> (cstate[c] # "queued" \/ lstate = "stopped")

\* Every client that connects is eventually served, when every client
\* eventually closes: a failed accept must not end the service.
EveryClientServed ==
  \A c \in Clients : (cstate[c] = "queued") ~> (cstate[c] # "queued")
=============================================================================
