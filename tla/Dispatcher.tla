----------------------------- MODULE Dispatcher -----------------------------
(***************************************************************************)
(* Dispatcher::dispatch_tcp and Dispatcher::dispatch_udp                   *)
(* (src/leaf/src/app/dispatcher.rs).  Each flow runs its own task through  *)
(* sniff, route pick, handler lookup, connect, handshake and, for TCP, the *)
(* relay.  The collaborators (sniffer, Router, OutboundManager, the        *)
(* connect helpers, the handlers) are modelled by what they may return.    *)
(* Destinations are abstracted to their kind: an IP with port 443, another *)
(* IP, or a domain.  log_request is modelled by the handshake field of the *)
(* access-log line ("ms" or "failed"); its layout and colours are left out.*)
(***************************************************************************)
EXTENDS Naturals, Sequences

CONSTANTS
  Flows,     \* sessions dispatched concurrently (model values)
  Tags,      \* outbound tags the router or the default may name
  Networks,  \* the networks flows may use: a subset of {"tcp", "udp"}
  NoTag      \* default_handler() returned None

ASSUME Networks \subseteq {"tcp", "udp"} /\ NoTag \notin Tags

Kinds == {"drop", "proxy"}   \* a drop handler's handle always fails

VARIABLES
  registered,  \* tags OutboundManager::get resolves
  default,     \* OutboundManager::default_handler()
  kind,        \* the kind of the handler registered under each tag
  net,         \* sess.network of each flow
  dest,        \* kind of sess.destination: "ip443", "ip" or "domain"
  stage,       \* "sniff", "route", "get", "connect", "handle", "relay", "done"
  tag,         \* the outbound tag the flow uses
  resolved,    \* the flow obtained a handler
  upstream,    \* the handler's handle returned Ok
  logs,        \* access-log lines emitted for the flow
  inbound,     \* TCP inbound stream: "open", "shutdown" or "dropped"
  udpRes       \* what dispatch_udp returned: "none", "ok" or "err"

cfgVars == <<registered, default, kind>>
flowVars == <<net, dest, stage, tag, resolved, upstream, logs, inbound, udpRes>>
vars == <<cfgVars, flowVars>>

TypeOK ==
  /\ registered \subseteq Tags /\ default \in Tags \cup {NoTag}
  /\ kind \in [Tags -> Kinds]
  /\ net \in [Flows -> Networks]
  /\ dest \in [Flows -> {"ip443", "ip", "domain"}]
  /\ stage \in [Flows -> {"sniff", "route", "get", "connect", "handle", "relay", "done"}]
  /\ tag \in [Flows -> Tags \cup {NoTag}]
  /\ resolved \in [Flows -> BOOLEAN] /\ upstream \in [Flows -> BOOLEAN]
  /\ logs \in [Flows -> Seq({"ms", "failed"})]
  /\ inbound \in [Flows -> {"open", "shutdown", "dropped"}]
  /\ udpRes \in [Flows -> {"none", "ok", "err"}]

\* Any configuration of the manager; every flow at the start of its dispatch
\* (a UDP flow has no sniff stage).
Init ==
  /\ registered \in SUBSET Tags /\ default \in Tags \cup {NoTag}
  /\ kind \in [Tags -> Kinds]
  /\ net \in [Flows -> Networks]
  /\ dest \in [Flows -> {"ip443", "ip", "domain"}]
  /\ stage = [f \in Flows |-> IF net[f] = "tcp" THEN "sniff" ELSE "route"]
  /\ tag = [f \in Flows |-> NoTag]
  /\ resolved = [f \in Flows |-> FALSE] /\ upstream = [f \in Flows |-> FALSE]
  /\ logs = [f \in Flows |-> <<>>]
  /\ inbound = [f \in Flows |-> "open"]
  /\ udpRes = [f \in Flows |-> "none"]

\* The flow's task returns; a TCP inbound not shut down is dropped with it.
Finish(f, r) ==
  /\ stage' = [stage EXCEPT ![f] = "done"]
  /\ inbound' = [inbound EXCEPT ![f] = IF net[f] = "tcp" /\ @ = "open" THEN "dropped" ELSE @]
  /\ udpRes' = [udpRes EXCEPT ![f] = r]

\* lhs.shutdown().await, then return.
ShutdownAndFinish(f) ==
  /\ stage' = [stage EXCEPT ![f] = "done"]
  /\ inbound' = [inbound EXCEPT ![f] = "shutdown"]
  /\ UNCHANGED udpRes

\* Seeded fault: the handshake time is printed as the Option it is, so a
\* failed handshake shows "None" instead of "failed".
LogRequestUnformatted(f, hs) ==
  logs' = [logs EXCEPT ![f] = Append(@, IF hs = "failed" THEN "None" ELSE hs)]

\* log_request(sess, h.tag(), h.color(), handshake_time).
LogRequest(f, hs) == logs' = [logs EXCEPT ![f] = Append(@, hs)]

\* The TCP sniff gate: only an IP destination on port 443 is sniffed.  An
\* SNI replaces the destination by (domain, 443); an SNI too long for a
\* SocksAddr, or a sniff error, ends the flow without a word to the peer.
Sniff(f) ==
  /\ stage[f] = "sniff"
  /\ IF dest[f] # "ip443"
       THEN stage' = [stage EXCEPT ![f] = "route"] /\ UNCHANGED <<dest, inbound, udpRes>>
       ELSE \E r \in {"none", "sni", "sni_too_long", "error"} :
              CASE r = "none" -> stage' = [stage EXCEPT ![f] = "route"]
                                 /\ UNCHANGED <<dest, inbound, udpRes>>
                [] r = "sni"  -> stage' = [stage EXCEPT ![f] = "route"]
                                 /\ dest' = [dest EXCEPT ![f] = "domain"]
                                 /\ UNCHANGED <<inbound, udpRes>>
                [] OTHER      -> Finish(f, "none") /\ UNCHANGED dest
  /\ UNCHANGED <<cfgVars, net, tag, resolved, upstream, logs>>

\* The tag chosen by router.pick_route(sess): Ok(tag), or on Err the
\* manager's default_handler() (NoTag when that is None too).
RouteChoice == Tags \cup {default}

\* The route is taken: the flow goes on to look the handler up.
Routed(f, t) ==
  /\ tag' = [tag EXCEPT ![f] = t]
  /\ stage' = [stage EXCEPT ![f] = "get"]
  /\ UNCHANGED <<inbound, udpRes>>

\* dispatch_tcp: pick_route under the router's read lock, else the default
\* handler, else "can not find any handlers": shut the inbound down, return.
PickRouteTcp(f) ==
  /\ stage[f] = "route" /\ net[f] = "tcp"
  /\ \E t \in RouteChoice :
       IF t # NoTag THEN Routed(f, t) ELSE ShutdownAndFinish(f) /\ UNCHANGED tag
  /\ UNCHANGED <<cfgVars, net, dest, resolved, upstream, logs>>

\* dispatch_udp: the same choice; with neither a route nor a default it
\* returns Err("no available handler").
PickRouteUdp(f) ==
  /\ stage[f] = "route" /\ net[f] = "udp"
  /\ \E t \in RouteChoice :
       IF t # NoTag THEN Routed(f, t) ELSE Finish(f, "err") /\ UNCHANGED tag
  /\ UNCHANGED <<cfgVars, net, dest, resolved, upstream, logs>>

\* outbound_manager.get(&outbound) found the handler.
Resolved(f) ==
  /\ stage' = [stage EXCEPT ![f] = "connect"]
  /\ resolved' = [resolved EXCEPT ![f] = TRUE]
  /\ UNCHANGED <<inbound, udpRes>>

\* dispatch_tcp: "handler not found" shuts the inbound down and returns.
GetHandlerTcp(f) ==
  /\ stage[f] = "get" /\ net[f] = "tcp"
  /\ IF tag[f] \in registered THEN Resolved(f)
                              ELSE ShutdownAndFinish(f) /\ UNCHANGED resolved
  /\ UNCHANGED <<cfgVars, net, dest, tag, upstream, logs>>

\* dispatch_udp: "handler not found" is returned as an error.
GetHandlerUdp(f) ==
  /\ stage[f] = "get" /\ net[f] = "udp"
  /\ IF tag[f] \in registered THEN Resolved(f)
                              ELSE Finish(f, "err") /\ UNCHANGED resolved
  /\ UNCHANGED <<cfgVars, net, dest, tag, upstream, logs>>

\* What connect_*_outbound may return: a drop handler has no connect_addr
\* and nothing is dialled.
ConnectResults(f) == IF kind[tag[f]] = "drop" THEN {"ok"} ELSE {"ok", "err"}

\* The connect helper returned the lower transport: on to the handshake.
Dialled(f) ==
  /\ stage' = [stage EXCEPT ![f] = "handle"]
  /\ UNCHANGED <<logs, inbound, udpRes>>

\* Seeded fault: the TCP dial failure returns without an access-log line.
ConnectTcpUnlogged(f) ==
  /\ stage[f] = "connect" /\ net[f] = "tcp"
  /\ \E r \in ConnectResults(f) :
       IF r = "ok" THEN Dialled(f) ELSE Finish(f, "none") /\ UNCHANGED logs
  /\ UNCHANGED <<cfgVars, net, dest, tag, resolved, upstream>>

\* dispatch_tcp: a connect_tcp_outbound error logs the flow as failed and
\* returns; the inbound is dropped, not shut down.
ConnectTcp(f) ==
  /\ stage[f] = "connect" /\ net[f] = "tcp"
  /\ \E r \in ConnectResults(f) :
       IF r = "ok" THEN Dialled(f)
                   ELSE LogRequest(f, "failed") /\ Finish(f, "none")
  /\ UNCHANGED <<cfgVars, net, dest, tag, resolved, upstream>>

\* dispatch_udp: connect_udp_outbound(...).await? returns the error as it
\* is, with no access-log line.
ConnectUdp(f) ==
  /\ stage[f] = "connect" /\ net[f] = "udp"
  /\ \E r \in ConnectResults(f) :
       IF r = "ok" THEN Dialled(f) ELSE Finish(f, "err") /\ UNCHANGED logs
  /\ UNCHANGED <<cfgVars, net, dest, tag, resolved, upstream>>

\* What the handler's handle may return: drop/tcp.rs always fails.
HandleResults(f) == IF kind[tag[f]] = "drop" THEN {"err"} ELSE {"ok", "err"}

\* dispatch_tcp: TcpOutboundHandler::handle.  Ok logs the handshake time
\* and starts the relay; Err logs "failed" and shuts the inbound down.
HandshakeTcp(f) ==
  /\ stage[f] = "handle" /\ net[f] = "tcp"
  /\ \E r \in HandleResults(f) :
       /\ upstream' = [upstream EXCEPT ![f] = (r = "ok")]
       /\ LogRequest(f, IF r = "ok" THEN "ms" ELSE "failed")
       /\ IF r = "ok"
            THEN stage' = [stage EXCEPT ![f] = "relay"] /\ UNCHANGED <<inbound, udpRes>>
            ELSE ShutdownAndFinish(f)
  /\ UNCHANGED <<cfgVars, net, dest, tag, resolved>>

\* dispatch_udp: UdpOutboundHandler::handle.  Ok logs the handshake time
\* and returns the datagram; Err logs "failed" and is returned.
HandshakeUdp(f) ==
  /\ stage[f] = "handle" /\ net[f] = "udp"
  /\ \E r \in HandleResults(f) :
       /\ upstream' = [upstream EXCEPT ![f] = (r = "ok")]
       /\ LogRequest(f, IF r = "ok" THEN "ms" ELSE "failed")
       /\ Finish(f, r)
  /\ UNCHANGED <<cfgVars, net, dest, tag, resolved>>

\* copy_buf_bidirectional_with_timeout resolves (Ok or Err: both are only
\* logged) and the flow's task ends, dropping both streams.  The relay
\* itself is the CopyBidirectional module; it may also run for ever.
RelayEnd(f) ==
  /\ stage[f] = "relay"
  /\ Finish(f, "none")
  /\ UNCHANGED <<cfgVars, net, dest, tag, resolved, upstream, logs>>

\* Every flow has returned or is relaying for ever.
Settled ==
  /\ \A f \in Flows : stage[f] \in {"done", "relay"}
  /\ UNCHANGED vars

\* The steps of dispatch_tcp and dispatch_udp before the relay.
DispatchStep(f) ==
  \/ Sniff(f) \/ PickRouteTcp(f) \/ PickRouteUdp(f) \/ GetHandlerTcp(f)
  \/ GetHandlerUdp(f) \/ ConnectTcp(f) \/ ConnectUdp(f) \/ HandshakeTcp(f)
  \/ HandshakeUdp(f)

Next ==
  \/ \E f \in Flows : DispatchStep(f) \/ RelayEnd(f)
  \/ Settled

Spec == Init /\ [][Next]_vars

---------------------------------------------------------------------------

\* A flow that obtained a handler ends with exactly one access-log line,
\* "failed" unless the handshake produced an upstream; a flow that never
\* obtained one is not logged (spec 4.5 step 6, spec 7).
LoggedOnce(f) ==
  /\ ~resolved[f] => logs[f] = <<>>
  /\ stage[f] \in {"relay", "done"} /\ resolved[f] =>
       logs[f] = <<IF upstream[f] THEN "ms" ELSE "failed">>

\* ... for every TCP flow.
TcpAccessLog == \A f \in Flows : net[f] = "tcp" => LoggedOnce(f)

\* ... for every UDP flow (spec 7: a dial failure is logged as failed and
\* surfaced).
UdpAccessLog == \A f \in Flows : net[f] = "udp" => LoggedOnce(f)
=============================================================================
