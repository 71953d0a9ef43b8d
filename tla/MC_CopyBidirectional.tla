------------------------ MODULE MC_CopyBidirectional ------------------------
(* Model-checking instance of CopyBidirectional.  The copy buffer size is  *)
(* the one the dispatcher computes from LINK_BUFFER_SIZE (Options); one    *)
(* unit of the relay's byte counters stands for one KB.                    *)
EXTENDS CopyBidirectional

\* The two directions of the relay.
MC_Dirs == {"a_to_b", "b_to_a"}

Opt == INSTANCE Options WITH Hi <- {0}, Lo <- {0}

\* LINK_BUFFER_SIZE unset: the default 2 KB.
MC_DefaultBufSize ==
  Opt!LinkBufferKB(Opt!LINK_BUFFER_SIZE([text |-> "unset", hi |-> 0, lo |-> 0]))

\* LINK_BUFFER_SIZE=0, or any multiple of 2^54, which the product wraps to 0.
MC_ZeroBufSize ==
  Opt!LinkBufferKB(Opt!LINK_BUFFER_SIZE([text |-> "decimal", hi |-> 1, lo |-> 0]))

\* The environment as the relay sees it: no variable set.
MC_Unset == [text |-> "unset", hi |-> 0, lo |-> 0]

\* The durations the dispatcher passes: TCP_UPLINK_TIMEOUT for a_to_b,
\* TCP_DOWNLINK_TIMEOUT for b_to_a (the defaults, 2 and 4 seconds).
MC_Timeouts ==
  [d \in MC_Dirs |-> IF d = "a_to_b" THEN Opt!FromSecs(Opt!TCP_UPLINK_TIMEOUT(MC_Unset))
                                      ELSE Opt!FromSecs(Opt!TCP_DOWNLINK_TIMEOUT(MC_Unset))]
=============================================================================
