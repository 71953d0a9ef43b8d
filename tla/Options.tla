------------------------------ MODULE Options ------------------------------
(***************************************************************************)
(* The environment configuration of src/leaf/src/option/mod.rs and the one *)
(* arithmetic the dispatcher does on it (app/dispatcher.rs: the relay's    *)
(* buffer is LINK_BUFFER_SIZE * 1024 bytes, a usize product).              *)
(*                                                                         *)
(* An environment value is a string.  Only what parse::<usize> makes of it *)
(* matters: "unset" (env::var fails), "junk" (parse fails: not a decimal,  *)
(* negative, or beyond usize::MAX), or "decimal", a number in range.  A usize is     *)
(* 64 bits wide; a decimal in range is written as the pair                 *)
(* [hi, lo] = hi * 2^54 + lo with lo < 2^54 and hi < 2^10, because         *)
(* (hi * 2^54 + lo) * 2^10 mod 2^64 = lo * 2^10: the product keeps lo and  *)
(* wraps hi away.  Hi and Lo are the few values of each the model tries.  *)
(***************************************************************************)
EXTENDS Naturals

CONSTANTS
  Hi,   \* values of the high part tried (a subset of 0..1023)
  Lo    \* values of the low part tried (small naturals)

ASSUME Hi \subseteq 0..1023 /\ Lo \subseteq Nat

\* Decimal strings that parse as a usize.
Numerals == [text : {"decimal"}, hi : Hi, lo : Lo]

\* What env::var(key) may hold.
EnvValues == {[text |-> t, hi |-> 0, lo |-> 0] : t \in {"unset", "junk"}} \cup Numerals

\* A usize constant of the code.
Usize(n) == [text |-> "decimal", hi |-> 0, lo |-> n]

\* get_env_var(key, default): the parsed value, or the default when the
\* variable is unset or does not parse.
GetEnvVar(v, default) == IF v.text = "decimal" THEN v ELSE default

\* LINK_BUFFER_SIZE: get_env_var("LINK_BUFFER_SIZE", 2), in KB.
LINK_BUFFER_SIZE(v) == GetEnvVar(v, Usize(2))

\* TCP_UPLINK_TIMEOUT: get_env_var("TCP_UPLINK_TIMEOUT", 2), a u64 of
\* seconds, parsed like a usize on a 64-bit target.
TCP_UPLINK_TIMEOUT(v) == GetEnvVar(v, Usize(2))

\* TCP_DOWNLINK_TIMEOUT: get_env_var("TCP_DOWNLINK_TIMEOUT", 4).
TCP_DOWNLINK_TIMEOUT(v) == GetEnvVar(v, Usize(4))

\* Duration::from_secs(*option::TCP_*_TIMEOUT): the seconds, exactly, for
\* the durations the models try (hi = 0; hi * 2^54 is beyond TLC's integers).
FromSecs(n) == IF n.hi = 0 THEN n.lo ELSE CHOOSE s \in {} : TRUE

\* *option::LINK_BUFFER_SIZE * 1024 in release arithmetic (wrapping at 2^64),
\* expressed in KB: the bytes given to copy_buf_bidirectional_with_timeout
\* divided by 1024.
LinkBufferKB(n) == n.lo

=============================================================================
