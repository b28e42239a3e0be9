---------------------------- MODULE MCTargetScan ----------------------------
(* TargetScan on addresses of a few bits: every token, and some lists. *)
EXTENDS TargetScan

EveryToken == {<<token>> : token \in Token}

(* Lists of two: IPv4 and IPv6, short and capped, overlapping, erroneous.  *)
SomeTokens ==
  {[kind |-> "cidr", addr |-> V4(5), prefix |-> p] : p \in 0 .. V4Bits}
  \cup {[kind |-> "cidr", addr |-> V6(9), prefix |-> p] : p \in 0 .. V6Bits}
  \cup {[kind |-> "range", a |-> V4(6), b |-> V4(7)],
        [kind |-> "range", a |-> V6(2), b |-> V6(4)],
        [kind |-> "range", a |-> V4(3), b |-> V6(4)],
        [kind |-> "bad"]}
SomeLists == {<<s, t>> : s, t \in SomeTokens}

TokensAndLists == EveryToken \cup SomeLists

(* A whole low half, "fe80::/64" in the code's widths. *)
WholeLowHalf == {<<[kind |-> "cidr", addr |-> V6(0),
                    prefix |-> V6Bits - CountBits]>>}
=============================================================================
