---------------------------- MODULE PortProfiles ----------------------------
(***************************************************************************)
(* The ports a scan tries: src/src/core/PortProfiles.cpp.  A specification  *)
(* is the sequence of its parts between commas: a number, a range, or       *)
(* something that is neither.  Its numbers are of any size and sign.        *)
(***************************************************************************)
EXTENDS Integers, FiniteSets, SequencesExt

CONSTANTS Top100,    \* the list of top100()
          Curated    \* the ports top1000() adds to the well-known ones

LastWellKnown == 1024
MaxPort == 65535
PortNumbers == 1 .. MaxPort

ASSUME ListsAssumption ==
  Top100 \in Seq(PortNumbers) /\ IsInjective(Top100) /\ Curated \subseteq PortNumbers

Ascending(set) ==
  [i \in 1 .. Cardinality(set) |->
     CHOOSE n \in set : Cardinality({m \in set : m <= n}) = i]

ProfileNames == {"Top 100", "Top 1000", "Well-known (1-1024)", "Full (1-65535)", "Custom"}

(* "Custom" has none of its own: the caller parses a specification. *)
ForName(name) ==
  IF name = "Top 100" THEN Top100
  ELSE IF name = "Top 1000" THEN Ascending(1 .. LastWellKnown \cup Curated)
  ELSE IF name = "Well-known (1-1024)" THEN [i \in 1 .. LastWellKnown |-> i]
  ELSE IF name = "Full (1-65535)" THEN [i \in PortNumbers |-> i]
  ELSE <<>>

(* Ends may be swapped, and are cut to the ports there are. *)
PartPorts(part) ==
  IF part.kind = "number" THEN {part.n} \cap PortNumbers
  ELSE IF part.kind = "range"
       THEN Max({1, Min({part.a, part.b})}) .. Min({MaxPort, Max({part.a, part.b})})
  ELSE {}
ParseSpec(parts) == Ascending(UNION {PartPorts(part) : part \in ToSet(parts)})
=============================================================================
