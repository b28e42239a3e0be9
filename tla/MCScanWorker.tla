---------------------------- MODULE MCScanWorker ----------------------------
(* Instances of ScanWorker for TLC: small target lists and ARP tables. *)
EXTENDS ScanWorker

CONSTANTS h1, h2, h3, m1, m2

ThreeHosts == <<h1, h2, h3>>

(* The table changes from a MAC of h1 to another of h1 and h2, or back. *)
ChangingArp ==
  {[h \in Hosts |-> IF h = h1 THEN m1 ELSE NoMac],
   [h \in Hosts |-> IF h \in {h1, h2} THEN m2 ELSE NoMac]}
=============================================================================
