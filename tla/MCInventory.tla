---------------------------- MODULE MCInventory ----------------------------
(***************************************************************************)
(* A host that scans report without its MAC and with it, and a file that   *)
(* gives a second address the same MAC, at any moment, also during a scan. *)
(***************************************************************************)
EXTENDS DeviceView

CONSTANTS i1, i2, m1

Sightings == (i1 :> {NoMac, m1}) @@ (i2 :> {})
File == {[ip |-> i2, mac |-> m1, new |-> FALSE, favorite |-> FALSE, labels |-> {}]}

Ranks == (i1 :> 2) @@ (i2 :> 1)

(* One host, no file. *)
OneSighted == i1 :> {NoMac, m1}
NoFile == {}
OneRank == i1 :> 1
=============================================================================
