------------------------ MODULE MCScanWorkerTargets ------------------------
(* ScanWorker on the addresses and the host count that IpRange gives for    *)
(* two IPv4 targets that overlap and an IPv6 target larger than the cap.    *)
EXTENDS ScanWorker

CONSTANTS m1, m2

Ip == INSTANCE IpRange WITH V4Bits <- 3, OctetBits <- 2, V6Bits <- 4,
                            CountBits <- 4, Cap <- 1

Tokens == <<[kind |-> "range", a |-> Ip!V4(6), b |-> Ip!V4(7)],
            [kind |-> "single", addr |-> Ip!V4(6)],
            [kind |-> "cidr", addr |-> Ip!V6(5), prefix |-> 2]>>
Targets == Ip!ParseList(Tokens)
Addresses == Ip!AddressesOfAll(Targets)
TargetN == Len(Addresses)
TargetHosts == {Addresses[t] : t \in 1 .. TargetN}
TargetTotal == Ip!WorkerTotal(Targets)

(* The table forgets a MAC of the address listed twice, or learns it. *)
TargetArp ==
  {[h \in TargetHosts |-> NoMac],
   [h \in TargetHosts |-> IF h = Ip!V4(6) THEN m1 ELSE NoMac]}
=============================================================================
