------------------------------- MODULE IpRange -------------------------------
(***************************************************************************)
(* Addresses and target ranges: src/src/core/IpRange.cpp, the address      *)
(* arithmetic of src/src/core/NetUtils.cpp and the host counts of          *)
(* src/src/core/ScanConfig.cpp, as operators on numbers of a given width.  *)
(* An address is its family and its value; the code's widths are V4Bits =  *)
(* 32, OctetBits = 8, V6Bits = 128, CountBits = 64 and Cap = 65536.        *)
(***************************************************************************)
EXTENDS Integers, Sequences, FiniteSets, SequencesExt

CONSTANTS V4Bits, OctetBits, V6Bits, CountBits, Cap

ASSUME WidthsAssumption ==
  /\ V4Bits \in Nat /\ V6Bits \in Nat /\ CountBits \in Nat /\ Cap \in Nat
  /\ OctetBits \in 1 .. V4Bits
  /\ V4Bits >= 2
  /\ CountBits > V4Bits      \* an IPv4 count never wraps
  /\ CountBits <= V6Bits     \* a quint64 holds the low half of an IPv6 address
  /\ Cap \in 1 .. (2 ^ CountBits) - 1

Pow2(n) == 2 ^ n

V4(n) == [v6 |-> FALSE, n |-> n]
V6(n) == [v6 |-> TRUE, n |-> n]
Bits(v6) == IF v6 THEN V6Bits ELSE V4Bits
V4Addresses == {V4(n) : n \in 0 .. Pow2(V4Bits) - 1}
V6Addresses == {V6(n) : n \in 0 .. Pow2(V6Bits) - 1}
Addresses == V4Addresses \cup V6Addresses

-----------------------------------------------------------------------------
(* NetUtils *)

(* compareIp(a, b) < 0: IPv4 sorts first. *)
Precedes(a, b) == IF a.v6 = b.v6 THEN a.n < b.n ELSE ~a.v6

(* nextAddress(): IPv4 stays at its last address, the carry of the IPv6     *)
(* bytes falls off the end.                                                 *)
NextAddress(a) ==
  IF ~a.v6 /\ a.n = Pow2(V4Bits) - 1 THEN a
  ELSE [a EXCEPT !.n = (a.n + 1) % Pow2(Bits(a.v6))]

(* network | ~mask and addr & mask, for the hosts' share of the bits. *)
Network(n, hostBits) == n - (n % Pow2(hostBits))
Broadcast(n, hostBits) == Network(n, hostBits) + Pow2(hostBits) - 1

IsNetworkOrBroadcast(a, prefix, net) ==
  /\ ~a.v6
  /\ prefix \in 0 .. V4Bits - 2
  /\ a.n \in {Network(net.n, V4Bits - prefix), Broadcast(net.n, V4Bits - prefix)}

-----------------------------------------------------------------------------
(* IpRange::parse.  A token is what the tokenizer of the code tells apart;  *)
(* QHostAddress, which reads the addresses, is not modelled.                *)

CidrToken(v6) == [kind : {"cidr"}, addr : IF v6 THEN V6Addresses ELSE V4Addresses,
                  prefix : 0 .. Bits(v6)]
RangeToken(A, B) == [kind : {"range"}, a : A, b : B]
ShortToken == [kind : {"short"}, a : V4Addresses, octet : 0 .. Pow2(OctetBits)]
SingleToken == [kind : {"single"}, addr : Addresses]
BadToken == [kind : {"bad"}]
Token == CidrToken(FALSE) \cup CidrToken(TRUE) \cup RangeToken(Addresses, Addresses)
         \cup ShortToken \cup SingleToken \cup BadToken

Error == [valid |-> FALSE]
RangeOf(a, b, prefix) == [valid |-> TRUE, first |-> a, last |-> b, prefix |-> prefix]

(* fault: < for <= in the test that leaves out network and broadcast. *)
ExcludesEndsStrictly(prefix) == prefix < V4Bits - 2
(* Up to /30 an IPv4 network loses its first and last address. *)
ExcludesEnds(prefix) == prefix <= V4Bits - 2

ParseCidr(a, prefix) ==
  LET hostBits == Bits(a.v6) - prefix
      base == Network(a.n, hostBits)
      end  == Broadcast(a.n, hostBits)
  IN IF ~a.v6 /\ ExcludesEnds(prefix)
     THEN RangeOf(V4(base + 1), V4(end - 1), prefix)
     ELSE RangeOf([a EXCEPT !.n = base], [a EXCEPT !.n = end], prefix)

ParseRange(a, b) ==
  IF a.v6 # b.v6 \/ Precedes(b, a) THEN Error ELSE RangeOf(a, b, -1)

(* "a.b.c.d-N": N replaces the last octet. *)
WithLastOctet(a, octet) == V4(Network(a.n, OctetBits) + octet)

Parse(token) ==
  CASE token.kind = "cidr"   -> ParseCidr(token.addr, token.prefix)
    [] token.kind = "range"  -> ParseRange(token.a, token.b)
    [] token.kind = "short"  -> IF token.octet < Pow2(OctetBits)
                                THEN ParseRange(token.a, WithLastOctet(token.a, token.octet))
                                ELSE Error
    [] token.kind = "single" -> RangeOf(token.addr, token.addr, Bits(token.addr.v6))
    [] token.kind = "bad"    -> Error

(* parseList(): what parses is kept, in order. *)
ParseList(tokens) ==
  FoldLeft(LAMBDA out, t : IF Parse(t).valid THEN Append(out, Parse(t)) ELSE out,
           <<>>, tokens)

-----------------------------------------------------------------------------
(* Counting *)

HugeCount == Pow2(CountBits) - 1

(* fault: last - first. *)
CountOffByOne(r) == r.last.n - r.first.n
(* The IPv4 count: a difference of quint32, widened before 1 is added. *)
CountV4(r) == r.last.n - r.first.n + 1

(* hostCount(): IPv6 ranges whose high halves differ are huge; the others   *)
(* are counted in CountBits bits.                                           *)
HostCount(r) ==
  LET High(a) == a.n \div Pow2(CountBits)
      Low(a)  == a.n % Pow2(CountBits)
  IN IF ~r.first.v6 THEN CountV4(r)
     ELSE IF High(r.first) # High(r.last) THEN HugeCount
     ELSE (Low(r.last) - Low(r.first) + 1) % Pow2(CountBits)

AddQuint64(x, y) == (x + y) % Pow2(CountBits)

(* ScanConfig::hasHugeTarget and totalHostCount *)
HasHugeTarget(targets) == \E i \in DOMAIN targets : HostCount(targets[i]) = HugeCount
TotalHostCount(targets) ==
  IF HasHugeTarget(targets) THEN HugeCount
  ELSE FoldLeft(LAMBDA sum, r : AddQuint64(sum, HostCount(r)), 0, targets)

(* fault: the cap of IPv6 ranges is not applied. *)
UncappedCount(r) == HostCount(r)
(* What run() adds to total_ for a range.  The code passes over an IPv4     *)
(* count of kHugeCount, which no IPv4 range has.                            *)
CappedCount(r) ==
  IF r.first.v6 /\ HostCount(r) > Cap THEN Cap ELSE HostCount(r)
WorkerTotal(targets) ==
  FoldLeft(LAMBDA sum, r : AddQuint64(sum, CappedCount(r)), 0, targets)

(* fault: only the huge targets are asked about. *)
ConfirmsHugeOnly(targets) == HasHugeTarget(targets)
(* MainWindow::onStartScan asks before it starts. *)
NeedsConfirmation(targets) ==
  HasHugeTarget(targets) \/ TotalHostCount(targets) > Cap

-----------------------------------------------------------------------------
(* What the loops of ScanWorker::run() and IpRange::expand() go through.    *)

RangeCap(r) == IF r.first.v6 THEN Cap ELSE 0
AtCap(r, produced) == RangeCap(r) # 0 /\ produced >= RangeCap(r)

(* fault: > for >= in the comparison with the last address. *)
BeyondLast(r, cur) == Precedes(r.last, cur)
AtLast(r, cur) == ~Precedes(cur, r.last)

(* The addresses in closed form: all of them, or the first Cap of an IPv6   *)
(* range.  TargetScan shows that the loops produce this.                    *)
RangeSize(r) == r.last.n - r.first.n + 1
AddressesOf(r) ==
  [i \in 1 .. (IF r.first.v6 /\ RangeSize(r) > Cap THEN Cap ELSE RangeSize(r)) |->
     [r.first EXCEPT !.n = @ + i - 1]]
AddressesOfAll(targets) ==
  FlattenSeq([i \in DOMAIN targets |-> AddressesOf(targets[i])])
=============================================================================
