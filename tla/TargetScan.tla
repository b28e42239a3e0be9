----------------------------- MODULE TargetScan -----------------------------
(***************************************************************************)
(* From the text of the target box to the addresses probed: parseList, the *)
(* confirmation of MainWindow::onStartScan, total_ and the nested loops of *)
(* ScanWorker::run() (src/src/core/ScanWorker.cpp:100-140), one iteration  *)
(* a step.  Pauses and cancels are ScanWorker's subject.  The same loop,   *)
(* with its own cap and its test for network and broadcast addresses, is   *)
(* IpRange::expand().                                                      *)
(***************************************************************************)
EXTENDS IpRange

CONSTANTS
  Texts,      \* the target boxes: sequences of tokens
  ExpandCaps  \* the values of maxHosts

VARIABLES
  text,      \* the tokens of the target box
  pc,        \* "parse", "range", "loop", "expand" or "done"
  targets,   \* config_.targets
  asked,     \* the user was asked to confirm a large scan
  total,     \* total_
  r,         \* index of the range in the outer loop
  cur,       \* QHostAddress cur
  produced,  \* produced
  maxHosts,  \* the argument of expand()
  visited    \* history: the addresses handed out, in order

ASSUME TextsAssumption == \A t \in Texts : t \in Seq(Token)
ASSUME ExpandCapsAssumption == ExpandCaps \subseteq Nat

vars == <<text, pc, targets, asked, total, r, cur, produced, maxHosts, visited>>

NoAddress == V4(0)

Init ==
  /\ text \in Texts
  /\ pc = "parse"
  /\ targets = <<>>
  /\ asked = FALSE
  /\ total = 0
  /\ r = 0
  /\ cur = NoAddress
  /\ produced = 0
  /\ maxHosts = 0
  /\ visited = <<>>

(* onStartScan: nothing to scan ends it; a large scan is confirmed, and     *)
(* run() computes total_.                                                   *)
Accept ==
  /\ pc = "parse"
  /\ targets' = ParseList(text)
  /\ asked' = NeedsConfirmation(targets')
  /\ total' = WorkerTotal(targets')
  /\ pc' = IF targets' = <<>> THEN "done" ELSE "range"
  /\ r' = 1
  /\ UNCHANGED <<text, cur, produced, maxHosts, visited>>

(* The head of the outer loop. *)
EnterRange ==
  /\ pc = "range"
  /\ IF r > Len(targets)
     THEN pc' = "done" /\ UNCHANGED <<cur, produced>>
     ELSE pc' = "loop" /\ cur' = targets[r].first /\ produced' = 0
  /\ UNCHANGED <<text, targets, asked, total, r, maxHosts, visited>>

(* One host of the inner loop: it is handed to the pool before either test  *)
(* for the end of the range.                                                *)
VisitHost ==
  /\ pc = "loop"
  /\ visited' = Append(visited, cur)
  /\ produced' = produced + 1
  /\ IF AtCap(targets[r], produced') \/ AtLast(targets[r], cur)
     THEN pc' = "range" /\ r' = r + 1 /\ UNCHANGED cur
     ELSE cur' = NextAddress(cur) /\ UNCHANGED <<pc, r>>
  /\ UNCHANGED <<text, targets, asked, total, maxHosts>>

(* IpRange::expand(maxHosts) of a single target. *)
ExpandCap ==
  IF ~targets[1].first.v6 THEN maxHosts
  ELSE IF maxHosts = 0 \/ maxHosts > Cap THEN Cap ELSE maxHosts

BeginExpand ==
  /\ pc = "parse"
  /\ Len(text) = 1
  /\ targets' = ParseList(text)
  /\ maxHosts' \in ExpandCaps
  /\ IF targets' = <<>>
     THEN pc' = "done" /\ UNCHANGED cur
     ELSE pc' = "expand" /\ cur' = targets'[1].first
  /\ UNCHANGED <<text, asked, total, r, produced, visited>>

(* fault: the subnet tested is that of the address itself, one bit wider.   *)
SkipsWiderSubnet ==
  IsNetworkOrBroadcast(cur, targets[1].prefix + 1, cur)
(* skipV4: the network and broadcast address of an IPv4 CIDR target. *)
SkipV4 == IsNetworkOrBroadcast(cur, targets[1].prefix, targets[1].first)

ExpandHost ==
  /\ pc = "expand"
  /\ IF SkipV4 THEN UNCHANGED <<visited, produced>>
     ELSE visited' = Append(visited, cur) /\
          produced' = IF ExpandCap = 0 THEN produced ELSE produced + 1
  /\ IF (~SkipV4 /\ ExpandCap # 0 /\ produced' >= ExpandCap) \/ AtLast(targets[1], cur)
     THEN pc' = "done" /\ UNCHANGED cur
     ELSE cur' = NextAddress(cur) /\ UNCHANGED pc
  /\ UNCHANGED <<text, targets, asked, total, r, maxHosts>>

Next == Accept \/ EnterRange \/ VisitHost \/ BeginExpand \/ ExpandHost

Spec == Init /\ [][Next]_vars

Scanned == pc = "done" /\ r > 0
Expanded == pc = "done" /\ r = 0

-----------------------------------------------------------------------------
(* Safety *)

(* The addresses a token denotes, from the prefix or the ends it gives.     *)
SamePrefix(a, b, prefix) ==
  a.v6 = b.v6 /\ \A k \in 0 .. prefix - 1 :
    LET bit(x) == (x.n \div Pow2(Bits(a.v6) - 1 - k)) % 2 IN bit(a) = bit(b)
Denoted(token) ==
  CASE token.kind = "cidr" ->
         LET net == {a \in Addresses : SamePrefix(a, token.addr, token.prefix)}
             Ends == {a \in net : \A b \in net : a.n <= b.n}
                     \cup {a \in net : \A b \in net : b.n <= a.n}
         IN IF ~token.addr.v6 /\ Cardinality(net) > 2 THEN net \ Ends ELSE net
    [] token.kind = "range" ->
         {a \in Addresses : a.v6 = token.a.v6 /\ a.v6 = token.b.v6
                            /\ token.a.n <= a.n /\ a.n <= token.b.n}
    [] token.kind = "short" ->
         {a \in V4Addresses : SamePrefix(a, token.a, V4Bits - OctetBits)
                              /\ token.a.n <= a.n
                              /\ a.n % Pow2(OctetBits) <= token.octet
                              /\ token.octet < Pow2(OctetBits)}
    [] token.kind = "single" -> {token.addr}
    [] token.kind = "bad" -> {}

(* A scan visits, range after range and in ascending order, what its tokens *)
(* denote: all of it, or the first Cap addresses of an IPv6 range.  At the  *)
(* top of the address space this rests on the test for the last address     *)
(* coming before nextAddress(), which would stay there or wrap.             *)
VisitsAscending(seq) ==
  \A i, j \in DOMAIN seq : i < j => Precedes(seq[i], seq[j])
VisitsWhatIsDenoted ==
  Scanned /\ Len(text) = 1 =>
    LET there == Denoted(text[1])
        seen  == {visited[i] : i \in DOMAIN visited}
    IN /\ VisitsAscending(visited)
       /\ seen \subseteq there
       /\ \A a \in there \ seen :
            a.v6 /\ Len(visited) = Cap /\ \A b \in seen : Precedes(b, a)

(* The loops produce the closed form that ScanWorker is instantiated with,  *)
(* for any list of targets.                                                 *)
VisitsClosedForm == Scanned => visited = AddressesOfAll(targets)

(* total_ is the number of hosts the loops hand out, as a quint64 counts     *)
(* them, where hostCount() counts well.  It does not in two cases: it wraps *)
(* to 0 when an IPv6 range is a whole low half (a finding, see below), and  *)
(* it says huge of any range across the end of a low half; such a target is *)
(* announced with Cap hosts, never with fewer than are visited.             *)
WrapsToZero(range) ==
  range.first.v6 /\ range.first.n % Pow2(CountBits) = 0
                 /\ RangeSize(range) = Pow2(CountBits)
Straddles(range) ==
  /\ range.first.v6
  /\ range.first.n \div Pow2(CountBits) # range.last.n \div Pow2(CountBits)
CountedWell(range) ==
  ~WrapsToZero(range) /\ (Straddles(range) => RangeSize(range) >= Cap)
TotalIsVisited ==
  Scanned =>
    /\ (\A i \in DOMAIN targets : CountedWell(targets[i])) =>
          total = Len(visited) % Pow2(CountBits)
    /\ Len(targets) = 1 /\ Straddles(targets[1]) =>
          total = Cap /\ Len(visited) <= total

(* expand() hands out what the scan visits, cut to maxHosts: a parsed range *)
(* has no network or broadcast address left for it to skip.                 *)
ExpandAgreesWithScan ==
  Expanded /\ targets # <<>> =>
    LET all == AddressesOf(targets[1]) IN
    visited = SubSeq(all, 1, IF maxHosts \in 1 .. Len(all) THEN maxHosts ELSE Len(all))

-----------------------------------------------------------------------------
(* What the documents say *)

(* USER_GUIDE.md and DEVELOPER_GUIDE.md: a very large range is confirmed.   *)
LargeScanIsConfirmed ==
  Scanned /\ (\E i \in DOMAIN targets : RangeSize(targets[i]) > Cap) => asked
=============================================================================
