-------------------------- MODULE TargetScan_proofs --------------------------
(***************************************************************************)
(* Proofs about TargetScan, for addresses, counts and caps of any width:    *)
(* what a token denotes is the interval it is parsed to; the loops visit it *)
(* range after range and end at its last address, or at the cap.           *)
(***************************************************************************)
EXTENDS TargetScan, FoldLemmas, FiniteSetTheorems, TLAPS

-----------------------------------------------------------------------------
(* Powers of two: as many as there are sets of so many bits. *)

LEMMA PowerIsSubsets ==
  ASSUME NEW n \in Nat
  PROVE  /\ IsFiniteSet(SUBSET (1 .. n))
         /\ Cardinality(SUBSET (1 .. n)) = Pow2(n)
<1>1. IsFiniteSet(1 .. n) /\ Cardinality(1 .. n) = n
  BY FS_Interval
<1> QED
  BY <1>1, FS_SUBSET DEF Pow2

LEMMA PowerDoubles ==
  ASSUME NEW n \in Nat
  PROVE  Pow2(n) \in Nat /\ Pow2(n + 1) = 2 * Pow2(n)
<1> DEFINE old == SUBSET (1 .. n)
           new == {s \cup {n + 1} : s \in old}
           f == [s \in old |-> s \cup {n + 1}]
<1>1. n + 1 \in Nat /\ n + 1 \notin 1 .. n /\ 1 .. n + 1 = (1 .. n) \cup {n + 1}
  OBVIOUS
<1>2. SUBSET (1 .. n + 1) = old \cup new
  <2>1. ASSUME NEW s \in SUBSET (1 .. n + 1), n + 1 \in s
        PROVE  s \in new
    <3>1. s \ {n + 1} \in old /\ s = (s \ {n + 1}) \cup {n + 1}
      BY <1>1, <2>1
    <3> QED
      BY <3>1
  <2>2. ASSUME NEW s \in SUBSET (1 .. n + 1), n + 1 \notin s
        PROVE  s \in old
    BY <1>1, <2>2
  <2>3. old \subseteq SUBSET (1 .. n + 1) /\ new \subseteq SUBSET (1 .. n + 1)
    BY <1>1
  <2> QED
    BY <2>1, <2>2, <2>3
<1>3. old \cap new = {}
  BY <1>1
<1>4. f \in Bijection(old, new)
  <2>1. f \in [old -> new]
    OBVIOUS
  <2>2. \A s, t \in old : f[s] = f[t] => s = t
    BY <1>1
  <2>3. \A t \in new : \E s \in old : f[s] = t
    OBVIOUS
  <2> QED
    BY <2>1, <2>2, <2>3 DEF Bijection, Injection, Surjection, IsInjective
<1>5. IsFiniteSet(old) /\ Cardinality(old) = Pow2(n)
  BY PowerIsSubsets
<1>6. IsFiniteSet(new) /\ Cardinality(new) = Pow2(n)
  BY <1>4, <1>5, FS_Bijection DEF ExistsBijection
<1>7. Cardinality(SUBSET (1 .. n + 1)) = Pow2(n + 1)
  BY <1>1, PowerIsSubsets
<1>8. Cardinality(old \cup new) = Pow2(n) + Pow2(n)
  <2>1. Cardinality(old \cap new) = 0
    BY <1>3, FS_EmptySet
  <2>2. Pow2(n) \in Nat
    BY <1>5, FS_CardinalityType
  <2> HIDE DEF old, new
  <2> QED
    BY <1>5, <1>6, <2>1, <2>2, FS_Union
<1>9. Pow2(n) \in Nat
  BY <1>5, FS_CardinalityType
<1>10. Pow2(n + 1) = Pow2(n) + Pow2(n)
  BY <1>2, <1>7, <1>8
<1> QED
  BY <1>9, <1>10

LEMMA PowerOfNone == Pow2(0) = 1
BY DEF Pow2

LEMMA PowerPositive == \A n \in Nat : Pow2(n) \in Nat \ {0}
<1> DEFINE S == {n \in Nat : Pow2(n) \in Nat \ {0}}
<1>1. 0 \in S
  BY PowerOfNone
<1>2. ASSUME NEW n \in S
      PROVE  n + 1 \in S
  <2>1. Pow2(n + 1) = 2 * Pow2(n)
    BY PowerDoubles
  <2> QED
    BY <2>1
<1>3. S = Nat
  <2> HIDE DEF S
  <2>1. S \in SUBSET Nat
    BY DEF S
  <2> QED
    BY <1>1, <1>2, <2>1, NatSet
<1> QED
  BY <1>3

LEMMA PowerOfSum == \A m, n \in Nat : Pow2(m + n) = Pow2(m) * Pow2(n)
<1> SUFFICES ASSUME NEW m \in Nat
             PROVE  \A n \in Nat : Pow2(m + n) = Pow2(m) * Pow2(n)
  OBVIOUS
<1> DEFINE S == {n \in Nat : Pow2(m + n) = Pow2(m) * Pow2(n)}
<1>1. 0 \in S
  BY PowerOfNone, PowerPositive
<1>2. ASSUME NEW n \in S
      PROVE  n + 1 \in S
  <2>1. m + n \in Nat /\ m + (n + 1) = (m + n) + 1
    OBVIOUS
  <2>2. Pow2((m + n) + 1) = 2 * Pow2(m + n) /\ Pow2(n + 1) = 2 * Pow2(n)
    BY <2>1, PowerDoubles
  <2>3. Pow2(m) \in Nat /\ Pow2(n) \in Nat
    BY PowerPositive
  <2>4. 2 * (Pow2(m) * Pow2(n)) = Pow2(m) * (2 * Pow2(n))
    BY <2>3
  <2> QED
    BY <2>1, <2>2, <2>4
<1>3. S = Nat
  <2> HIDE DEF S
  <2>1. S \in SUBSET Nat
    BY DEF S
  <2> QED
    BY <1>1, <1>2, <2>1, NatSet
<1> QED
  BY <1>3

-----------------------------------------------------------------------------
(* Division.  A block is what has the same quotient: an interval. *)

LEMMA DivideInt ==
  ASSUME NEW a \in Int, NEW m \in Int, m > 0
  PROVE  a = (a \div m) * m + (a % m)
OBVIOUS

LEMMA Divide ==
  ASSUME NEW a \in Nat, NEW m \in Nat \ {0}
  PROVE  /\ a \div m \in Nat /\ a % m \in 0 .. m - 1
         /\ a = (a \div m) * m + (a % m)
<1>1. a \div m \in Int /\ a \div m >= 0
  OBVIOUS
<1>2. a % m \in Nat /\ a % m < m
  OBVIOUS
<1>3. a = (a \div m) * m + (a % m)
  BY DivideInt
<1> QED
  BY <1>1, <1>2, <1>3

LEMMA DivideUnique ==
  ASSUME NEW a \in Nat, NEW m \in Nat \ {0}, NEW q \in Nat, NEW s \in Nat, s < m,
         a = q * m + s
  PROVE  q = a \div m /\ s = a % m
<1>1. q = a \div m
  OBVIOUS
<1>2. s = a % m
  OBVIOUS
<1> QED
  BY <1>1, <1>2

LEMMA Halve ==
  ASSUME NEW a \in Nat, NEW m \in Nat \ {0}
  PROVE  (a \div m) \div 2 = a \div (2 * m)
OBVIOUS

LEMMA Monotone ==
  ASSUME NEW m \in Nat, NEW p \in Int, NEW q \in Int, p <= q
  PROVE  p * m <= q * m
OBVIOUS

LEMMA Block ==
  ASSUME NEW n \in Nat, NEW a \in Nat, NEW m \in Nat \ {0}
  PROVE  /\ n - (n % m) \in Nat /\ n - (n % m) = (n \div m) * m
         /\ n - (n % m) <= n /\ n <= n - (n % m) + m - 1
         /\ (a \div m = n \div m) <=> (n - (n % m) <= a /\ a <= n - (n % m) + m - 1)
<1> DEFINE q == n \div m
           s == n % m
           p == a \div m
           t == a % m
<1>1. q \in Nat /\ s \in 0 .. m - 1 /\ n = q * m + s
  BY Divide
<1>2. p \in Nat /\ t \in 0 .. m - 1 /\ a = p * m + t
  BY Divide
<1> SUFFICES /\ n - s \in Nat /\ n - s = q * m
             /\ n - s <= n /\ n <= n - s + m - 1
             /\ (p = q) <=> (n - s <= a /\ a <= n - s + m - 1)
  OBVIOUS
<1> HIDE DEF q, s, p, t
<1>3. q * m \in Nat /\ p * m \in Nat /\ n - s = q * m
  BY <1>1, <1>2
<1>4. CASE p = q
  BY <1>1, <1>2, <1>3, <1>4
<1>5. CASE p <= q - 1
  <2>1. p * m <= (q - 1) * m /\ (q - 1) * m = q * m - m
    BY <1>1, <1>2, <1>5, Monotone
  <2>2. a < q * m
    BY <1>1, <1>2, <1>3, <2>1
  <2> QED
    BY <1>1, <1>2, <1>3, <1>5, <2>2
<1>6. CASE q + 1 <= p
  <2>1. (q + 1) * m <= p * m /\ (q + 1) * m = q * m + m
    BY <1>1, <1>2, <1>6, Monotone
  <2>2. q * m + m <= a
    BY <1>1, <1>2, <1>3, <2>1
  <2> QED
    BY <1>1, <1>2, <1>3, <1>6, <2>2
<1> QED
  BY <1>1, <1>2, <1>4, <1>5, <1>6

-----------------------------------------------------------------------------
(* Addresses and networks. *)

LEMMA AddressIs ==
  /\ \A a \in Addresses : /\ a.v6 \in BOOLEAN /\ a.n \in 0 .. Pow2(Bits(a.v6)) - 1
                          /\ a = [v6 |-> a.v6, n |-> a.n]
  /\ \A f \in BOOLEAN : \A n \in 0 .. Pow2(Bits(f)) - 1 : [v6 |-> f, n |-> n] \in Addresses
  /\ \A f \in BOOLEAN : Bits(f) \in Nat /\ Pow2(Bits(f)) \in Nat \ {0}
<1>1. \A f \in BOOLEAN : Bits(f) \in Nat /\ Pow2(Bits(f)) \in Nat \ {0}
  BY PowerPositive, WidthsAssumption DEF Bits
<1>2. ASSUME NEW a \in Addresses
      PROVE  /\ a.v6 \in BOOLEAN /\ a.n \in 0 .. Pow2(Bits(a.v6)) - 1
             /\ a = [v6 |-> a.v6, n |-> a.n]
  <2>1. CASE a \in V4Addresses
    <3>1. PICK n \in 0 .. Pow2(V4Bits) - 1 : a = [v6 |-> FALSE, n |-> n]
      BY <2>1 DEF V4Addresses, V4
    <3>2. Bits(a.v6) = V4Bits
      BY <3>1 DEF Bits
    <3> QED
      BY <3>1, <3>2
  <2>2. CASE a \in V6Addresses
    <3>1. PICK n \in 0 .. Pow2(V6Bits) - 1 : a = [v6 |-> TRUE, n |-> n]
      BY <2>2 DEF V6Addresses, V6
    <3>2. Bits(a.v6) = V6Bits
      BY <3>1 DEF Bits
    <3> QED
      BY <3>1, <3>2
  <2> QED
    BY <2>1, <2>2 DEF Addresses
<1>3. ASSUME NEW f \in BOOLEAN, NEW n \in 0 .. Pow2(Bits(f)) - 1
      PROVE  [v6 |-> f, n |-> n] \in Addresses
  BY <1>3 DEF Addresses, V4Addresses, V6Addresses, V4, V6, Bits
<1> QED
  BY <1>1, <1>2, <1>3

(* The addresses of a network lie between its first and last. *)
InBlock(n, a, h) == a \div Pow2(h) = n \div Pow2(h)

LEMMA NetworkIsInterval ==
  ASSUME NEW n \in Nat, NEW a \in Nat, NEW h \in Nat
  PROVE  /\ Network(n, h) \in Nat /\ Broadcast(n, h) \in Nat
         /\ Network(n, h) <= n /\ n <= Broadcast(n, h)
         /\ Broadcast(n, h) = Network(n, h) + Pow2(h) - 1
         /\ InBlock(n, a, h) <=> (Network(n, h) <= a /\ a <= Broadcast(n, h))
<1> DEFINE m == Pow2(h)
<1>1. m \in Nat \ {0}
  BY PowerPositive
<1>2. /\ Network(n, h) = n - (n % m) /\ Broadcast(n, h) = Network(n, h) + m - 1
      /\ InBlock(n, a, h) <=> a \div m = n \div m
  BY DEF Network, Broadcast, InBlock
<1> HIDE DEF m
<1>3. /\ n - (n % m) \in Nat /\ n - (n % m) <= n /\ n <= n - (n % m) + m - 1
      /\ (a \div m = n \div m) <=> (n - (n % m) <= a /\ a <= n - (n % m) + m - 1)
  BY <1>1, Block
<1>4. Broadcast(n, h) = Network(n, h) + Pow2(h) - 1
  BY <1>2 DEF m
<1>5. Network(n, h) \in Nat /\ Broadcast(n, h) \in Nat
  BY <1>1, <1>2, <1>3
<1> QED
  BY <1>1, <1>2, <1>3, <1>4, <1>5

LEMMA SameNetwork ==
  ASSUME NEW n \in Nat, NEW a \in Nat, NEW h \in Nat, InBlock(n, a, h)
  PROVE  Network(a, h) = Network(n, h)
<1> DEFINE m == Pow2(h)
<1>1. m \in Nat \ {0} /\ a \div m = n \div m
  BY PowerPositive DEF InBlock
<1>2. Network(a, h) = a - (a % m) /\ Network(n, h) = n - (n % m)
  BY DEF Network
<1> HIDE DEF m
<1>3. n - (n % m) = (n \div m) * m /\ a - (a % m) = (a \div m) * m
  BY <1>1, Block
<1> QED
  BY <1>1, <1>2, <1>3

LEMMA NetworkFits ==
  ASSUME NEW B \in Nat, NEW h \in 0 .. B, NEW n \in 0 .. Pow2(B) - 1
  PROVE  Broadcast(n, h) <= Pow2(B) - 1
<1> DEFINE m == Pow2(h)
           k == Pow2(B - h)
           q == n \div m
           s == n % m
<1>1. m \in Nat \ {0} /\ k \in Nat \ {0} /\ Pow2(B) = k * m
  <2>1. h \in Nat /\ B - h \in Nat /\ (B - h) + h = B
    OBVIOUS
  <2> QED
    BY <2>1, PowerPositive, PowerOfSum
<1>4. n \in Nat /\ n < k * m
  BY <1>1
<1>2. q \in Nat /\ s \in 0 .. m - 1 /\ n = q * m + s
  BY <1>1, <1>4, Divide
<1>3. Network(n, h) = q * m
  <2>1. Network(n, h) = n - s
    BY DEF Network
  <2> HIDE DEF m, q, s
  <2> QED
    BY <1>1, <1>2, <2>1
<1> HIDE DEF m, k, q, s
<1>5. q < k
  <2> SUFFICES ASSUME k <= q
               PROVE  FALSE
    BY <1>1, <1>2
  <2>1. k * m <= q * m
    BY <1>1, <1>2, Monotone
  <2> QED
    BY <1>1, <1>2, <1>4, <2>1
<1>6. (q + 1) * m <= k * m /\ (q + 1) * m = q * m + m
  BY <1>1, <1>2, <1>5, Monotone
<1>7. q * m \in Nat /\ k * m \in Nat
  BY <1>1, <1>2
<1> QED
  BY <1>1, <1>3, <1>6, <1>7 DEF Broadcast, m

(* Numbers of B bits that agree in the first p are in one block. *)
Bit(x, B, k) == (x \div Pow2(B - 1 - k)) % 2

LEMMA SameBits ==
  ASSUME NEW B \in Nat, NEW x \in 0 .. Pow2(B) - 1, NEW y \in 0 .. Pow2(B) - 1, NEW p \in 0 .. B
  PROVE  (\A k \in 0 .. p - 1 : Bit(x, B, k) = Bit(y, B, k)) <=> InBlock(x, y, B - p)
<1> DEFINE Agree(q) == \A k \in 0 .. q - 1 : Bit(x, B, k) = Bit(y, B, k)
           S == {q \in Nat : q <= B => (Agree(q) <=> InBlock(x, y, B - q))}
<1>1. 0 \in S
  <2>1. Pow2(B) \in Nat \ {0}
    BY PowerPositive
  <2>2. ASSUME NEW z \in 0 .. Pow2(B) - 1
        PROVE  z \div Pow2(B) = 0
    <3>1. z \in Nat /\ z < Pow2(B) /\ z = 0 * Pow2(B) + z
      BY <2>1
    <3> QED
      BY <2>1, <3>1, DivideUnique
  <2> QED
    BY <2>2 DEF InBlock
<1>2. ASSUME NEW q \in S
      PROVE  q + 1 \in S
  <2> SUFFICES ASSUME q + 1 <= B
               PROVE  Agree(q + 1) <=> InBlock(x, y, B - (q + 1))
    OBVIOUS
  <2> DEFINE h == B - (q + 1)
             X == x \div Pow2(h)
             Y == y \div Pow2(h)
  <2>1. /\ q \in Nat /\ h \in Nat /\ B - q = h + 1 /\ B - 1 - q = h
        /\ 0 .. (q + 1) - 1 = (0 .. q - 1) \cup {q}
    OBVIOUS
  <2>2. Agree(q) <=> InBlock(x, y, B - q)
    OBVIOUS
  <2>3. Agree(q + 1) <=> Agree(q) /\ Bit(x, B, q) = Bit(y, B, q)
    BY <2>1
  <2>4. Pow2(h) \in Nat \ {0} /\ Pow2(h + 1) = 2 * Pow2(h)
    BY <2>1, PowerPositive, PowerDoubles
  <2>5. X \in Nat /\ Y \in Nat
    <3>1. x \in Nat /\ y \in Nat
      BY PowerPositive
    <3> QED
      BY <2>4, <3>1, Divide
  <2>6. x \div Pow2(B - q) = X \div 2 /\ y \div Pow2(B - q) = Y \div 2
    BY <2>1, <2>4, Halve
  <2>7. Bit(x, B, q) = X % 2 /\ Bit(y, B, q) = Y % 2
    BY <2>1 DEF Bit
  <2> HIDE DEF h, X, Y, Agree
  <2>8. X = Y <=> X \div 2 = Y \div 2 /\ X % 2 = Y % 2
    BY <2>5
  <2>9. InBlock(x, y, h) <=> X = Y
    BY DEF InBlock, X, Y
  <2> QED
    BY <2>2, <2>3, <2>6, <2>7, <2>8, <2>9 DEF InBlock, h
<1>3. S = Nat
  <2> HIDE DEF S
  <2>1. S \in SUBSET Nat
    BY DEF S
  <2> QED
    BY <1>1, <1>2, <2>1, NatSet
<1>4. p \in Nat /\ p <= B
  OBVIOUS
<1>5. p \in S
  BY <1>3, <1>4
<1>6. Agree(p) <=> InBlock(x, y, B - p)
  BY <1>4, <1>5
<1> QED
  BY <1>6

-----------------------------------------------------------------------------
(* What a token denotes is the interval it is parsed to. *)

Between(a, b) == {c \in Addresses : c.v6 = a.v6 /\ a.n <= c.n /\ c.n <= b.n}

(* A parsed range is not empty, and holds neither the network's nor the    *)
(* broadcast address of its prefix, if that is one that has them.          *)
IsRange(x) ==
  /\ x = [valid |-> TRUE, first |-> x.first, last |-> x.last, prefix |-> x.prefix]
  /\ x.first \in Addresses /\ x.last \in Addresses
  /\ x.last.v6 = x.first.v6 /\ x.first.n <= x.last.n
  /\ ~x.first.v6 /\ x.prefix \in 0 .. V4Bits - 2 =>
       /\ Network(x.first.n, V4Bits - x.prefix) < x.first.n
       /\ x.last.n < Broadcast(x.first.n, V4Bits - x.prefix)

Means(token) ==
  IF Parse(token).valid
  THEN IsRange(Parse(token)) /\ Denoted(token) = Between(Parse(token).first, Parse(token).last)
  ELSE Denoted(token) = {}

LEMMA PrefixIsBlock ==
  ASSUME NEW a \in Addresses, NEW b \in Addresses, NEW p \in 0 .. Bits(b.v6)
  PROVE  SamePrefix(a, b, p) <=>
           /\ a.v6 = b.v6
           /\ Network(b.n, Bits(b.v6) - p) <= a.n /\ a.n <= Broadcast(b.n, Bits(b.v6) - p)
<1> DEFINE B == Bits(b.v6)
<1>1. b.v6 \in BOOLEAN /\ B \in Nat /\ Pow2(B) \in Nat \ {0} /\ B - p \in Nat
  BY AddressIs
<1>2. SamePrefix(a, b, p) =>  a.v6 = b.v6
  BY DEF SamePrefix
<1>3. ASSUME a.v6 = b.v6
      PROVE  SamePrefix(a, b, p) <=>
               (Network(b.n, B - p) <= a.n /\ a.n <= Broadcast(b.n, B - p))
  <2>1. a.n \in 0 .. Pow2(B) - 1 /\ b.n \in 0 .. Pow2(B) - 1 /\ a.n \in Nat /\ b.n \in Nat
    BY <1>1, <1>3, AddressIs
  <2>2. SamePrefix(a, b, p) <=> \A k \in 0 .. p - 1 : Bit(a.n, B, k) = Bit(b.n, B, k)
    BY <1>3 DEF SamePrefix, Bit
  <2>3. SamePrefix(a, b, p) <=> InBlock(a.n, b.n, B - p)
    BY <1>1, <2>1, <2>2, SameBits
  <2>4. InBlock(a.n, b.n, B - p) <=> InBlock(b.n, a.n, B - p)
    BY DEF InBlock
  <2> QED
    BY <1>1, <2>1, <2>3, <2>4, NetworkIsInterval
<1> QED
  BY <1>2, <1>3

LEMMA FourAtLeast ==
  ASSUME NEW h \in Nat
  PROVE  IF h >= 2 THEN Pow2(h) >= 4 ELSE Pow2(h) <= 2
<1>1. Pow2(0) = 1 /\ Pow2(1) = 2
  <2>1. Pow2(0 + 1) = 2 * Pow2(0)
    BY PowerDoubles
  <2> QED
    BY <2>1, PowerOfNone
<1>2. CASE h >= 2
  <2> DEFINE k == h - 2
  <2>1. k \in Nat /\ k + 1 \in Nat /\ (k + 1) + 1 = h
    BY <1>2
  <2>2. Pow2(k) \in Nat \ {0}
    BY <2>1, PowerPositive
  <2>3. Pow2(k + 1) = 2 * Pow2(k) /\ Pow2((k + 1) + 1) = 2 * Pow2(k + 1)
    BY <2>1, PowerDoubles
  <2> QED
    BY <1>2, <2>1, <2>2, <2>3
<1>3. CASE h < 2
  <2>1. h = 0 \/ h = 1
    BY <1>3
  <2> QED
    BY <1>1, <1>3, <2>1
<1> QED
  BY <1>2, <1>3

LEMMA CidrMeans ==
  ASSUME NEW f \in BOOLEAN, NEW token \in CidrToken(f)
  PROVE  Means(token)
<1> DEFINE a == token.addr
           p == token.prefix
           h == Bits(f) - p
           base == Network(a.n, h)
           end == Broadcast(a.n, h)
           net == {c \in Addresses : SamePrefix(c, a, p)}
           At(n) == [v6 |-> f, n |-> n]
           Ends == {c \in net : \A b \in net : c.n <= b.n} \cup {c \in net : \A b \in net : b.n <= c.n}
           x == ParseCidr(a, p)
<1>1. /\ a \in Addresses /\ a.v6 = f /\ p \in 0 .. Bits(f) /\ token.kind = "cidr"
      /\ a.n \in 0 .. Pow2(Bits(f)) - 1 /\ a.n \in Nat /\ a = At(a.n)
      /\ Bits(f) \in Nat /\ Pow2(Bits(f)) \in Nat \ {0} /\ h \in 0 .. Bits(f) /\ h \in Nat
  <2>1. a \in Addresses /\ a.v6 = f /\ p \in 0 .. Bits(f) /\ token.kind = "cidr"
    <3>1. /\ a \in IF f THEN V6Addresses ELSE V4Addresses
          /\ p \in 0 .. Bits(f) /\ token.kind = "cidr"
      BY DEF CidrToken
    <3> HIDE DEF a, p
    <3>2. CASE f
      <4>1. PICK n \in 0 .. Pow2(V6Bits) - 1 : a = [v6 |-> TRUE, n |-> n]
        BY <3>1, <3>2 DEF V6Addresses, V6
      <4> QED
        BY <3>1, <3>2, <4>1 DEF Addresses
    <3>3. CASE ~f
      <4>1. PICK n \in 0 .. Pow2(V4Bits) - 1 : a = [v6 |-> FALSE, n |-> n]
        BY <3>1, <3>3 DEF V4Addresses, V4
      <4> QED
        BY <3>1, <3>3, <4>1 DEF Addresses
    <3> QED
      BY <3>1, <3>2, <3>3
  <2>2. Bits(f) \in Nat /\ Pow2(Bits(f)) \in Nat \ {0}
    BY AddressIs
  <2>3. a.n \in 0 .. Pow2(Bits(f)) - 1 /\ a = At(a.n)
    BY <2>1, AddressIs
  <2> HIDE DEF a, p
  <2> QED
    BY <2>1, <2>2, <2>3
<1>2. /\ base \in Nat /\ end \in Nat /\ base <= a.n /\ a.n <= end
      /\ end = base + Pow2(h) - 1 /\ end <= Pow2(Bits(f)) - 1 /\ Pow2(h) \in Nat \ {0}
  BY <1>1, NetworkIsInterval, NetworkFits, PowerPositive
<1>3. net = {c \in Addresses : c.v6 = f /\ base <= c.n /\ c.n <= end}
  BY <1>1, PrefixIsBlock
<1>4. Parse(token) = x
  BY <1>1 DEF Parse
<1>5. Denoted(token) = IF ~f /\ Cardinality(net) > 2 THEN net \ Ends ELSE net
  BY <1>1 DEF Denoted
<1> HIDE DEF a, p, h, base, end, net
<1>6. \A n \in base .. end : At(n) \in net
  <2> SUFFICES ASSUME NEW n \in base .. end
               PROVE  At(n) \in net
    OBVIOUS
  <2>1. n \in 0 .. Pow2(Bits(f)) - 1
    BY <1>1, <1>2
  <2> QED
    BY <1>2, <1>3, <2>1, AddressIs
<1>7. \A c \in net : c.n \in base .. end /\ c = At(c.n)
  <2> SUFFICES ASSUME NEW c \in net
               PROVE  c.n \in base .. end /\ c = At(c.n)
    OBVIOUS
  <2>1. c \in Addresses /\ c.v6 = f /\ base <= c.n /\ c.n <= end
    BY <1>3
  <2>2. c.n \in 0 .. Pow2(Bits(f)) - 1 /\ c = At(c.n)
    BY <2>1, AddressIs
  <2> QED
    BY <1>1, <1>2, <2>1, <2>2
<1>8. Cardinality(net) = Pow2(h)
  <2> DEFINE g == [n \in base .. end |-> At(n)]
  <2>1. g \in Bijection(base .. end, net)
    <3>1. g \in [base .. end -> net]
      BY <1>6
    <3>2. \A m, n \in base .. end : g[m] = g[n] => m = n
      OBVIOUS
    <3>3. \A c \in net : \E n \in base .. end : g[n] = c
      BY <1>7
    <3> QED
      BY <3>1, <3>2, <3>3 DEF Bijection, Injection, Surjection, IsInjective
  <2>2. IsFiniteSet(base .. end) /\ Cardinality(base .. end) = Pow2(h)
    <3>1. base \in Int /\ end \in Int /\ ~(base > end) /\ end - base + 1 = Pow2(h)
      BY <1>2
    <3> QED
      BY <3>1, FS_Interval
  <2> QED
    BY <2>1, <2>2, FS_Bijection DEF ExistsBijection
<1>9. CASE ~f /\ ExcludesEnds(p)
  <2>1. h >= 2 /\ h = V4Bits - p /\ p \in 0 .. V4Bits - 2
    BY <1>1, <1>9, WidthsAssumption DEF ExcludesEnds, Bits, h
  <2>2. Pow2(h) >= 4
    BY <1>1, <2>1, FourAtLeast
  <2>3. x = [valid |-> TRUE, first |-> At(base + 1), last |-> At(end - 1), prefix |-> p]
    BY <1>1, <1>9 DEF ParseCidr, RangeOf, V4, base, end, h
  <2>4. Denoted(token) = net \ Ends
    BY <1>2, <1>5, <1>8, <1>9, <2>2
  <2>5. Ends = {At(base), At(end)}
    <3>1. base \in base .. end /\ end \in base .. end
      BY <1>2
    <3>2. At(base) \in net /\ At(end) \in net
      BY <1>6, <3>1
    <3>3. \A c \in net : base <= c.n /\ c.n <= end
      BY <1>2, <1>7
    <3>4. ASSUME NEW c \in net, \A b \in net : c.n <= b.n
          PROVE  c = At(base)
      <4>1. c.n <= base
        BY <3>2, <3>4
      <4> QED
        BY <1>2, <1>7, <3>3, <4>1
    <3>5. ASSUME NEW c \in net, \A b \in net : b.n <= c.n
          PROVE  c = At(end)
      <4>1. end <= c.n
        BY <3>2, <3>5
      <4> QED
        BY <1>2, <1>7, <3>3, <4>1
    <3> QED
      BY <3>2, <3>3, <3>4, <3>5
  <2>6. net \ Ends = Between(At(base + 1), At(end - 1))
    <3>1. ASSUME NEW c \in net, c # At(base), c # At(end)
          PROVE  c \in Between(At(base + 1), At(end - 1))
      <4>1. c.n \in base .. end /\ c.n # base /\ c.n # end
        BY <1>7, <3>1
      <4>2. c \in Addresses /\ c.v6 = f
        BY <1>3
      <4> QED
        BY <1>2, <4>1, <4>2 DEF Between
    <3>2. ASSUME NEW c \in Between(At(base + 1), At(end - 1))
          PROVE  c \in net /\ c # At(base) /\ c # At(end)
      <4>1. /\ c \in Addresses /\ c.v6 = f /\ base + 1 <= c.n /\ c.n <= end - 1
            /\ c.n \in 0 .. Pow2(Bits(f)) - 1
        BY AddressIs DEF Between
      <4>2. base <= c.n /\ c.n <= end /\ c.n # base /\ c.n # end
        BY <1>1, <1>2, <4>1
      <4> QED
        BY <1>3, <4>1, <4>2
    <3> QED
      BY <2>5, <3>1, <3>2
  <2>7. IsRange(x)
    <3>1. base + 1 \in 0 .. Pow2(Bits(f)) - 1 /\ end - 1 \in 0 .. Pow2(Bits(f)) - 1
          /\ base + 1 <= end - 1 /\ base + 1 \in Nat
      BY <1>1, <1>2, <2>2
    <3>2. At(base + 1) \in Addresses /\ At(end - 1) \in Addresses
      BY <3>1, AddressIs
    <3>3. Network(base + 1, h) = base /\ Broadcast(base + 1, h) = end
      <4>1. InBlock(a.n, base + 1, h)
        <5>1. base <= base + 1 /\ base + 1 <= end
          BY <1>2, <3>1
        <5> QED
          BY <1>1, <3>1, <5>1, NetworkIsInterval DEF base, end
      <4>2. Network(base + 1, h) = base
        BY <1>1, <3>1, <4>1, SameNetwork DEF base
      <4> QED
        BY <1>2, <4>2 DEF Broadcast
    <3> QED
      BY <1>2, <2>1, <2>3, <3>1, <3>2, <3>3 DEF IsRange
  <2> QED
    BY <1>4, <2>3, <2>4, <2>6, <2>7 DEF Means
<1>10. CASE ~(~f /\ ExcludesEnds(p))
  <2>1. x = [valid |-> TRUE, first |-> At(base), last |-> At(end), prefix |-> p]
    BY <1>1, <1>10 DEF ParseCidr, RangeOf, base, end, h
  <2>2. Denoted(token) = net
    <3>1. CASE f
      BY <1>5, <3>1
    <3>2. CASE ~f
      <4>1. h < 2
        BY <1>1, <1>10, <3>2, WidthsAssumption DEF ExcludesEnds, Bits, h
      <4>2. Pow2(h) <= 2
        BY <1>1, <4>1, FourAtLeast
      <4> QED
        BY <1>2, <1>5, <1>8, <4>2
    <3> QED
      BY <3>1, <3>2
  <2>3. net = Between(At(base), At(end))
    BY <1>3 DEF Between
  <2>4. IsRange(x)
    <3>1. base \in 0 .. Pow2(Bits(f)) - 1 /\ end \in 0 .. Pow2(Bits(f)) - 1 /\ base <= end
      BY <1>1, <1>2
    <3>2. At(base) \in Addresses /\ At(end) \in Addresses
      BY <3>1, AddressIs
    <3>3. ~f => p \notin 0 .. V4Bits - 2
      BY <1>10, WidthsAssumption DEF ExcludesEnds
    <3> QED
      BY <2>1, <3>1, <3>2, <3>3 DEF IsRange
  <2> QED
    BY <1>4, <2>1, <2>2, <2>3, <2>4 DEF Means
<1> QED
  BY <1>9, <1>10

LEMMA RangeMeans ==
  ASSUME NEW a \in Addresses, NEW b \in Addresses
  PROVE  LET x == ParseRange(a, b)
             there == {c \in Addresses : c.v6 = a.v6 /\ c.v6 = b.v6 /\ a.n <= c.n /\ c.n <= b.n}
         IN  IF x.valid THEN IsRange(x) /\ x.first = a /\ x.last = b /\ there = Between(a, b)
             ELSE there = {}
<1>1. a.v6 \in BOOLEAN /\ b.v6 \in BOOLEAN /\ a.n \in Nat /\ b.n \in Nat
  BY AddressIs
<1>2. CASE a.v6 # b.v6 \/ Precedes(b, a)
  <2>1. ~ParseRange(a, b).valid
    BY <1>2 DEF ParseRange, Error
  <2>2. ASSUME NEW c \in Addresses, c.v6 = a.v6, c.v6 = b.v6, a.n <= c.n, c.n <= b.n
        PROVE  FALSE
    <3>1. b.n < a.n /\ c.n \in Nat
      BY <1>1, <1>2, <2>2, AddressIs DEF Precedes
    <3> QED
      BY <1>1, <2>2, <3>1
  <2> QED
    BY <2>1, <2>2
<1>3. CASE ~(a.v6 # b.v6 \/ Precedes(b, a))
  <2>1. ParseRange(a, b) = [valid |-> TRUE, first |-> a, last |-> b, prefix |-> -1]
    BY <1>3 DEF ParseRange, RangeOf
  <2>2. a.n <= b.n /\ b.v6 = a.v6
    BY <1>1, <1>3 DEF Precedes
  <2>3. -1 \notin 0 .. V4Bits - 2
    OBVIOUS
  <2>4. IsRange(ParseRange(a, b))
    BY <2>1, <2>2, <2>3 DEF IsRange
  <2> QED
    BY <2>1, <2>2, <2>4 DEF Between
<1> QED
  BY <1>2, <1>3

LEMMA ShortMeans ==
  ASSUME NEW token \in ShortToken
  PROVE  Means(token)
<1> DEFINE a == token.a
           m == Pow2(OctetBits)
           base == Network(a.n, OctetBits)
           last == WithLastOctet(a, token.octet)
           there(b) == {c \in Addresses : c.v6 = a.v6 /\ c.v6 = b.v6 /\ a.n <= c.n /\ c.n <= b.n}
<1>1. a \in V4Addresses /\ token.octet \in Nat /\ token.kind = "short"
  BY PowerPositive, WidthsAssumption DEF ShortToken
<1>2. /\ a \in Addresses /\ a.v6 = FALSE /\ a.n \in 0 .. Pow2(V4Bits) - 1 /\ a.n \in Nat
  BY <1>1 DEF V4Addresses, V4, Addresses
<1>3. /\ m \in Nat \ {0} /\ OctetBits \in Nat /\ V4Bits \in Nat
      /\ V4Bits - OctetBits \in 0 .. V4Bits /\ V4Bits - (V4Bits - OctetBits) = OctetBits
  BY PowerPositive, WidthsAssumption
<1>4. /\ base \in Nat /\ base <= a.n /\ a.n <= base + m - 1
      /\ Broadcast(a.n, OctetBits) = base + m - 1 /\ base + m - 1 <= Pow2(V4Bits) - 1
  <2>1. /\ base \in Nat /\ base <= a.n /\ a.n <= Broadcast(a.n, OctetBits)
        /\ Broadcast(a.n, OctetBits) = base + m - 1
    BY <1>2, <1>3, NetworkIsInterval
  <2>2. OctetBits \in 0 .. V4Bits
    BY <1>3, WidthsAssumption
  <2>3. Broadcast(a.n, OctetBits) <= Pow2(V4Bits) - 1
    BY <1>2, <1>3, <2>2, NetworkFits
  <2> HIDE DEF base, m, a
  <2> QED
    BY <1>3, <2>1, <2>3
<1>5. CASE ~(token.octet < m)
  BY <1>1, <1>5 DEF Means, Parse, Error, Denoted
<1>6. CASE token.octet < m
  <2>1. Parse(token) = ParseRange(a, last)
    BY <1>1, <1>6 DEF Parse
  <2>2. last = [v6 |-> FALSE, n |-> base + token.octet]
    BY DEF WithLastOctet, V4
  <2>3. last \in Addresses
    <3>1. base + token.octet \in 0 .. Pow2(V4Bits) - 1
      BY <1>1, <1>3, <1>4, <1>6, PowerPositive
    <3> QED
      BY <2>2, <3>1 DEF Addresses, V4Addresses, V4
  <2>4. Denoted(token) = {c \in V4Addresses : SamePrefix(c, a, V4Bits - OctetBits)
                            /\ a.n <= c.n /\ c.n % m <= token.octet}
    BY <1>1, <1>6 DEF Denoted
  <2>5. ASSUME NEW c \in V4Addresses
        PROVE  SamePrefix(c, a, V4Bits - OctetBits) /\ a.n <= c.n /\ c.n % m <= token.octet
               <=> a.n <= c.n /\ c.n <= base + token.octet
    <3>1. c \in Addresses /\ c.v6 = FALSE /\ c.n \in Nat
      BY PowerPositive DEF V4Addresses, V4, Addresses
    <3>2. SamePrefix(c, a, V4Bits - OctetBits) <=> (base <= c.n /\ c.n <= base + m - 1)
      <4> DEFINE p == V4Bits - OctetBits
      <4>1. Bits(a.v6) = V4Bits
        BY <1>2 DEF Bits
      <4>2. p \in 0 .. Bits(a.v6) /\ Bits(a.v6) - p = OctetBits
        BY <1>3, <4>1
      <4> HIDE DEF p, a
      <4>3. SamePrefix(c, a, p) <=>
              c.v6 = a.v6 /\ Network(a.n, OctetBits) <= c.n /\ c.n <= Broadcast(a.n, OctetBits)
        BY <1>2, <3>1, <4>2, PrefixIsBlock
      <4> QED
        BY <1>2, <1>4, <3>1, <4>3 DEF p
    <3>3. ASSUME base <= c.n, c.n <= base + m - 1
          PROVE  c.n % m = c.n - base
      <4>1. InBlock(a.n, c.n, OctetBits)
        BY <1>2, <1>3, <1>4, <3>1, <3>3, NetworkIsInterval
      <4>2. Network(c.n, OctetBits) = base
        BY <1>2, <1>3, <3>1, <4>1, SameNetwork
      <4>3. c.n - (c.n % m) = base /\ c.n % m \in Nat
        BY <1>3, <3>1, <4>2, Divide DEF Network
      <4> QED
        BY <1>4, <3>1, <4>3
    <3> HIDE DEF base, m
    <3> QED
      BY <1>1, <1>2, <1>3, <1>4, <1>6, <3>1, <3>2, <3>3
  <2>6. Denoted(token) = there(last)
    <3>1. \A c \in Addresses : c.v6 = FALSE <=> c \in V4Addresses
      BY DEF Addresses, V4Addresses, V6Addresses, V4, V6
    <3>2. V4Addresses \subseteq Addresses
      BY DEF Addresses
    <3>3. last.v6 = FALSE /\ last.n = base + token.octet
      BY <2>2
    <3> HIDE DEF a, base, m, last
    <3>4. there(last) = {c \in Addresses : c \in V4Addresses /\ a.n <= c.n /\ c.n <= base + token.octet}
      BY <1>2, <3>1, <3>3
    <3> HIDE DEF there
    <3>5. ASSUME NEW c \in Denoted(token)
          PROVE  c \in there(last)
      BY <2>4, <2>5, <3>2, <3>4, <3>5
    <3>6. ASSUME NEW c \in there(last)
          PROVE  c \in Denoted(token)
      BY <2>4, <2>5, <3>4, <3>6
    <3> QED
      BY <3>5, <3>6
  <2>7. IF ParseRange(a, last).valid
        THEN /\ IsRange(ParseRange(a, last)) /\ ParseRange(a, last).first = a
             /\ ParseRange(a, last).last = last /\ there(last) = Between(a, last)
        ELSE there(last) = {}
    BY <1>2, <2>3, RangeMeans
  <2> QED
    BY <2>1, <2>6, <2>7 DEF Means
<1> QED
  BY <1>5, <1>6

LEMMA TokenMeans ==
  ASSUME NEW token \in Token
  PROVE  Means(token)
<1>1. CASE token \in CidrToken(FALSE) \cup CidrToken(TRUE)
  BY <1>1, CidrMeans
<1>2. CASE token \in RangeToken(Addresses, Addresses)
  <2>1. token.kind = "range" /\ token.a \in Addresses /\ token.b \in Addresses
    BY <1>2 DEF RangeToken
  <2>2. Parse(token) = ParseRange(token.a, token.b)
    BY <2>1 DEF Parse
  <2>3. Denoted(token) = {c \in Addresses : c.v6 = token.a.v6 /\ c.v6 = token.b.v6
                                              /\ token.a.n <= c.n /\ c.n <= token.b.n}
    BY <2>1 DEF Denoted
  <2> QED
    BY <2>1, <2>2, <2>3, RangeMeans DEF Means
<1>3. CASE token \in ShortToken
  BY <1>3, ShortMeans
<1>4. CASE token \in SingleToken
  <2> DEFINE a == token.addr
  <2>1. token.kind = "single" /\ a \in Addresses
    BY <1>4 DEF SingleToken
  <2>2. Parse(token) = [valid |-> TRUE, first |-> a, last |-> a, prefix |-> Bits(a.v6)]
    BY <2>1 DEF Parse, RangeOf
  <2>3. Denoted(token) = {a}
    BY <2>1 DEF Denoted
  <2>4. a.v6 \in BOOLEAN /\ a.n \in Nat /\ (~a.v6 => Bits(a.v6) \notin 0 .. V4Bits - 2)
    BY <2>1, AddressIs, WidthsAssumption DEF Bits
  <2>5. Between(a, a) = {a}
    <3>1. ASSUME NEW c \in Addresses, c.v6 = a.v6, a.n <= c.n, c.n <= a.n
          PROVE  c = a
      <4>1. c.n = a.n
        BY <2>4, <3>1, AddressIs
      <4>2. c = [v6 |-> c.v6, n |-> c.n] /\ a = [v6 |-> a.v6, n |-> a.n]
        BY <2>1, AddressIs
      <4> QED
        BY <3>1, <4>1, <4>2
    <3> QED
      BY <2>1, <2>4, <3>1 DEF Between
  <2>6. IsRange(Parse(token))
    BY <2>1, <2>2, <2>4 DEF IsRange
  <2> QED
    BY <2>2, <2>3, <2>5, <2>6 DEF Means
<1>5. CASE token \in BadToken
  BY <1>5 DEF BadToken, Means, Parse, Error, Denoted
<1> QED
  BY <1>1, <1>2, <1>3, <1>4, <1>5 DEF Token

-----------------------------------------------------------------------------
(* parseList() keeps what parses. *)
Parsed == {Parse(t) : t \in {u \in Token : Parse(u).valid}}

LEMMA ParsedIsRange == \A x \in Parsed : IsRange(x)
BY TokenMeans DEF Parsed, Means

Keep(out, t) == IF Parse(t).valid THEN Append(out, Parse(t)) ELSE out
IsParse(s, g) ==
  g = [u \in SUBSET DOMAIN s |->
         IF u = {} THEN <<>> ELSE LET x == Max(u) IN Keep(g[u \ {x}], s[x])]

LEMMA KeepIs ==
  ASSUME NEW out \in Seq(Parsed), NEW t \in Token
  PROVE  Keep(out, t) \in Seq(Parsed)
<1>1. Parse(t).valid => Parse(t) \in Parsed
  BY DEF Parsed
<1> QED
  BY <1>1 DEF Keep

LEMMA ParseExists ==
  ASSUME NEW s \in Seq(Token)
  PROVE  \E g : IsParse(s, g)
<1> DEFINE n == Len(s)
           V == Seq(Parsed)
           step == [p \in (1 .. n) \X V |-> Keep(p[2], s[p[1]])]
<1>1. n \in Nat /\ DOMAIN s = 1 .. n /\ <<>> \in V /\ \A i \in 1 .. n : s[i] \in Token
  OBVIOUS
<1>2. step \in [(1 .. n) \X V -> V]
  BY <1>1, KeepIs
<1>3. \A i \in 1 .. n, out \in V : step[<<i, out>>] = Keep(out, s[i])
  OBVIOUS
<1> HIDE DEF n, V, step
<1>4. PICK f \in [SUBSET (1 .. n) -> V] : IsFold(n, <<>>, step, f)
  BY <1>1, <1>2, FoldExists
<1>5. ASSUME NEW u \in SUBSET (1 .. n)
      PROVE  f[u] = IF u = {} THEN <<>> ELSE LET x == Max(u) IN Keep(f[u \ {x}], s[x])
  <2>1. CASE u = {}
    BY <1>4, <2>1 DEF IsFold
  <2>2. CASE u # {}
    <3>1. Max(u) \in 1 .. n /\ u \ {Max(u)} \in SUBSET (1 .. n)
      BY <1>1, <2>2, MaxIs
    <3>2. f[u] = step[<<Max(u), f[u \ {Max(u)}]>>]
      BY <1>4, <2>2 DEF IsFold
    <3>3. f[u \ {Max(u)}] \in V
      BY <1>4, <3>1
    <3> QED
      BY <1>3, <2>2, <3>1, <3>2, <3>3
  <2> QED
    BY <2>1, <2>2
<1>6. f = [u \in SUBSET (1 .. n) |->
             IF u = {} THEN <<>> ELSE LET x == Max(u) IN Keep(f[u \ {x}], s[x])]
  BY <1>4, <1>5
<1>7. IsParse(s, f)
  BY <1>1, <1>6 DEF IsParse
<1> QED
  BY <1>7

LEMMA ParseListIs ==
  ASSUME NEW s \in Seq(Token)
  PROVE  /\ ParseList(s) \in Seq(Parsed)
         /\ Len(s) = 1 =>
              ParseList(s) = IF Parse(s[1]).valid THEN <<Parse(s[1])>> ELSE <<>>
<1> DEFINE g == CHOOSE h : IsParse(s, h)
           n == Len(s)
           S == {k \in Nat : k <= n => g[1 .. k] \in Seq(Parsed)}
<1>1. ParseList(s) = g[DOMAIN s]
  BY DEF ParseList, FoldLeft, MapThenFoldSet, IsParse, Keep
<1>2. IsParse(s, g)
  BY ParseExists
<1>3. n \in Nat /\ DOMAIN s = 1 .. n /\ \A i \in 1 .. n : s[i] \in Token
  OBVIOUS
<1> HIDE DEF g, n
<1>4. g[1 .. 0] = <<>>
  <2>1. 1 .. 0 = {}
    OBVIOUS
  <2> QED
    BY <1>2, <2>1 DEF IsParse
<1>5. ASSUME NEW k \in Nat, k + 1 <= n
      PROVE  g[1 .. k + 1] = Keep(g[1 .. k], s[k + 1]) /\ s[k + 1] \in Token
  <2>1. /\ 1 .. k + 1 \in SUBSET (1 .. n) /\ 1 .. k + 1 # {}
        /\ Max(1 .. k + 1) = k + 1 /\ (1 .. k + 1) \ {k + 1} = 1 .. k
    BY <1>3, <1>5, LastOfInterval
  <2> DEFINE u == 1 .. k + 1
  <2>3. u \ {Max(u)} = 1 .. k
    BY <2>1
  <2>4. u \in SUBSET DOMAIN s /\ u # {} /\ Max(u) = k + 1
    BY <1>3, <2>1
  <2> HIDE DEF u
  <2>5. g[u] = Keep(g[u \ {Max(u)}], s[Max(u)])
    BY <1>2, <2>4 DEF IsParse
  <2>6. g[u] = Keep(g[1 .. k], s[k + 1])
    BY <2>3, <2>4, <2>5
  <2>7. s[k + 1] \in Token
    BY <1>3, <1>5
  <2> QED
    BY <2>6, <2>7 DEF u
<1>6. S = Nat
  <2>1. 0 \in S
    <3>1. <<>> \in Seq(Parsed)
      OBVIOUS
    <3> QED
      BY <1>4, <3>1
  <2>3. S \in SUBSET Nat
    OBVIOUS
  <2>2. ASSUME NEW k \in S
        PROVE  k + 1 \in S
    <3> SUFFICES ASSUME k + 1 <= n
                 PROVE  g[1 .. k + 1] \in Seq(Parsed)
      BY <2>3
    <3>1. k \in Nat /\ g[1 .. k] \in Seq(Parsed)
      <4>1. k \in Nat
        <5> HIDE DEF S
        <5> QED
          BY <2>3
      <4>2. k <= n
        BY <1>3, <4>1
      <4> QED
        BY <4>1, <4>2
    <3> HIDE DEF S
    <3> QED
      BY <1>5, <3>1, KeepIs
  <2> HIDE DEF S
  <2> QED
    BY <2>1, <2>2, <2>3, NatSet
<1>7. g[1 .. n] \in Seq(Parsed)
  BY <1>3, <1>6
<1>8. ASSUME n = 1
      PROVE  g[1 .. n] = IF Parse(s[1]).valid THEN <<Parse(s[1])>> ELSE <<>>
  <2>1. g[1 .. 0 + 1] = Keep(g[1 .. 0], s[0 + 1])
    <3>1. 0 \in Nat /\ 0 + 1 <= n
      BY <1>8
    <3> QED
      BY <1>5, <3>1
  <2>2. g[1 .. 1] = Keep(<<>>, s[1])
    BY <1>4, <2>1
  <2> QED
    BY <1>8, <2>2 DEF Keep
<1> QED
  BY <1>1, <1>3, <1>7, <1>8 DEF n

-----------------------------------------------------------------------------
(* What the loops go through: the first k addresses of a range. *)

Count(x) == IF x.first.v6 /\ RangeSize(x) > Cap THEN Cap ELSE RangeSize(x)
At(x, k) == [x.first EXCEPT !.n = @ + k]
Run(x, k) == [i \in 1 .. k |-> At(x, i - 1)]

LEMMA RangeIs ==
  ASSUME NEW x, IsRange(x)
  PROVE  /\ x.first.v6 \in BOOLEAN /\ x.last.v6 = x.first.v6
         /\ x.first.n \in Nat /\ x.last.n \in Nat /\ x.first.n <= x.last.n
         /\ x.last.n < Pow2(Bits(x.first.v6)) /\ Pow2(Bits(x.first.v6)) \in Nat \ {0}
         /\ RangeSize(x) = x.last.n - x.first.n + 1
         /\ Count(x) \in 1 .. RangeSize(x) /\ RangeSize(x) \in Nat \ {0}
         /\ Cap \in Nat \ {0}
<1>1. /\ x.first \in Addresses /\ x.last \in Addresses
      /\ x.last.v6 = x.first.v6 /\ x.first.n <= x.last.n
  BY DEF IsRange
<1>2. /\ x.first.v6 \in BOOLEAN /\ x.first.n \in 0 .. Pow2(Bits(x.first.v6)) - 1
      /\ x.last.n \in 0 .. Pow2(Bits(x.first.v6)) - 1
      /\ Pow2(Bits(x.first.v6)) \in Nat \ {0}
  BY <1>1, AddressIs
<1>3. Cap \in Nat \ {0}
  BY WidthsAssumption
<1>4. RangeSize(x) = x.last.n - x.first.n + 1
  BY DEF RangeSize
<1>5. RangeSize(x) \in Nat \ {0}
  BY <1>1, <1>2, <1>4
<1>6. Count(x) \in 1 .. RangeSize(x)
  BY <1>3, <1>5 DEF Count
<1> QED
  BY <1>1, <1>2, <1>3, <1>4, <1>5, <1>6

LEMMA AtIs ==
  ASSUME NEW x, IsRange(x), NEW k \in 0 .. Count(x) - 1
  PROVE  /\ At(x, k) = [v6 |-> x.first.v6, n |-> x.first.n + k]
         /\ At(x, k) \in Addresses
         /\ x.first.n + k \in 0 .. Pow2(Bits(x.first.v6)) - 1
         /\ x.first.n + k <= x.last.n
<1>1. x.first = [v6 |-> x.first.v6, n |-> x.first.n]
  BY AddressIs DEF IsRange
<1>2. At(x, k) = [v6 |-> x.first.v6, n |-> x.first.n + k]
  BY <1>1 DEF At
<1>3. x.first.n + k \in 0 .. Pow2(Bits(x.first.v6)) - 1 /\ x.first.n + k <= x.last.n
  BY RangeIs
<1>4. x.first.v6 \in BOOLEAN
  BY RangeIs
<1>5. [v6 |-> x.first.v6, n |-> x.first.n + k] \in Addresses
  BY <1>3, <1>4, AddressIs
<1> QED
  BY <1>2, <1>3, <1>5

LEMMA RunIs ==
  ASSUME NEW x, IsRange(x)
  PROVE  /\ \A k \in 0 .. Count(x) : Run(x, k) \in Seq(Addresses) /\ Len(Run(x, k)) = k
         /\ \A k \in 0 .. Count(x) - 1 : Run(x, k + 1) = Append(Run(x, k), At(x, k))
         /\ Run(x, 0) = <<>>
         /\ AddressesOf(x) = Run(x, Count(x))
<1>1. Count(x) \in Nat
  BY RangeIs
<1>2. ASSUME NEW k \in 0 .. Count(x)
      PROVE  Run(x, k) \in Seq(Addresses) /\ Len(Run(x, k)) = k
  <2>1. k \in Nat /\ \A i \in 1 .. k : i - 1 \in 0 .. Count(x) - 1
    BY <1>1
  <2>2. \A i \in 1 .. k : At(x, i - 1) \in Addresses
    BY <2>1, AtIs
  <2> QED
    BY <2>1, <2>2 DEF Run
<1>3. ASSUME NEW k \in 0 .. Count(x) - 1
      PROVE  Run(x, k + 1) = Append(Run(x, k), At(x, k))
  <2>1. k \in Nat /\ k \in 0 .. Count(x) /\ k + 1 \in 0 .. Count(x)
    BY <1>1
  <2>2. /\ Run(x, k) \in Seq(Addresses) /\ Len(Run(x, k)) = k
        /\ Run(x, k + 1) \in Seq(Addresses) /\ Len(Run(x, k + 1)) = k + 1
    BY <1>2, <2>1
  <2>3. \A i \in 1 .. k : Run(x, k)[i] = At(x, i - 1) /\ Run(x, k + 1)[i] = At(x, i - 1)
    BY <2>1 DEF Run
  <2>4. Run(x, k + 1)[k + 1] = At(x, k)
    <3>1. k + 1 \in 1 .. k + 1 /\ (k + 1) - 1 = k
      BY <2>1
    <3> QED
      BY <3>1 DEF Run
  <2>5. At(x, k) \in Addresses
    BY AtIs
  <2> QED
    BY <2>1, <2>2, <2>3, <2>4, <2>5
<1>4. Run(x, 0) = <<>>
  BY DEF Run
<1>5. AddressesOf(x) = Run(x, Count(x))
  BY DEF AddressesOf, Run, Count, At
<1> QED
  BY <1>2, <1>3, <1>4, <1>5

(* The tests at the end of an iteration, and the step to the next address. *)
LEMMA StepIs ==
  ASSUME NEW x, IsRange(x), NEW k \in 0 .. Count(x) - 1
  PROVE  /\ (AtCap(x, k + 1) \/ AtLast(x, At(x, k))) <=> k + 1 = Count(x)
         /\ AtLast(x, At(x, k)) <=> k + 1 = RangeSize(x)
         /\ k + 1 < RangeSize(x) => NextAddress(At(x, k)) = At(x, k + 1)
<1>1. /\ At(x, k) = [v6 |-> x.first.v6, n |-> x.first.n + k] /\ x.first.n + k <= x.last.n
  BY AtIs
<1>2. /\ x.first.v6 \in BOOLEAN /\ x.last.v6 = x.first.v6
      /\ x.first.n \in Nat /\ x.last.n \in Nat /\ x.first.n <= x.last.n
      /\ x.last.n < Pow2(Bits(x.first.v6)) /\ Pow2(Bits(x.first.v6)) \in Nat \ {0}
      /\ RangeSize(x) = x.last.n - x.first.n + 1 /\ k \in Nat
      /\ Count(x) \in 1 .. RangeSize(x) /\ Cap \in Nat \ {0}
  BY RangeIs
<1>3. At(x, k).v6 = x.first.v6 /\ At(x, k).n = x.first.n + k
  BY <1>1
<1>4. AtLast(x, At(x, k)) <=> k + 1 = RangeSize(x)
  <2>1. Precedes(At(x, k), x.last) <=> x.first.n + k < x.last.n
    BY <1>2, <1>3 DEF Precedes
  <2>2. ~(x.first.n + k < x.last.n) <=> k + 1 = RangeSize(x)
    BY <1>1, <1>2
  <2> QED
    BY <2>1, <2>2 DEF AtLast
<1>5. AtCap(x, k + 1) <=> x.first.v6 /\ k + 1 >= Cap
  BY <1>2 DEF AtCap, RangeCap
<1>6. (AtCap(x, k + 1) \/ AtLast(x, At(x, k))) <=> k + 1 = Count(x)
  <2>1. CASE x.first.v6 /\ RangeSize(x) > Cap
    <3>1. Count(x) = Cap
      BY <2>1 DEF Count
    <3> QED
      BY <1>2, <1>4, <1>5, <2>1, <3>1
  <2>2. CASE ~(x.first.v6 /\ RangeSize(x) > Cap)
    <3>1. Count(x) = RangeSize(x)
      BY <2>2 DEF Count
    <3> QED
      BY <1>2, <1>4, <1>5, <2>2, <3>1
  <2> QED
    BY <2>1, <2>2
<1>7. ASSUME k + 1 < RangeSize(x)
      PROVE  NextAddress(At(x, k)) = At(x, k + 1)
  <2> DEFINE a == At(x, k)
             v == x.first.n + k
  <2>1. v \in Nat /\ v + 1 \in Nat /\ v + 1 <= x.last.n
    BY <1>2, <1>7
  <2>2. ~(~a.v6 /\ a.n = Pow2(V4Bits) - 1)
    <3>1. CASE ~x.first.v6
      <4>1. Bits(x.first.v6) = V4Bits
        BY <3>1 DEF Bits
      <4>2. x.last.n < Pow2(V4Bits)
        BY <1>2, <4>1
      <4>3. v < Pow2(V4Bits) - 1
        <5>1. Pow2(V4Bits) \in Int
          BY <1>2, <4>1
        <5> HIDE DEF v
        <5> QED
          BY <1>2, <2>1, <4>2, <5>1
      <4>4. a.n = v /\ v \in Int
        BY <1>3, <2>1
      <4> HIDE DEF v, a
      <4> QED
        BY <4>3, <4>4
    <3>2. CASE x.first.v6
      BY <1>3, <3>2
    <3> QED
      BY <3>1, <3>2
  <2>3. (v + 1) % Pow2(Bits(x.first.v6)) = v + 1
    <3> DEFINE m == Pow2(Bits(x.first.v6))
    <3>1. v + 1 < m /\ m \in Nat \ {0} /\ v + 1 = 0 * m + (v + 1)
      BY <1>2, <2>1
    <3> HIDE DEF m, v
    <3>2. v + 1 = (v + 1) % m
      BY <2>1, <3>1, DivideUnique
    <3> QED
      BY <3>2 DEF m
  <2>4. NextAddress(a) = [a EXCEPT !.n = (a.n + 1) % Pow2(Bits(a.v6))]
    BY <2>2 DEF NextAddress
  <2>5. [a EXCEPT !.n = (a.n + 1) % Pow2(Bits(a.v6))] = [v6 |-> x.first.v6, n |-> v + 1]
    BY <1>1, <1>3, <2>3
  <2>6. At(x, k + 1) = [v6 |-> x.first.v6, n |-> v + 1]
    <3>1. x.first = [v6 |-> x.first.v6, n |-> x.first.n]
      BY AddressIs DEF IsRange
    <3>2. At(x, k + 1) = [v6 |-> x.first.v6, n |-> x.first.n + (k + 1)]
      BY <3>1 DEF At
    <3>3. x.first.n + (k + 1) = v + 1
      BY <1>2
    <3> QED
      BY <3>2, <3>3
  <2> QED
    BY <2>4, <2>5, <2>6
<1> QED
  BY <1>4, <1>6, <1>7

-----------------------------------------------------------------------------
(* The addresses of the first k targets, and how many they are. *)

Parts(ts) == [i \in DOMAIN ts |-> AddressesOf(ts[i])]
IsFlat(seqs, f) ==
  f = [i \in 1 .. Len(seqs) |-> IF i = 1 THEN seqs[i] ELSE f[i - 1] \o seqs[i]]
Flat(seqs) == CHOOSE f : IsFlat(seqs, f)
Upto(ts, k) == IF k = 0 THEN <<>> ELSE Flat(Parts(ts))[k]

LEMMA PartsIs ==
  ASSUME NEW ts \in Seq(Parsed)
  PROVE  /\ Len(ts) \in Nat /\ DOMAIN ts = 1 .. Len(ts) /\ \A i \in 1 .. Len(ts) : IsRange(ts[i])
         /\ Parts(ts) \in Seq(Seq(Addresses)) /\ Len(Parts(ts)) = Len(ts)
         /\ \A i \in 1 .. Len(ts) : Parts(ts)[i] = AddressesOf(ts[i])
                                    /\ AddressesOf(ts[i]) \in Seq(Addresses)
<1>1. Len(ts) \in Nat /\ DOMAIN ts = 1 .. Len(ts) /\ \A i \in 1 .. Len(ts) : ts[i] \in Parsed
  OBVIOUS
<1>2. \A i \in 1 .. Len(ts) : IsRange(ts[i])
  BY <1>1, ParsedIsRange
<1>3. ASSUME NEW i \in 1 .. Len(ts)
      PROVE  AddressesOf(ts[i]) \in Seq(Addresses)
  <2>1. Count(ts[i]) \in Nat /\ Count(ts[i]) \in 0 .. Count(ts[i])
    BY <1>2, RangeIs
  <2> QED
    BY <1>2, <2>1, RunIs
<1> QED
  BY <1>1, <1>2, <1>3 DEF Parts

LEMMA FlatExists ==
  ASSUME NEW seqs \in Seq(Seq(Addresses))
  PROVE  \E f : IsFlat(seqs, f)
<1> DEFINE n == Len(seqs)
           V == Seq(Addresses)
           step == [p \in (1 .. n) \X V |-> p[2] \o seqs[p[1]]]
<1>1. n \in Nat /\ <<>> \in V /\ \A i \in 1 .. n : seqs[i] \in V
  OBVIOUS
<1>2. step \in [(1 .. n) \X V -> V]
  <2>1. \A p \in (1 .. n) \X V : p[2] \in Seq(Addresses) /\ seqs[p[1]] \in Seq(Addresses)
    OBVIOUS
  <2> QED
    BY <2>1
<1>3. \A i \in 1 .. n, out \in V : step[<<i, out>>] = out \o seqs[i]
  OBVIOUS
<1> HIDE DEF n, V, step
<1>4. PICK f \in [0 .. n -> V] : IsChain(n, <<>>, step, f)
  BY <1>1, <1>2, ChainExists
<1> DEFINE g == [i \in 1 .. n |-> f[i]]
<1>5. ASSUME NEW i \in 1 .. n
      PROVE  g[i] = IF i = 1 THEN seqs[i] ELSE g[i - 1] \o seqs[i]
  <2>1. i - 1 \in 0 .. n /\ f[i - 1] \in V
    BY <1>1, <1>4
  <2>2. f[i] = f[i - 1] \o seqs[i]
    BY <1>3, <1>4, <2>1 DEF IsChain
  <2>3. CASE i = 1
    <3>1. f[i - 1] = <<>> /\ seqs[i] \in Seq(Addresses)
      BY <1>1, <1>4, <2>3 DEF V, IsChain
    <3>2. <<>> \o seqs[i] = seqs[i]
      BY <3>1
    <3> QED
      BY <2>2, <2>3, <3>1, <3>2
  <2>4. CASE i # 1
    <3>1. i - 1 \in 1 .. n
      BY <1>1, <2>4
    <3> QED
      BY <2>2, <2>4, <3>1
  <2> QED
    BY <2>3, <2>4
<1>6. IsFlat(seqs, g)
  <2>1. g = [i \in 1 .. n |-> g[i]]
    OBVIOUS
  <2> HIDE DEF g
  <2>2. g = [i \in 1 .. n |-> IF i = 1 THEN seqs[i] ELSE g[i - 1] \o seqs[i]]
    BY <1>5, <2>1
  <2> QED
    BY <2>2 DEF IsFlat, n
<1> QED
  BY <1>6

LEMMA TwoSeqs ==
  ASSUME NEW V, NEW a \in Seq(V), NEW b \in Seq(V)
  PROVE  a \o b \in Seq(V) /\ Len(a \o b) = Len(a) + Len(b)
OBVIOUS

LEMMA UptoIs ==
  ASSUME NEW ts \in Seq(Parsed)
  PROVE  /\ \A k \in 0 .. Len(ts) : Upto(ts, k) \in Seq(Addresses)
         /\ Upto(ts, 0) = <<>>
         /\ \A k \in 1 .. Len(ts) : Upto(ts, k) = Upto(ts, k - 1) \o AddressesOf(ts[k])
         /\ AddressesOfAll(ts) = Upto(ts, Len(ts))
<1> DEFINE n == Len(ts)
           seqs == Parts(ts)
           S == {k \in Nat : k <= n => Upto(ts, k) \in Seq(Addresses)}
<1>1. /\ n \in Nat /\ seqs \in Seq(Seq(Addresses)) /\ Len(seqs) = n /\ DOMAIN ts = 1 .. n
      /\ \A i \in 1 .. n : seqs[i] = AddressesOf(ts[i]) /\ AddressesOf(ts[i]) \in Seq(Addresses)
  BY PartsIs
<1>2. IsFlat(seqs, Flat(seqs))
  BY <1>1, FlatExists DEF Flat
<1>3. Upto(ts, 0) = <<>>
  BY DEF Upto
<1>4. AddressesOfAll(ts) = Upto(ts, n)
  <2>1. AddressesOfAll(ts) = FlattenSeq(seqs)
    BY DEF AddressesOfAll, Parts
  <2>2. CASE n = 0
    <3>1. FlattenSeq(seqs) = seqs
      BY <1>1, <2>2 DEF FlattenSeq
    <3>2. seqs = <<>>
      BY <1>1, <2>2
    <3> QED
      BY <1>3, <2>1, <2>2, <3>1, <3>2
  <2>3. CASE n # 0
    <3>1. FlattenSeq(seqs) = Flat(seqs)[Len(seqs)]
      BY <1>1, <2>3 DEF FlattenSeq, Flat, IsFlat
    <3> QED
      BY <1>1, <2>1, <2>3, <3>1 DEF Upto
  <2> QED
    BY <2>2, <2>3
<1> HIDE DEF n, seqs
<1>5. ASSUME NEW k \in 1 .. n
      PROVE  Upto(ts, k) = Upto(ts, k - 1) \o seqs[k]
  <2>1. Flat(seqs)[k] = IF k = 1 THEN seqs[k] ELSE Flat(seqs)[k - 1] \o seqs[k]
    BY <1>1, <1>2 DEF IsFlat
  <2>2. Upto(ts, k) = Flat(seqs)[k]
    BY DEF Upto, seqs
  <2>3. CASE k = 1
    <3>1. seqs[k] \in Seq(Addresses)
      BY <1>1
    <3>2. <<>> \o seqs[k] = seqs[k]
      BY <3>1
    <3>3. Upto(ts, k - 1) = <<>>
      BY <1>3, <2>3
    <3> QED
      BY <2>1, <2>2, <2>3, <3>2, <3>3
  <2>4. CASE k # 1
    <3>1. Upto(ts, k - 1) = Flat(seqs)[k - 1]
      BY <2>4 DEF Upto, seqs
    <3> QED
      BY <2>1, <2>2, <2>4, <3>1
  <2> QED
    BY <2>3, <2>4
<1>6. S = Nat
  <2>1. 0 \in S
    <3>1. <<>> \in Seq(Addresses)
      OBVIOUS
    <3>2. Upto(ts, 0) \in Seq(Addresses)
      BY <1>3, <3>1
    <3> QED
      BY <3>2
  <2>2. S \in SUBSET Nat
    OBVIOUS
  <2>3. ASSUME NEW k \in S
        PROVE  k + 1 \in S
    <3>1. k \in Nat
      <4> HIDE DEF S
      <4> QED
        BY <2>2
    <3>2. ASSUME k + 1 <= n
          PROVE  Upto(ts, k + 1) \in Seq(Addresses)
      <4>1. k <= n /\ k + 1 \in 1 .. n /\ (k + 1) - 1 = k
        BY <1>1, <3>1, <3>2
      <4>2. Upto(ts, k) \in Seq(Addresses)
        BY <3>1, <4>1
      <4>3. Upto(ts, k + 1) = Upto(ts, k) \o seqs[k + 1] /\ seqs[k + 1] \in Seq(Addresses)
        BY <1>1, <1>5, <4>1
      <4> QED
        BY <4>2, <4>3, TwoSeqs
    <3> QED
      BY <3>1, <3>2
  <2> HIDE DEF S
  <2> QED
    BY <2>1, <2>2, <2>3, NatSet
<1>7. ASSUME NEW k \in 0 .. n
      PROVE  Upto(ts, k) \in Seq(Addresses)
  <2>1. k \in Nat /\ k <= n
    BY <1>1
  <2>2. k \in S
    BY <1>6, <2>1
  <2> QED
    BY <2>1, <2>2
<1> QED
  BY <1>1, <1>3, <1>4, <1>5, <1>7 DEF n

(* hostCount() of a range it counts well, cut to the cap. *)
LEMMA CountIs ==
  ASSUME NEW x, IsRange(x), CountedWell(x)
  PROVE  CappedCount(x) = Count(x)
<1> DEFINE m == Pow2(CountBits)
           a == x.first.n
           b == x.last.n
           qa == a \div m
           qb == b \div m
           la == a % m
           lb == b % m
<1>1. /\ x.first.v6 \in BOOLEAN /\ a \in Nat /\ b \in Nat /\ a <= b
      /\ RangeSize(x) = b - a + 1 /\ RangeSize(x) \in Nat \ {0} /\ Cap \in Nat \ {0}
  BY RangeIs
<1>2. m \in Nat \ {0} /\ Cap <= m - 1
  <2>1. CountBits \in Nat /\ Cap \in 1 .. (2 ^ CountBits) - 1
    BY WidthsAssumption
  <2>2. m \in Nat \ {0}
    BY <2>1, PowerPositive
  <2>3. Cap \in 1 .. m - 1
    BY <2>1 DEF Pow2
  <2> HIDE DEF m
  <2> QED
    BY <2>2, <2>3
<1>3. CASE ~x.first.v6
  <2>1. CappedCount(x) = b - a + 1
    BY <1>3 DEF CappedCount, HostCount, CountV4
  <2> QED
    BY <1>1, <1>3, <2>1 DEF Count
<1>4. CASE x.first.v6
  <2>1. /\ HostCount(x) = IF qa # qb THEN m - 1 ELSE (lb - la + 1) % m
        /\ CappedCount(x) = IF HostCount(x) > Cap THEN Cap ELSE HostCount(x)
        /\ Count(x) = IF RangeSize(x) > Cap THEN Cap ELSE RangeSize(x)
    BY <1>4 DEF HostCount, HugeCount, CappedCount, Count
  <2>2. /\ ~(la = 0 /\ RangeSize(x) = m)
        /\ qa # qb => RangeSize(x) >= Cap
    BY <1>4 DEF CountedWell, WrapsToZero, Straddles
  <2>3. /\ qa \in Nat /\ la \in 0 .. m - 1 /\ a = qa * m + la
        /\ qb \in Nat /\ lb \in 0 .. m - 1 /\ b = qb * m + lb
    <3> HIDE DEF a, b, m
    <3> QED
      BY <1>1, <1>2, Divide
  <2> HIDE DEF m, a, b, qa, qb, la, lb
  <2>4. CASE qa # qb
    BY <1>1, <1>2, <2>1, <2>2, <2>4
  <2>5. CASE qa = qb
    <3>1. lb - la = b - a
      <4>1. qa * m \in Nat /\ b = qa * m + lb /\ a = qa * m + la
        BY <1>2, <2>3, <2>5
      <4> QED
        BY <2>3, <4>1
    <3>2. lb - la + 1 = RangeSize(x) /\ RangeSize(x) <= m
      BY <1>1, <1>2, <2>3, <3>1
    <3>3. RangeSize(x) # m
      BY <1>2, <2>2, <2>3, <3>2
    <3>4. RangeSize(x) % m = RangeSize(x)
      <4>1. RangeSize(x) < m /\ RangeSize(x) = 0 * m + RangeSize(x)
        BY <1>1, <1>2, <3>2, <3>3
      <4> QED
        BY <1>1, <1>2, <4>1, DivideUnique
    <3> QED
      BY <2>1, <2>5, <3>2, <3>4
  <2> QED
    BY <2>4, <2>5
<1> QED
  BY <1>1, <1>3, <1>4

(* A range across the end of a low half counts as Cap hosts.                 *)
LEMMA StraddlingCount ==
  ASSUME NEW x, Straddles(x)
  PROVE  CappedCount(x) = Cap
<1> DEFINE m == Pow2(CountBits)
<1>1. m \in Nat /\ Cap \in Nat /\ Cap <= m - 1
  <2>1. m \in Nat \ {0}
    BY PowerPositive, WidthsAssumption
  <2>2. Cap \in 1 .. m - 1
    BY WidthsAssumption DEF Pow2
  <2> HIDE DEF m
  <2> QED
    BY <2>1, <2>2
<1>2. x.first.v6 /\ HostCount(x) = m - 1
  BY DEF Straddles, HostCount, HugeCount
<1> HIDE DEF m
<1> QED
  BY <1>1, <1>2 DEF CappedCount

IsTotal(ts, g) ==
  g = [u \in SUBSET DOMAIN ts |->
         IF u = {} THEN 0 ELSE LET x == Max(u) IN AddQuint64(g[u \ {x}], CappedCount(ts[x]))]

LEMMA TotalExists ==
  ASSUME NEW ts \in Seq(Parsed), \A i \in 1 .. Len(ts) : CappedCount(ts[i]) \in Nat
  PROVE  \E g : IsTotal(ts, g)
<1> DEFINE n == Len(ts)
           step == [p \in (1 .. n) \X Nat |-> AddQuint64(p[2], CappedCount(ts[p[1]]))]
<1>1. n \in Nat /\ DOMAIN ts = 1 .. n
  OBVIOUS
<1>2. step \in [(1 .. n) \X Nat -> Nat]
  <2>1. Pow2(CountBits) \in Nat \ {0}
    BY PowerPositive, WidthsAssumption
  <2>2. ASSUME NEW i \in 1 .. n, NEW sum \in Nat
        PROVE  AddQuint64(sum, CappedCount(ts[i])) \in Nat
    <3>1. sum + CappedCount(ts[i]) \in Nat
      OBVIOUS
    <3>2. (sum + CappedCount(ts[i])) % Pow2(CountBits) \in 0 .. Pow2(CountBits) - 1
      BY <2>1, <3>1, Divide
    <3> QED
      BY <2>1, <3>2 DEF AddQuint64
  <2>3. \A p \in (1 .. n) \X Nat : p[1] \in 1 .. n /\ p[2] \in Nat
    OBVIOUS
  <2> QED
    BY <2>2, <2>3
<1>3. \A i \in 1 .. n, sum \in Nat : step[<<i, sum>>] = AddQuint64(sum, CappedCount(ts[i]))
  OBVIOUS
<1> HIDE DEF n, step
<1>4. PICK f \in [SUBSET (1 .. n) -> Nat] : IsFold(n, 0, step, f)
  BY <1>1, <1>2, FoldExists
<1>5. ASSUME NEW u \in SUBSET (1 .. n)
      PROVE  f[u] = IF u = {} THEN 0
                    ELSE LET x == Max(u) IN AddQuint64(f[u \ {x}], CappedCount(ts[x]))
  <2>1. CASE u = {}
    BY <1>4, <2>1 DEF IsFold
  <2>2. CASE u # {}
    <3>1. Max(u) \in 1 .. n /\ u \ {Max(u)} \in SUBSET (1 .. n)
      BY <1>1, <2>2, MaxIs
    <3>2. f[u] = step[<<Max(u), f[u \ {Max(u)}]>>]
      BY <1>4, <2>2 DEF IsFold
    <3>3. f[u \ {Max(u)}] \in Nat
      BY <1>4, <3>1
    <3> QED
      BY <1>3, <2>2, <3>1, <3>2, <3>3
  <2> QED
    BY <2>1, <2>2
<1>6. f = [u \in SUBSET (1 .. n) |->
             IF u = {} THEN 0
             ELSE LET x == Max(u) IN AddQuint64(f[u \ {x}], CappedCount(ts[x]))]
  BY <1>4, <1>5
<1>7. IsTotal(ts, f)
  BY <1>1, <1>6 DEF IsTotal
<1> QED
  BY <1>7

LEMMA AddModulo ==
  ASSUME NEW a \in Nat, NEW b \in Nat, NEW m \in Nat \ {0}
  PROVE  ((a % m) + b) % m = (a + b) % m
<1> DEFINE q == a \div m
           s == a % m
           p == (s + b) \div m
           t == (s + b) % m
<1>1. q \in Nat /\ s \in 0 .. m - 1 /\ a = q * m + s
  BY Divide
<1>2. s + b \in Nat
  BY <1>1
<1>3. p \in Nat /\ t \in 0 .. m - 1 /\ s + b = p * m + t
  <2> HIDE DEF s
  <2> QED
    BY <1>2, Divide
<1> HIDE DEF q, s, p, t
<1>4. a + b = (q + p) * m + t
  <2>1. (q + p) * m = q * m + p * m /\ q * m \in Nat /\ p * m \in Nat
    BY <1>1, <1>3
  <2> QED
    BY <1>1, <1>3, <2>1
<1>5. a + b \in Nat /\ q + p \in Nat /\ t \in Nat /\ t < m
  BY <1>1, <1>3
<1>6. t = (a + b) % m
  BY <1>4, <1>5, DivideUnique
<1> QED
  BY <1>6 DEF t, s

LEMMA TotalIs ==
  ASSUME NEW ts \in Seq(Parsed), \A i \in DOMAIN ts : CountedWell(ts[i])
  PROVE  WorkerTotal(ts) = Len(AddressesOfAll(ts)) % Pow2(CountBits)
<1> DEFINE g == CHOOSE h : IsTotal(ts, h)
           n == Len(ts)
           m == Pow2(CountBits)
           S == {k \in Nat : k <= n => g[1 .. k] = Len(Upto(ts, k)) % m}
<1>1. n \in Nat /\ DOMAIN ts = 1 .. n /\ \A i \in 1 .. n : IsRange(ts[i]) /\ CountedWell(ts[i])
  BY PartsIs
<1>2. ASSUME NEW i \in 1 .. n
      PROVE  /\ CappedCount(ts[i]) = Len(AddressesOf(ts[i])) /\ CappedCount(ts[i]) \in Nat
             /\ AddressesOf(ts[i]) \in Seq(Addresses)
  <2>1. CappedCount(ts[i]) = Count(ts[i]) /\ Count(ts[i]) \in Nat
        /\ Count(ts[i]) \in 0 .. Count(ts[i])
    BY <1>1, CountIs, RangeIs
  <2> QED
    BY <1>1, <2>1, RunIs
<1>3. WorkerTotal(ts) = g[DOMAIN ts]
  BY DEF WorkerTotal, FoldLeft, MapThenFoldSet, IsTotal
<1>4. IsTotal(ts, g)
  BY <1>2, TotalExists
<1>5. m \in Nat \ {0}
  BY PowerPositive, WidthsAssumption
<1>6. /\ \A k \in 0 .. n : Upto(ts, k) \in Seq(Addresses)
      /\ Upto(ts, 0) = <<>> /\ AddressesOfAll(ts) = Upto(ts, n)
      /\ \A k \in 1 .. n : Upto(ts, k) = Upto(ts, k - 1) \o AddressesOf(ts[k])
  BY UptoIs
<1> HIDE DEF g, n
<1>7. g[1 .. 0] = 0
  <2>1. 1 .. 0 = {}
    OBVIOUS
  <2> QED
    BY <1>4, <2>1 DEF IsTotal
<1>8. ASSUME NEW k \in Nat, k + 1 <= n
      PROVE  g[1 .. k + 1] = AddQuint64(g[1 .. k], CappedCount(ts[k + 1]))
  <2>1. /\ 1 .. k + 1 \in SUBSET (1 .. n) /\ 1 .. k + 1 # {}
        /\ Max(1 .. k + 1) = k + 1 /\ (1 .. k + 1) \ {k + 1} = 1 .. k
    BY <1>1, <1>8, LastOfInterval
  <2> DEFINE u == 1 .. k + 1
  <2>3. u \ {Max(u)} = 1 .. k
    BY <2>1
  <2>4. u \in SUBSET DOMAIN ts /\ u # {} /\ Max(u) = k + 1
    BY <1>1, <2>1
  <2> HIDE DEF u
  <2>5. g[u] = AddQuint64(g[u \ {Max(u)}], CappedCount(ts[Max(u)]))
    BY <1>4, <2>4 DEF IsTotal
  <2>6. g[u] = AddQuint64(g[1 .. k], CappedCount(ts[k + 1]))
    BY <2>3, <2>4, <2>5
  <2> QED
    BY <2>6 DEF u
<1>9. S = Nat
  <2>1. 0 \in S
    <3>1. Len(<<>>) = 0 /\ 0 % m = 0
      <4> HIDE DEF m
      <4>1. 0 = 0 * m + 0 /\ 0 < m
        BY <1>5
      <4> QED
        BY <1>5, <4>1, DivideUnique
    <3> HIDE DEF m
    <3> QED
      BY <1>6, <1>7, <3>1
  <2>2. S \in SUBSET Nat
    OBVIOUS
  <2>3. ASSUME NEW k \in S
        PROVE  k + 1 \in S
    <3>1. k \in Nat
      <4> HIDE DEF S
      <4> QED
        BY <2>2
    <3>2. ASSUME k + 1 <= n
          PROVE  g[1 .. k + 1] = Len(Upto(ts, k + 1)) % m
      <4>1. k <= n /\ k + 1 \in 1 .. n /\ (k + 1) - 1 = k /\ k \in 0 .. n
        BY <1>1, <3>1, <3>2
      <4>2. g[1 .. k] = Len(Upto(ts, k)) % m
        BY <3>1, <4>1
      <4> HIDE DEF S, m
      <4>3. Upto(ts, k + 1) = Upto(ts, k) \o AddressesOf(ts[k + 1])
        BY <1>6, <4>1
      <4>4. /\ Upto(ts, k) \in Seq(Addresses) /\ AddressesOf(ts[k + 1]) \in Seq(Addresses)
            /\ CappedCount(ts[k + 1]) = Len(AddressesOf(ts[k + 1]))
            /\ CappedCount(ts[k + 1]) \in Nat
        BY <1>2, <1>6, <4>1
      <4>5. Len(Upto(ts, k + 1)) = Len(Upto(ts, k)) + CappedCount(ts[k + 1])
            /\ Len(Upto(ts, k)) \in Nat
        BY <4>3, <4>4, TwoSeqs
      <4>6. g[1 .. k + 1] = (g[1 .. k] + CappedCount(ts[k + 1])) % m
        BY <1>8, <3>1, <3>2 DEF AddQuint64, m
      <4> DEFINE a == Len(Upto(ts, k))
                 b == CappedCount(ts[k + 1])
      <4>7. ((a % m) + b) % m = (a + b) % m
        <5>1. a \in Nat /\ b \in Nat
          BY <4>4, <4>5
        <5> HIDE DEF a, b
        <5> QED
          BY <1>5, <5>1, AddModulo
      <4> QED
        BY <4>2, <4>5, <4>6, <4>7
    <3> QED
      BY <3>1, <3>2
  <2> HIDE DEF S
  <2> QED
    BY <2>1, <2>2, <2>3, NatSet
<1>10. g[1 .. n] = Len(Upto(ts, n)) % m
  <2>1. n \in S /\ n <= n
    <3> HIDE DEF S
    <3> QED
      BY <1>1, <1>9
  <2> QED
    BY <2>1
<1> QED
  BY <1>1, <1>3, <1>6, <1>10

-----------------------------------------------------------------------------
(* The loops: where each stands between two iterations. *)

(* The part of a range that expand(limit) hands out. *)
Share(x, limit) == IF limit \in 1 .. Count(x) THEN limit ELSE Count(x)

Untouched ==
  targets = <<>> /\ visited = <<>> /\ r = 0 /\ produced = 0 /\ maxHosts = 0
BeforeRange ==
  r \in 1 .. Len(targets) + 1 /\ visited = Upto(targets, r - 1)
InsideRange ==
  /\ r \in 1 .. Len(targets)
  /\ produced \in 0 .. Count(targets[r]) - 1
  /\ cur = At(targets[r], produced)
  /\ visited = Upto(targets, r - 1) \o Run(targets[r], produced)
Expanding ==
  /\ r = 0 /\ targets # <<>>
  /\ \E k \in 0 .. Share(targets[1], maxHosts) - 1 :
       /\ cur = At(targets[1], k) /\ visited = Run(targets[1], k)
       /\ produced = IF ExpandCap = 0 THEN 0 ELSE k

TargetInv ==
  /\ text \in Seq(Token) /\ maxHosts \in Nat /\ r \in Nat
  /\ pc \in {"parse", "range", "loop", "expand", "done"}
  /\ pc = "parse" => Untouched
  /\ pc # "parse" => targets = ParseList(text)
  /\ r > 0 => total = WorkerTotal(targets)
  /\ pc = "range" => BeforeRange
  /\ pc = "loop" => InsideRange
  /\ pc = "expand" => Expanding
  /\ Scanned => visited = AddressesOfAll(targets)
  /\ Expanded /\ targets # <<>> => visited = Run(targets[1], Share(targets[1], maxHosts))

LEMMA TargetsAre ==
  ASSUME TargetInv, pc # "parse"
  PROVE  /\ targets \in Seq(Parsed) /\ Len(targets) \in Nat
         /\ \A i \in 1 .. Len(targets) : IsRange(targets[i])
         /\ targets # <<>> => IsRange(targets[1])
<1>1. targets \in Seq(Parsed)
  BY ParseListIs DEF TargetInv
<1>2. Len(targets) \in Nat /\ \A i \in 1 .. Len(targets) : IsRange(targets[i])
  BY <1>1, PartsIs
<1>3. targets # <<>> => 1 \in 1 .. Len(targets)
  BY <1>1
<1> QED
  BY <1>1, <1>2, <1>3

LEMMA FirstIs ==
  ASSUME NEW x, IsRange(x)
  PROVE  At(x, 0) = x.first /\ Run(x, 0) = <<>> /\ 0 \in 0 .. Count(x) - 1
<1>1. x.first = [v6 |-> x.first.v6, n |-> x.first.n]
  BY AddressIs DEF IsRange
<1>2. x.first.n \in Nat /\ 0 \in 0 .. Count(x) - 1
  BY RangeIs
<1>3. At(x, 0) = [v6 |-> x.first.v6, n |-> x.first.n + 0] /\ x.first.n + 0 = x.first.n
  BY <1>2, AtIs
<1> QED
  BY <1>1, <1>2, <1>3, RunIs

LEMMA ShareIs ==
  ASSUME NEW x, IsRange(x), NEW limit \in Nat
  PROVE  Share(x, limit) \in 1 .. Count(x) /\ Count(x) \in Nat \ {0}
<1>1. Count(x) \in Nat \ {0}
  BY RangeIs
<1> QED
  BY <1>1 DEF Share

(* Nothing is left in a parsed range for expand() to skip. *)
LEMMA NothingSkipped ==
  ASSUME NEW x, IsRange(x), NEW k \in 0 .. Count(x) - 1
  PROVE  ~IsNetworkOrBroadcast(At(x, k), x.prefix, x.first)
<1> DEFINE h == V4Bits - x.prefix
           net == Network(x.first.n, h)
           bcast == Broadcast(x.first.n, h)
<1>1. At(x, k).v6 = x.first.v6 /\ At(x, k).n = x.first.n + k /\ x.first.n + k <= x.last.n
  BY AtIs
<1>2. x.first.n \in Nat /\ x.last.n \in Nat /\ k \in Nat
  BY RangeIs
<1>3. ASSUME ~x.first.v6, x.prefix \in 0 .. V4Bits - 2
      PROVE  x.first.n + k # net /\ x.first.n + k # bcast
  <2>1. net < x.first.n /\ x.last.n < bcast
    BY <1>3 DEF IsRange
  <2>2. h \in Nat
    BY <1>3, WidthsAssumption
  <2>3. net \in Nat /\ bcast \in Nat
    <3> HIDE DEF h
    <3> QED
      BY <1>2, <2>2, NetworkIsInterval
  <2> HIDE DEF net, bcast
  <2> QED
    BY <1>1, <1>2, <2>1, <2>3
<1> HIDE DEF net, bcast
<1> QED
  BY <1>1, <1>3 DEF IsNetworkOrBroadcast, net, bcast, h

LEMMA ExpandStepIs ==
  ASSUME NEW x, IsRange(x), NEW limit \in Nat, NEW k \in 0 .. Share(x, limit) - 1,
         NEW most, most = IF ~x.first.v6 THEN limit
                          ELSE IF limit = 0 \/ limit > Cap THEN Cap ELSE limit
  PROVE  /\ most \in Nat
         /\ (most # 0 /\ k + 1 >= most) \/ AtLast(x, At(x, k)) <=> k + 1 = Share(x, limit)
<1>1. /\ Count(x) \in 1 .. RangeSize(x) /\ RangeSize(x) \in Nat \ {0} /\ Cap \in Nat \ {0}
      /\ x.first.v6 \in BOOLEAN
  BY RangeIs
<1>2. Share(x, limit) \in 1 .. Count(x) /\ k \in 0 .. Count(x) - 1 /\ k \in Nat
  BY <1>1, ShareIs
<1>3. AtLast(x, At(x, k)) <=> k + 1 = RangeSize(x)
  BY <1>2, StepIs
<1>4. Share(x, limit) = IF 1 <= limit /\ limit <= Count(x) THEN limit ELSE Count(x)
  BY <1>1 DEF Share
<1>5. Count(x) = IF x.first.v6 /\ RangeSize(x) > Cap THEN Cap ELSE RangeSize(x)
  BY DEF Count
<1>6. k + 1 <= Share(x, limit)
  BY <1>1, <1>2
<1>7. ((most # 0 /\ k + 1 >= most) \/ k + 1 = RangeSize(x)) <=> k + 1 = Share(x, limit)
  <2>1. CASE ~x.first.v6
    BY <1>1, <1>2, <1>4, <1>5, <1>6, <2>1
  <2>2. CASE x.first.v6
    BY <1>1, <1>2, <1>4, <1>5, <1>6, <2>2
  <2> QED
    BY <1>1, <2>1, <2>2
<1>8. most \in Nat
  BY <1>1
<1> QED
  BY <1>3, <1>7, <1>8

LEMMA TargetInit == Init => TargetInv
<1> SUFFICES ASSUME Init
             PROVE  TargetInv
  OBVIOUS
<1>1. text \in Seq(Token)
  BY TextsAssumption DEF Init
<1> QED
  BY <1>1 DEF Init, TargetInv, Untouched, Scanned, Expanded

LEMMA AcceptKeeps ==
  ASSUME TargetInv, Accept
  PROVE  TargetInv'
<1>1. /\ text' \in Seq(Token) /\ maxHosts' \in Nat /\ r' = 1 /\ visited' = <<>>
      /\ targets' = ParseList(text') /\ total' = WorkerTotal(targets')
      /\ pc' = IF targets' = <<>> THEN "done" ELSE "range"
  BY DEF Accept, TargetInv, Untouched
<1>2. targets' \in Seq(Parsed)
  BY <1>1, ParseListIs
<1>3. Upto(targets', 0) = <<>> /\ AddressesOfAll(targets') = Upto(targets', Len(targets'))
  BY <1>2, UptoIs
<1>4. CASE targets' = <<>>
  <2>1. visited' = AddressesOfAll(targets')
    BY <1>1, <1>3, <1>4
  <2> QED
    BY <1>1, <1>4, <2>1 DEF TargetInv, Scanned, Expanded
<1>5. CASE targets' # <<>>
  <2>1. 1 \in 1 .. Len(targets') + 1 /\ 1 - 1 = 0
    BY <1>2
  <2>2. BeforeRange'
    BY <1>1, <1>3, <2>1 DEF BeforeRange
  <2> QED
    BY <1>1, <1>5, <2>2 DEF TargetInv, Scanned, Expanded
<1> QED
  BY <1>4, <1>5

LEMMA EnterRangeKeeps ==
  ASSUME TargetInv, EnterRange
  PROVE  TargetInv'
<1>1. /\ pc = "range" /\ text' = text /\ targets' = targets /\ total' = total /\ r' = r
      /\ maxHosts' = maxHosts /\ visited' = visited
  BY DEF EnterRange
<1>2. /\ text' \in Seq(Token) /\ maxHosts' \in Nat /\ r' \in Nat
      /\ targets' = ParseList(text') /\ (r' > 0 => total' = WorkerTotal(targets'))
      /\ r \in 1 .. Len(targets) + 1 /\ visited = Upto(targets, r - 1)
  BY <1>1 DEF TargetInv, BeforeRange
<1>3. /\ targets \in Seq(Parsed) /\ Len(targets) \in Nat
      /\ \A i \in 1 .. Len(targets) : IsRange(targets[i])
  BY <1>1, TargetsAre
<1>4. CASE r > Len(targets)
  <2>1. r - 1 = Len(targets) /\ r > 0
    BY <1>2, <1>3, <1>4
  <2>2. visited' = AddressesOfAll(targets')
    BY <1>1, <1>2, <1>3, <2>1, UptoIs
  <2>3. pc' = "done"
    BY <1>4 DEF EnterRange
  <2> QED
    BY <1>1, <1>2, <2>1, <2>2, <2>3 DEF TargetInv, Scanned, Expanded
<1>5. CASE ~(r > Len(targets))
  <2>1. r \in 1 .. Len(targets) /\ r - 1 \in 0 .. Len(targets)
    BY <1>2, <1>3, <1>5
  <2>2. pc' = "loop" /\ cur' = targets[r].first /\ produced' = 0
    BY <1>5 DEF EnterRange
  <2>3. At(targets[r], 0) = targets[r].first /\ Run(targets[r], 0) = <<>>
        /\ 0 \in 0 .. Count(targets[r]) - 1
    BY <1>3, <2>1, FirstIs
  <2>4. Upto(targets, r - 1) \in Seq(Addresses)
    BY <1>3, <2>1, UptoIs
  <2>5. Upto(targets, r - 1) \o <<>> = Upto(targets, r - 1)
    BY <2>4
  <2>6. InsideRange'
    BY <1>1, <1>2, <2>1, <2>2, <2>3, <2>5 DEF InsideRange
  <2> QED
    BY <1>1, <1>2, <2>2, <2>6 DEF TargetInv, Scanned, Expanded
<1> QED
  BY <1>4, <1>5

LEMMA AppendToRun ==
  ASSUME NEW a \in Seq(Addresses), NEW b \in Seq(Addresses), NEW c \in Addresses
  PROVE  Append(a \o b, c) = a \o Append(b, c)
OBVIOUS

LEMMA VisitHostKeeps ==
  ASSUME TargetInv, VisitHost
  PROVE  TargetInv'
<1> DEFINE x == targets[r]
           k == produced
           before == Upto(targets, r - 1)
<1>1. /\ pc = "loop" /\ text' = text /\ targets' = targets /\ total' = total
      /\ maxHosts' = maxHosts /\ visited' = Append(visited, cur) /\ produced' = k + 1
  BY DEF VisitHost
<1>2. /\ text' \in Seq(Token) /\ maxHosts' \in Nat /\ r \in Nat
      /\ targets' = ParseList(text') /\ (r > 0 => total' = WorkerTotal(targets'))
      /\ r \in 1 .. Len(targets) /\ k \in 0 .. Count(x) - 1
      /\ cur = At(x, k) /\ visited = before \o Run(x, k)
  BY <1>1 DEF TargetInv, InsideRange
<1>3. /\ targets \in Seq(Parsed) /\ Len(targets) \in Nat /\ IsRange(x)
  BY <1>1, <1>2, TargetsAre
<1>4. Count(x) \in Nat \ {0} /\ Count(x) \in 1 .. RangeSize(x) /\ RangeSize(x) \in Nat
  BY <1>3, RangeIs
<1>5. /\ r - 1 \in 0 .. Len(targets) /\ r \in 0 .. Len(targets) /\ k \in Nat
      /\ k \in 0 .. Count(x) /\ k + 1 \in 0 .. Count(x)
  <2> HIDE DEF x, k
  <2> QED
    BY <1>2, <1>3, <1>4
<1>6. visited' = before \o Run(x, k + 1)
  <2>1. before \in Seq(Addresses) /\ Run(x, k) \in Seq(Addresses) /\ At(x, k) \in Addresses
    BY <1>2, <1>3, <1>5, UptoIs, RunIs, AtIs
  <2>2. Run(x, k + 1) = Append(Run(x, k), At(x, k))
    BY <1>2, <1>3, RunIs
  <2>3. visited' = Append(before \o Run(x, k), At(x, k))
    BY <1>1, <1>2
  <2> DEFINE b == Run(x, k)
             c == At(x, k)
  <2>4. Append(before \o b, c) = before \o Append(b, c)
    <3>1. before \in Seq(Addresses) /\ b \in Seq(Addresses) /\ c \in Addresses
      BY <2>1
    <3> HIDE DEF before, b, c
    <3> QED
      BY <3>1, AppendToRun
  <2> QED
    BY <2>2, <2>3, <2>4
<1>7. (AtCap(x, k + 1) \/ AtLast(x, cur)) <=> k + 1 = Count(x)
  BY <1>2, <1>3, StepIs
<1>8. CASE k + 1 = Count(x)
  <2>1. pc' = "range" /\ r' = r + 1
    BY <1>1, <1>7, <1>8 DEF VisitHost
  <2>2. visited' = Upto(targets, r)
    <3>1. Upto(targets, r) = before \o AddressesOf(x)
      BY <1>2, <1>3, UptoIs
    <3>2. AddressesOf(x) = Run(x, Count(x))
      BY <1>3, RunIs
    <3> QED
      BY <1>6, <1>8, <3>1, <3>2
  <2>3. r + 1 \in 1 .. Len(targets) + 1 /\ (r + 1) - 1 = r /\ r + 1 \in Nat /\ r > 0
    BY <1>2, <1>3
  <2>4. BeforeRange'
    BY <1>1, <2>1, <2>2, <2>3 DEF BeforeRange
  <2> QED
    BY <1>1, <1>2, <2>1, <2>3, <2>4 DEF TargetInv, Scanned, Expanded
<1>9. CASE k + 1 # Count(x)
  <2>1. pc' = "loop" /\ r' = r /\ cur' = NextAddress(cur)
    BY <1>1, <1>7, <1>9 DEF VisitHost
  <2>2. k + 1 \in 0 .. Count(x) - 1 /\ k + 1 < RangeSize(x)
    <3> HIDE DEF k, x
    <3> QED
      BY <1>2, <1>4, <1>5, <1>9
  <2>3. cur' = At(x, k + 1)
    BY <1>2, <1>3, <2>1, <2>2, StepIs
  <2>4. InsideRange'
    BY <1>1, <1>2, <1>6, <2>1, <2>2, <2>3 DEF InsideRange
  <2> QED
    BY <1>1, <1>2, <2>1, <2>4 DEF TargetInv, Scanned, Expanded
<1> QED
  BY <1>8, <1>9

LEMMA BeginExpandKeeps ==
  ASSUME TargetInv, BeginExpand
  PROVE  TargetInv'
<1>1. /\ text' \in Seq(Token) /\ maxHosts' \in Nat /\ r' = 0 /\ produced' = 0 /\ visited' = <<>>
      /\ targets' = ParseList(text')
  BY ExpandCapsAssumption DEF BeginExpand, TargetInv, Untouched
<1>2. targets' \in Seq(Parsed)
  BY <1>1, ParseListIs
<1>3. CASE targets' = <<>>
  <2>1. pc' = "done"
    BY <1>3 DEF BeginExpand
  <2> QED
    BY <1>1, <1>3, <2>1 DEF TargetInv, Scanned, Expanded
<1>4. CASE targets' # <<>>
  <2> DEFINE x == targets'[1]
  <2>1. pc' = "expand" /\ cur' = x.first
    BY <1>4 DEF BeginExpand
  <2>2. IsRange(x)
    <3>1. x \in Parsed
      BY <1>2, <1>4
    <3> QED
      BY <3>1, ParsedIsRange
  <2>3. At(x, 0) = x.first /\ Run(x, 0) = <<>>
    BY <2>2, FirstIs
  <2>4. 0 \in 0 .. Share(x, maxHosts') - 1
    <3>1. Share(x, maxHosts') \in 1 .. Count(x) /\ Count(x) \in Nat
      BY <1>1, <2>2, ShareIs
    <3> HIDE DEF x
    <3> QED
      BY <3>1
  <2>5. Expanding'
    BY <1>1, <1>4, <2>1, <2>3, <2>4 DEF Expanding
  <2> QED
    BY <1>1, <2>1, <2>5 DEF TargetInv, Scanned, Expanded
<1> QED
  BY <1>3, <1>4

LEMMA ExpandHostKeeps ==
  ASSUME TargetInv, ExpandHost
  PROVE  TargetInv'
<1> DEFINE x == targets[1]
<1>1. /\ pc = "expand" /\ text' = text /\ targets' = targets /\ total' = total /\ r' = r
      /\ maxHosts' = maxHosts
  BY DEF ExpandHost
<1>2. /\ text' \in Seq(Token) /\ maxHosts \in Nat /\ r = 0 /\ targets # <<>>
      /\ targets' = ParseList(text')
  BY <1>1 DEF TargetInv, Expanding
<1>3. PICK k \in 0 .. Share(x, maxHosts) - 1 :
        /\ cur = At(x, k) /\ visited = Run(x, k)
        /\ produced = IF ExpandCap = 0 THEN 0 ELSE k
  BY <1>1 DEF TargetInv, Expanding
<1>4. IsRange(x)
  BY <1>1, <1>2, TargetsAre
<1>5. /\ Share(x, maxHosts) \in 1 .. Count(x) /\ Count(x) \in Nat \ {0}
      /\ Count(x) \in 1 .. RangeSize(x) /\ RangeSize(x) \in Nat
  BY <1>2, <1>4, ShareIs, RangeIs
<1>6. k \in Nat /\ k \in 0 .. Count(x) - 1
  <2> HIDE DEF x
  <2> QED
    BY <1>5
<1>7. ~SkipV4
  BY <1>3, <1>4, <1>6, NothingSkipped DEF SkipV4
<1>8. /\ ExpandCap \in Nat
      /\ ((ExpandCap # 0 /\ k + 1 >= ExpandCap) \/ AtLast(x, cur)) <=> k + 1 = Share(x, maxHosts)
  <2>1. ExpandCap = IF ~x.first.v6 THEN maxHosts
                    ELSE IF maxHosts = 0 \/ maxHosts > Cap THEN Cap ELSE maxHosts
    BY DEF ExpandCap
  <2> QED
    BY <1>2, <1>3, <1>4, <2>1, ExpandStepIs
<1>9. visited' = Run(x, k + 1)
  <2>1. visited' = Append(visited, cur)
    BY <1>7 DEF ExpandHost
  <2> QED
    BY <1>3, <1>4, <1>6, <2>1, RunIs
<1>10. produced' = IF ExpandCap = 0 THEN 0 ELSE k + 1
  BY <1>3, <1>7 DEF ExpandHost
<1>11. (~SkipV4 /\ ExpandCap # 0 /\ produced' >= ExpandCap) \/ AtLast(x, cur)
         <=> k + 1 = Share(x, maxHosts)
  BY <1>7, <1>8, <1>10
<1>12. CASE k + 1 = Share(x, maxHosts)
  <2>1. pc' = "done"
    BY <1>11, <1>12 DEF ExpandHost
  <2>2. visited' = Run(targets'[1], Share(targets'[1], maxHosts'))
    BY <1>1, <1>9, <1>12
  <2>3. ~(r' > 0) /\ r' \in Nat /\ maxHosts' \in Nat
    BY <1>1, <1>2
  <2> HIDE DEF x
  <2> QED
    BY <1>2, <2>1, <2>2, <2>3 DEF TargetInv, Scanned, Expanded
<1>13. CASE k + 1 # Share(x, maxHosts)
  <2>1. pc' = "expand" /\ cur' = NextAddress(cur)
    BY <1>1, <1>11, <1>13 DEF ExpandHost
  <2>2. k + 1 \in 0 .. Share(x, maxHosts) - 1 /\ k + 1 < RangeSize(x)
    <3> HIDE DEF x
    <3> QED
      BY <1>5, <1>6, <1>13
  <2>3. cur' = At(x, k + 1)
    BY <1>3, <1>4, <1>6, <2>1, <2>2, StepIs
  <2>4. ExpandCap' = ExpandCap
    BY <1>1 DEF ExpandCap
  <2>5. Expanding'
    BY <1>1, <1>2, <1>9, <1>10, <2>2, <2>3, <2>4 DEF Expanding
  <2> QED
    BY <1>1, <1>2, <2>1, <2>5 DEF TargetInv, Scanned, Expanded
<1> QED
  BY <1>12, <1>13

LEMMA TargetInductive == TargetInv /\ [Next]_vars => TargetInv'
<1> SUFFICES ASSUME TargetInv, [Next]_vars
             PROVE  TargetInv'
  OBVIOUS
<1>1. CASE UNCHANGED vars
  BY <1>1 DEF vars, TargetInv, Untouched, BeforeRange, InsideRange, Expanding, ExpandCap,
              Scanned, Expanded
<1> QED
  BY <1>1, AcceptKeeps, EnterRangeKeeps, VisitHostKeeps, BeginExpandKeeps, ExpandHostKeeps
  DEF Next

(* Every loop stands where the closed form of its range says. *)
THEOREM LoopsInStep == Spec => []TargetInv
BY TargetInit, TargetInductive, PTL DEF Spec

-----------------------------------------------------------------------------
(* What the loops hand out. *)

(* The nested loops of run() end at the last address of each range, or at   *)
(* the cap, for every list of targets.                                      *)
THEOREM LoopsVisitClosedForm == Spec => []VisitsClosedForm
<1>1. TargetInv => VisitsClosedForm
  BY DEF TargetInv, VisitsClosedForm
<1> QED
  BY <1>1, LoopsInStep, PTL

LEMMA OneTarget ==
  ASSUME NEW x, IsRange(x), x \in Parsed
  PROVE  AddressesOfAll(<<x>>) = Run(x, Count(x))
<1> DEFINE ts == <<x>>
<1>1. ts \in Seq(Parsed) /\ Len(ts) = 1 /\ 1 \in 1 .. Len(ts) /\ ts[1] = x
  OBVIOUS
<1>2. AddressesOf(x) = Run(x, Count(x)) /\ AddressesOf(x) \in Seq(Addresses)
  <2>1. Count(x) \in 0 .. Count(x)
    BY RangeIs
  <2> QED
    BY <2>1, RunIs
<1> HIDE DEF ts
<1>3. AddressesOfAll(ts) = Upto(ts, 1) /\ Upto(ts, 1) = Upto(ts, 1 - 1) \o AddressesOf(x)
  BY <1>1, UptoIs
<1>4. Upto(ts, 1 - 1) = <<>>
  BY <1>1, UptoIs
<1>5. <<>> \o AddressesOf(x) = AddressesOf(x)
  BY <1>2
<1> QED
  BY <1>2, <1>3, <1>4, <1>5 DEF ts

(* A run goes through its range in ascending order and leaves out nothing   *)
(* but what comes after the cap.                                            *)
Covers(seq, there) ==
  LET seen == {seq[i] : i \in DOMAIN seq}
  IN  /\ VisitsAscending(seq)
      /\ seen \subseteq there
      /\ \A a \in there \ seen :
           a.v6 /\ Len(seq) = Cap /\ \A b \in seen : Precedes(b, a)

LEMMA RunCovers ==
  ASSUME NEW x, IsRange(x), NEW seq, seq = Run(x, Count(x))
  PROVE  Covers(seq, Between(x.first, x.last))
<1> DEFINE n == Count(x)
           there == Between(x.first, x.last)
           seen == {seq[i] : i \in DOMAIN seq}
           f == x.first.v6
           lo == x.first.n
           hi == x.last.n
<1>1. /\ f \in BOOLEAN /\ lo \in Nat /\ hi \in Nat /\ lo <= hi
      /\ RangeSize(x) = hi - lo + 1 /\ n \in 1 .. RangeSize(x) /\ Cap \in Nat
      /\ RangeSize(x) \in Nat
  BY RangeIs
<1>2. n \in Nat /\ n \in 0 .. n /\ Len(seq) = n /\ DOMAIN seq = 1 .. n
  <2>1. n \in Nat /\ n \in 0 .. n
    <3> HIDE DEF n, lo, hi
    <3> QED
      BY <1>1
  <2>2. Len(seq) = n
    BY <2>1, RunIs
  <2>3. DOMAIN seq = 1 .. n
    BY DEF Run
  <2> QED
    BY <2>1, <2>2, <2>3
<1>3. ASSUME NEW i \in 1 .. n
      PROVE  /\ seq[i] = [v6 |-> f, n |-> lo + (i - 1)] /\ seq[i] \in Addresses
             /\ seq[i].v6 = f /\ seq[i].n = lo + (i - 1) /\ lo + (i - 1) <= hi
  <2>1. i - 1 \in 0 .. n - 1
    <3> HIDE DEF n
    <3> QED
      BY <1>2
  <2>2. seq[i] = At(x, i - 1)
    BY DEF Run
  <2>3. /\ At(x, i - 1) = [v6 |-> f, n |-> lo + (i - 1)]
        /\ At(x, i - 1) \in Addresses /\ lo + (i - 1) <= hi
    BY <2>1, AtIs
  <2> QED
    BY <2>2, <2>3
<1>4. VisitsAscending(seq)
  <2> SUFFICES ASSUME NEW i \in 1 .. n, NEW j \in 1 .. n, i < j
               PROVE  Precedes(seq[i], seq[j])
    BY <1>2 DEF VisitsAscending
  <2>1. seq[i].v6 = f /\ seq[j].v6 = f /\ seq[i].n = lo + (i - 1) /\ seq[j].n = lo + (j - 1)
    BY <1>3
  <2>2. i \in Int /\ j \in Int /\ lo + (i - 1) < lo + (j - 1)
    <3> HIDE DEF lo, n
    <3> QED
      BY <1>1, <1>2
  <2> QED
    BY <2>1, <2>2 DEF Precedes
<1>5. seen \subseteq there
  <2> SUFFICES ASSUME NEW i \in 1 .. n
               PROVE  seq[i] \in there
    BY <1>2
  <2>1. lo <= lo + (i - 1)
    <3> HIDE DEF lo, n
    <3> QED
      BY <1>1, <1>2
  <2> QED
    BY <1>3, <2>1 DEF Between
<1>6. ASSUME NEW a \in there, a \notin seen
      PROVE  a.v6 /\ Len(seq) = Cap /\ \A b \in seen : Precedes(b, a)
  <2>1. a \in Addresses /\ a.v6 = f /\ lo <= a.n /\ a.n <= hi
    BY <1>6 DEF Between
  <2>2. a.n \in Nat /\ a = [v6 |-> f, n |-> a.n]
    <3>1. a.n \in 0 .. Pow2(Bits(a.v6)) - 1 /\ a = [v6 |-> a.v6, n |-> a.n]
      BY <2>1, AddressIs
    <3> QED
      BY <2>1, <3>1
  <2>3. a.n >= lo + n
    <3> SUFFICES ASSUME a.n < lo + n
                 PROVE  FALSE
      BY <1>1, <1>2, <2>2
    <3> DEFINE i == a.n - lo + 1
    <3>1. i \in 1 .. n /\ lo + (i - 1) = a.n
      <4> HIDE DEF lo, n
      <4> QED
        BY <1>1, <1>2, <2>1, <2>2
    <3>2. seq[i] = a
      BY <1>3, <2>2, <3>1
    <3>3. a \in seen
      BY <1>2, <3>1, <3>2
    <3> QED
      BY <1>6, <3>3
  <2>4. n # RangeSize(x)
    <3> HIDE DEF n, lo, hi
    <3> QED
      BY <1>1, <1>2, <2>1, <2>2, <2>3
  <2>5. f /\ n = Cap
    BY <2>4 DEF Count
  <2>6. ASSUME NEW i \in 1 .. n
        PROVE  Precedes(seq[i], a)
    <3>1. lo + (i - 1) < a.n
      <4> HIDE DEF lo, n
      <4> QED
        BY <1>1, <1>2, <2>2, <2>3
    <3> QED
      BY <1>3, <2>1, <3>1 DEF Precedes
  <2> QED
    BY <1>2, <2>1, <2>5, <2>6
<1> QED
  BY <1>4, <1>5, <1>6 DEF Covers

(* A scan of one token probes, in ascending order, what the token denotes:  *)
(* all of it, or the first Cap addresses of an IPv6 range.                  *)
THEOREM ScansWhatIsDenoted == Spec => []VisitsWhatIsDenoted
<1>1. TargetInv => VisitsWhatIsDenoted
  <2> SUFFICES ASSUME TargetInv, Scanned, Len(text) = 1
               PROVE  Covers(visited, Denoted(text[1]))
    BY DEF VisitsWhatIsDenoted, Covers
  <2> DEFINE token == text[1]
  <2>1. text \in Seq(Token) /\ token \in Token /\ targets = ParseList(text)
        /\ visited = AddressesOfAll(targets)
    BY DEF TargetInv, Scanned
  <2>2. targets = IF Parse(token).valid THEN <<Parse(token)>> ELSE <<>>
    BY <2>1, ParseListIs
  <2>3. Means(token)
    BY <2>1, TokenMeans
  <2>4. CASE Parse(token).valid
    <3> DEFINE x == Parse(token)
    <3>1. x \in Parsed /\ IsRange(x) /\ Denoted(token) = Between(x.first, x.last)
      BY <2>1, <2>3, <2>4 DEF Parsed, Means
    <3>2. visited = Run(x, Count(x))
      BY <2>1, <2>2, <2>4, <3>1, OneTarget
    <3> HIDE DEF x, token
    <3>3. Covers(visited, Between(x.first, x.last))
      BY <3>1, <3>2, RunCovers
    <3> QED
      BY <3>1, <3>3 DEF token
  <2>5. CASE ~Parse(token).valid
    <3>1. Denoted(token) = {}
      BY <2>3, <2>5 DEF Means
    <3>2. visited = <<>>
      <4>1. targets \in Seq(Parsed) /\ Len(targets) = 0
        BY <2>2, <2>5
      <4> QED
        BY <2>1, <4>1, UptoIs
    <3> QED
      BY <3>1, <3>2 DEF VisitsAscending, Covers
  <2> QED
    BY <2>4, <2>5
<1> QED
  BY <1>1, LoopsInStep, PTL

(* The total of a single target.                                            *)
LEMMA OneTotal ==
  ASSUME NEW ts \in Seq(Parsed), Len(ts) = 1, CappedCount(ts[1]) \in Nat
  PROVE  WorkerTotal(ts) = CappedCount(ts[1]) % Pow2(CountBits)
<1> DEFINE g == CHOOSE h : IsTotal(ts, h)
           u == {1}
<1>1. DOMAIN ts = u /\ \A i \in 1 .. Len(ts) : CappedCount(ts[i]) \in Nat
  OBVIOUS
<1>2. WorkerTotal(ts) = g[DOMAIN ts]
  BY DEF WorkerTotal, FoldLeft, MapThenFoldSet, IsTotal
<1>3. IsTotal(ts, g)
  BY <1>1, TotalExists
<1> HIDE DEF g
<1>4. g[{}] = 0
  BY <1>3 DEF IsTotal
<1>5. Max(u) = 1 /\ u \ {1} = {} /\ u # {}
  <2>1. u \in SUBSET (1 .. 1) /\ 1 \in Nat
    OBVIOUS
  <2>2. Max(u) \in u
    BY <2>1, MaxIs
  <2> QED
    BY <2>2
<1>6. g[u] = AddQuint64(g[u \ {1}], CappedCount(ts[1]))
  <2>1. u \in SUBSET DOMAIN ts
    BY <1>1
  <2> HIDE DEF u
  <2> QED
    BY <1>3, <1>5, <2>1 DEF IsTotal
<1>7. WorkerTotal(ts) = g[u] /\ u \ {1} = {}
  BY <1>1, <1>2, <1>5
<1> HIDE DEF u
<1>8. WorkerTotal(ts) = (0 + CappedCount(ts[1])) % Pow2(CountBits)
  BY <1>4, <1>6, <1>7 DEF AddQuint64
<1>9. 0 + CappedCount(ts[1]) = CappedCount(ts[1])
  OBVIOUS
<1> QED
  BY <1>8, <1>9

(* total_, which the progress is measured against, is the number of hosts   *)
(* handed out where hostCount() counts well, and Cap, no fewer than are     *)
(* handed out, for a range it takes for huge.  (ScanWorker::run())          *)
THEOREM TotalIsHosts == Spec => []TotalIsVisited
<1>1. TargetInv => TotalIsVisited
  <2> SUFFICES ASSUME TargetInv, Scanned PROVE TotalIsVisited
    BY DEF TotalIsVisited
  <2>1. pc # "parse" /\ r > 0 /\ visited = AddressesOfAll(targets) /\ total = WorkerTotal(targets)
    BY DEF TargetInv, Scanned
  <2>2. targets \in Seq(Parsed)
    BY <2>1, TargetsAre
  <2>3. ASSUME \A i \in DOMAIN targets : CountedWell(targets[i])
        PROVE  total = Len(visited) % Pow2(CountBits)
    BY <2>1, <2>2, <2>3, TotalIs
  <2>4. ASSUME Len(targets) = 1, Straddles(targets[1])
        PROVE  total = Cap /\ Len(visited) <= total
    <3> DEFINE m == Pow2(CountBits)
               x == targets[1]
    <3>1. m \in Nat \ {0} /\ Cap \in Nat /\ Cap < m
      <4>1. m \in Nat \ {0}
        BY PowerPositive, WidthsAssumption
      <4>2. Cap \in 1 .. m - 1
        BY WidthsAssumption DEF Pow2
      <4> HIDE DEF m
      <4> QED
        BY <4>1, <4>2
    <3>2. CappedCount(x) = Cap
      BY <2>4, StraddlingCount
    <3>3. total = Cap % m
      BY <2>1, <2>2, <2>4, <3>1, <3>2, OneTotal
    <3> HIDE DEF m
    <3>4. Cap = 0 * m + Cap
      BY <3>1
    <3>5. Cap % m = Cap
      BY <3>1, <3>4, DivideUnique
    <3>6. Len(visited) <= Cap
      <4>1. IsRange(x) /\ x.first.v6
        BY <2>1, <2>4, TargetsAre DEF Straddles
      <4>2. visited = AddressesOf(x)
        <5>1. targets = <<x>> /\ x \in Parsed
          BY <2>2, <2>4
        <5>2. visited = Run(x, Count(x))
          <6> HIDE DEF x
          <6> QED
            BY <2>1, <4>1, <5>1, OneTarget
        <5>3. Count(x) \in 0 .. Count(x)
          BY <4>1, RangeIs
        <5> QED
          BY <4>1, <5>2, <5>3, RunIs
      <4>3. Len(AddressesOf(x)) = Count(x) /\ Count(x) \in Nat /\ Count(x) <= Cap
        <5>1. Count(x) \in 1 .. RangeSize(x) /\ RangeSize(x) \in Nat
          BY <4>1, RangeIs
        <5>2. Count(x) \in 0 .. Count(x)
          BY <5>1
        <5>3. Len(AddressesOf(x)) = Count(x)
          BY <4>1, <5>2, RunIs
        <5> QED
          BY <3>1, <4>1, <5>1, <5>3 DEF Count
      <4> QED
        BY <4>2, <4>3
    <3> QED
      BY <3>3, <3>5, <3>6
  <2> QED
    BY <2>3, <2>4 DEF TotalIsVisited
<1> QED
  BY <1>1, LoopsInStep, PTL

(* expand() hands out the same addresses, cut to its argument.              *)
THEOREM ExpandAgrees == Spec => []ExpandAgreesWithScan
<1>1. TargetInv => ExpandAgreesWithScan
  <2> SUFFICES ASSUME TargetInv, Expanded, targets # <<>>
               PROVE  LET all == AddressesOf(targets[1]) IN
                      visited = SubSeq(all, 1, IF maxHosts \in 1 .. Len(all)
                                               THEN maxHosts ELSE Len(all))
    BY DEF ExpandAgreesWithScan
  <2> DEFINE x == targets[1]
             k == Share(x, maxHosts)
  <2>1. visited = Run(x, k) /\ IsRange(x) /\ maxHosts \in Nat
    BY TargetsAre DEF TargetInv, Expanded
  <2>2. k \in 1 .. Count(x) /\ Count(x) \in Nat
    BY <2>1, ShareIs
  <2>3. /\ AddressesOf(x) = Run(x, Count(x)) /\ Len(AddressesOf(x)) = Count(x)
        /\ AddressesOf(x) \in Seq(Addresses)
    <3>1. Count(x) \in 0 .. Count(x)
      BY <2>2
    <3> QED
      BY <2>1, <3>1, RunIs
  <2>4. k = IF maxHosts \in 1 .. Len(AddressesOf(x)) THEN maxHosts ELSE Len(AddressesOf(x))
    BY <2>3 DEF Share
  <2>5. SubSeq(Run(x, Count(x)), 1, k) = Run(x, k)
    <3>1. k \in Nat /\ k <= Count(x)
      <4> HIDE DEF k, x
      <4> QED
        BY <2>2
    <3>2. Run(x, k) \in Seq(Addresses) /\ Len(Run(x, k)) = k
          /\ Run(x, Count(x)) \in Seq(Addresses) /\ Len(Run(x, Count(x))) = Count(x)
      <4>1. k \in 0 .. Count(x)
        BY <2>2, <3>1
      <4> QED
        BY <2>1, <2>3, <4>1, RunIs
    <3>3. \A i \in 1 .. k : Run(x, Count(x))[i] = Run(x, k)[i]
      BY <2>2, <3>1 DEF Run
    <3> HIDE DEF k, x
    <3> QED
      BY <2>2, <3>1, <3>2, <3>3
  <2> QED
    BY <2>1, <2>3, <2>4, <2>5
<1> QED
  BY <1>1, LoopsInStep, PTL
=============================================================================
