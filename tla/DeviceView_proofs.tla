-------------------------- MODULE DeviceView_proofs --------------------------
(***************************************************************************)
(* Proofs about the devices of the main window.  About Inventory: labels    *)
(* reach the database, a stored mark stays, a key is announced as new once  *)
(* and the index fits the table, for any addresses, MACs and files.  About  *)
(* DeviceView: it only adds views to Inventory, so that the former holds of *)
(* it; cards and charts are as fresh as they should be; a report is of one  *)
(* scan; the sorted table is an order and loses no row.                     *)
(***************************************************************************)
EXTENDS DeviceView, FoldLemmas, SequenceTheorems, FiniteSetTheorems

(* The memory of labels and its table, with their domains. *)
LabelsInv ==
  /\ labelsByKey \in [Keys -> (SUBSET Labels) \cup {Absent}]
  /\ dbLabels \in [Keys -> SUBSET Labels]
  /\ LabelsAreStored

(* An empty memory goes with any table of labels. *)
LEMMA EmptyMemory ==
  ASSUME NEW memo, memo = [k \in Keys |-> Absent]
  PROVE  /\ memo \in [Keys -> (SUBSET Labels) \cup {Absent}]
         /\ \A k \in Keys : memo[k] = Absent
OBVIOUS

LEMMA LabelsInit == Init => LabelsInv
<1> SUFFICES ASSUME Init PROVE LabelsInv
  OBVIOUS
<1>1. labelsByKey = [k \in Keys |-> Absent] /\ dbLabels = [k \in Keys |-> {}]
  BY DEF Init
<1>2. dbLabels \in [Keys -> SUBSET Labels]
  BY <1>1
<1> QED BY <1>1, <1>2, EmptyMemory DEF LabelsInv, LabelsAreStored

(* Memory and table gain or lose the same label under the same key. *)
LEMMA LabelsAdded ==
  ASSUME LabelsInv, NEW k, NEW l \in Labels, AddLabel(k, l)
  PROVE  LabelsInv'
<1>1. labelsByKey' \in [Keys -> (SUBSET Labels) \cup {Absent}]
  BY DEF LabelsInv, AddLabel, LabelsOf
<1>2. dbLabels' \in [Keys -> SUBSET Labels]
  BY DEF LabelsInv, AddLabel
<1>3. ASSUME NEW j \in Keys, labelsByKey'[j] # Absent
      PROVE  labelsByKey'[j] \subseteq dbLabels'[j]
  BY <1>3 DEF LabelsInv, LabelsAreStored, AddLabel, LabelsOf
<1> QED BY <1>1, <1>2, <1>3 DEF LabelsInv, LabelsAreStored

LEMMA LabelsTaken ==
  ASSUME LabelsInv, NEW k, NEW l \in Labels, RemoveLabel(k, l)
  PROVE  LabelsInv'
<1>1. labelsByKey' \in [Keys -> (SUBSET Labels) \cup {Absent}]
  BY DEF LabelsInv, RemoveLabel, LabelsOf
<1>2. dbLabels' \in [Keys -> SUBSET Labels]
  BY DEF LabelsInv, RemoveLabel
<1>3. ASSUME NEW j \in Keys, labelsByKey'[j] # Absent
      PROVE  labelsByKey'[j] \subseteq dbLabels'[j]
  BY <1>3 DEF LabelsInv, LabelsAreStored, RemoveLabel, LabelsOf
<1> QED BY <1>1, <1>2, <1>3 DEF LabelsInv, LabelsAreStored

(* Loading takes the labels from the database; the end of the process       *)
(* forgets them; every other step but the dialog's leaves both alone.       *)
LEMMA LabelsNext == LabelsInv /\ [Next]_vars => LabelsInv'
<1> SUFFICES ASSUME LabelsInv, [Next]_vars
             PROVE  LabelsInv'
  OBVIOUS
<1>kept. ASSUME labelsByKey' = labelsByKey, dbLabels' = dbLabels
         PROVE  LabelsInv'
  BY <1>kept DEF LabelsInv, LabelsAreStored
<1>1. CASE StartProgram
  <2>1. labelsByKey' = [k \in Keys |-> IF k \in StoredKeys /\ dbLabels[k] # {}
                                       THEN dbLabels[k] ELSE Absent]
    BY <1>1 DEF StartProgram
  <2>2. dbLabels' = dbLabels
    BY <1>1 DEF StartProgram, disk
  <2>3. labelsByKey' \in [Keys -> (SUBSET Labels) \cup {Absent}]
    BY <2>1 DEF LabelsInv
  <2>4. \A k \in Keys : labelsByKey'[k] \in {dbLabels[k], Absent}
    BY <2>1
  <2> QED BY <2>2, <2>3, <2>4 DEF LabelsInv, LabelsAreStored
<1>2. CASE StartScan \/ AnswerYes
  BY <1>2, <1>kept DEF StartScan, AnswerYes, TableForScan, memory, disk
<1>12. CASE AskToStart \/ AnswerNo
  BY <1>12, <1>kept DEF AskToStart, AnswerNo, memory, disk
<1>3. CASE ScanFinished
  BY <1>3, <1>kept DEF ScanFinished, memory
<1>4. ASSUME NEW d \in Imported, ImportData(d)
      PROVE  LabelsInv'
  BY <1>4, <1>kept DEF ImportData
<1>5. CASE CloseDialog
  BY <1>5, <1>kept DEF CloseDialog, memory, disk
<1>6. CASE FavoriteToggled
  BY <1>6, <1>kept DEF FavoriteToggled
<1>7. CASE CloseWindow \/ Crash
  <2>1. labelsByKey' = [k \in Keys |-> Absent] /\ dbLabels' = dbLabels
    BY <1>7 DEF CloseWindow, Crash, ProcessEnds
  <2> QED BY <2>1, EmptyMemory DEF LabelsInv, LabelsAreStored
<1>8. ASSUME NEW ip \in Ips,
             DeviceDiscovered(ip) \/ DeviceUpdated(ip) \/ OpenDeviceDetail(ip)
      PROVE  LabelsInv'
  BY <1>8, <1>kept DEF DeviceDiscovered, DeviceUpdated, OpenDeviceDetail, memory, disk
<1>9. ASSUME NEW l \in Labels, LabelAdded(l)
      PROVE  LabelsInv'
  BY <1>9, <1>kept, LabelsAdded DEF LabelAdded
<1>10. ASSUME NEW l \in Labels, LabelRemoved(l)
       PROVE  LabelsInv'
  BY <1>10, <1>kept, LabelsTaken DEF LabelRemoved
<1>11. CASE UNCHANGED vars
  BY <1>11, <1>kept DEF vars, memory, disk
<1> QED
  BY <1>1, <1>2, <1>3, <1>4, <1>5, <1>6, <1>7, <1>8, <1>9, <1>10, <1>11, <1>12 DEF Next

(* No label is in the memory alone. *)
THEOREM LabelsReachTheDatabase == Spec => []LabelsAreStored
<1>1. LabelsInv => LabelsAreStored
  BY DEF LabelsInv
<1> QED BY LabelsInit, LabelsNext, <1>1, PTL DEF Spec

-----------------------------------------------------------------------------

(* What is remembered as known is what the process heard of. *)
KnownInv == knownKeys = heard /\ newThisScan \in Nat

LEMMA KnownInit == Init => KnownInv
BY DEF Init, KnownInv

(* Every step keeps both, or adds one key to both; only a key that is in    *)
(* neither is counted.                                                      *)
LEMMA KnownNext ==
  KnownInv /\ [Next]_vars => KnownInv' /\ (newThisScan' > newThisScan => heard' # heard)
<1> SUFFICES ASSUME KnownInv, [Next]_vars
             PROVE  KnownInv' /\ (newThisScan' > newThisScan => heard' # heard)
  OBVIOUS
<1>kept. ASSUME knownKeys' = knownKeys, heard' = heard, newThisScan' = newThisScan
         PROVE  KnownInv' /\ (newThisScan' > newThisScan => heard' # heard)
  BY <1>kept DEF KnownInv
<1>zero. ASSUME knownKeys' = heard', newThisScan' = 0
         PROVE  KnownInv' /\ (newThisScan' > newThisScan => heard' # heard)
  BY <1>zero DEF KnownInv
<1>1. CASE StartProgram
  BY <1>1, <1>zero DEF StartProgram
<1>2. CASE StartScan \/ AnswerYes
  BY <1>2, <1>zero DEF StartScan, AnswerYes, TableForScan, memory, KnownInv
<1>11. CASE AskToStart \/ AnswerNo
  BY <1>11, <1>kept DEF AskToStart, AnswerNo, memory
<1>3. CASE ScanFinished
  BY <1>3, <1>kept DEF ScanFinished, memory
<1>4. ASSUME NEW d \in Imported, ImportData(d)
      PROVE  KnownInv' /\ (newThisScan' > newThisScan => heard' # heard)
  <2>1. /\ knownKeys' = knownKeys \cup {Key(d)}
        /\ heard' = heard \cup {Key(d)}
        /\ newThisScan' = newThisScan
    BY <1>4 DEF ImportData
  <2> QED BY <2>1 DEF KnownInv
<1>5. CASE CloseDialog \/ FavoriteToggled
  BY <1>5, <1>kept DEF CloseDialog, FavoriteToggled, memory
<1>6. CASE CloseWindow \/ Crash
  BY <1>6, <1>zero DEF CloseWindow, Crash, ProcessEnds
<1>7. ASSUME NEW ip \in Ips, DeviceDiscovered(ip)
      PROVE  KnownInv' /\ (newThisScan' > newThisScan => heard' # heard)
  <2>1. PICK k :
          /\ newThisScan' = IF firstScanDone /\ k \notin knownKeys
                            THEN newThisScan + 1 ELSE newThisScan
          /\ knownKeys' = knownKeys \cup {k}
          /\ heard' = heard \cup {k}
    BY <1>7 DEF DeviceDiscovered, Remember
  <2> QED BY <2>1 DEF KnownInv
<1>8. ASSUME NEW ip \in Ips, DeviceUpdated(ip) \/ OpenDeviceDetail(ip)
      PROVE  KnownInv' /\ (newThisScan' > newThisScan => heard' # heard)
  BY <1>8, <1>kept DEF DeviceUpdated, OpenDeviceDetail, memory
<1>9. ASSUME NEW l \in Labels, LabelAdded(l) \/ LabelRemoved(l)
      PROVE  KnownInv' /\ (newThisScan' > newThisScan => heard' # heard)
  BY <1>9, <1>kept DEF LabelAdded, LabelRemoved
<1>10. CASE UNCHANGED vars
  BY <1>10, <1>kept DEF vars, memory
<1> QED
  BY <1>1, <1>2, <1>3, <1>4, <1>5, <1>6, <1>7, <1>8, <1>9, <1>10, <1>11 DEF Next

(* No key is announced as new that this process had heard of. *)
THEOREM NothingIsNewTwice == Spec => NewIsAnnouncedOnce
<1>1. KnownInv /\ [Next]_vars => [newThisScan' > newThisScan => heard' # heard]_vars
  BY KnownNext
<1>2. KnownInv /\ [Next]_vars => KnownInv'
  BY KnownNext
<1> QED BY KnownInit, <1>1, <1>2, PTL DEF Spec, NewIsAnnouncedOnce

-----------------------------------------------------------------------------
(* The index of the table *)

IsRow(d) ==
  d = [ip |-> d.ip, mac |-> d.mac, new |-> d.new, favorite |-> d.favorite, labels |-> d.labels]

Indexes(devices, index) ==
  /\ index \in [Ips -> 0 .. Len(devices)]
  /\ \A ip \in Ips :
       IF index[ip] = NoRow
       THEN \A i \in DOMAIN devices : devices[i].ip # ip
       ELSE index[ip] \in DOMAIN devices /\ devices[index[ip]].ip = ip

(* A sequence of rows, of whatever data, with an index that fits. *)
IsTable(devices, index) ==
  /\ devices \in Seq(ToSet(devices))
  /\ \A i \in DOMAIN devices : IsRow(devices[i])
  /\ Indexes(devices, index)

TableInv == IsTable(rows, rowByIp)

LEMMA FunctionIsSeq ==
  ASSUME NEW n \in Nat, NEW S, NEW f \in [1 .. n -> S]
  PROVE  f \in Seq(S)
BY SeqDef

LEMMA SeqOfItsOwn ==
  ASSUME NEW S, NEW s \in Seq(S)
  PROVE  s \in Seq(ToSet(s))
<1>1. s \in [1 .. Len(s) -> ToSet(s)] /\ Len(s) \in Nat
  BY LenProperties DEF ToSet
<1> QED BY <1>1, FunctionIsSeq

(* There is a last one among some of the rows. *)
LEMMA LastOfSome ==
  ASSUME NEW n \in Nat, NEW at, at \subseteq 1 .. n, at # {}
  PROVE  \E i \in at : \A j \in at : j <= i
<1> DEFINE T == {n - i : i \in at}
<1>1. T \subseteq Nat /\ T # {}
  <2>1. \A i \in at : n - i \in Nat
    OBVIOUS
  <2> QED BY <2>1
<1>2. PICK x \in T : \A y \in T : ~(<<y, x>> \in OpToRel(<, Nat))
  BY <1>1, NatLessThanWellFounded, WFMin
<1>3. \A y \in T : ~(y < x)
  BY <1>1, <1>2 DEF OpToRel
<1>4. PICK i \in at : x = n - i
  OBVIOUS
<1>5. ASSUME NEW j \in at
      PROVE  j <= i
  <2>1. n - j \in T
    OBVIOUS
  <2>2. ~(n - j < n - i) /\ i \in 1 .. n /\ j \in 1 .. n
    BY <1>3, <1>4, <2>1
  <2> QED BY <2>2
<1> QED BY <1>5

(* setDevices() *)
LEMMA LoadedIsTable ==
  ASSUME NEW devices, devices \in Seq(ToSet(devices)),
         \A i \in DOMAIN devices : IsRow(devices[i])
  PROVE  IsTable(devices, IndexOf(devices))
<1>1. Len(devices) \in Nat /\ DOMAIN devices = 1 .. Len(devices)
  BY LenProperties
<1> DEFINE at(ip) == {i \in DOMAIN devices : devices[i].ip = ip}
           last(ip) == IF at(ip) = {} THEN NoRow
                       ELSE CHOOSE i \in at(ip) : \A j \in at(ip) : j <= i
<1>2. ASSUME NEW ip \in Ips, at(ip) # {}
      PROVE  last(ip) \in at(ip)
  BY <1>1, <1>2, LastOfSome
<1>3. ASSUME NEW ip \in Ips
      PROVE  /\ last(ip) \in 0 .. Len(devices)
             /\ IF last(ip) = NoRow THEN at(ip) = {} ELSE last(ip) \in at(ip)
  <2>1. CASE at(ip) = {}
    BY <1>1, <2>1 DEF NoRow
  <2>2. CASE at(ip) # {}
    <3>1. last(ip) \in at(ip)
      BY <1>2, <2>2
    <3>2. at(ip) \subseteq 1 .. Len(devices)
      BY <1>1
    <3> HIDE DEF last, at
    <3> QED BY <1>1, <3>1, <3>2 DEF NoRow
  <2> QED BY <2>1, <2>2
<1>4. IndexOf(devices) = [ip \in Ips |-> last(ip)]
  BY DEF IndexOf
<1>5. \A ip \in Ips : \A i : i \in at(ip) <=> i \in DOMAIN devices /\ devices[i].ip = ip
  OBVIOUS
<1> HIDE DEF last, at
<1> QED BY <1>3, <1>4, <1>5 DEF IsTable, Indexes

LEMMA EmptyIsTable == IsTable(<<>>, EmptyIndex)
<1>1. <<>> \in Seq(ToSet(<<>>)) /\ DOMAIN <<>> = {} /\ Len(<<>>) = 0
  BY EmptySeq
<1> QED BY <1>1 DEF IsTable, Indexes, EmptyIndex, NoRow

LEMMA MergedRow ==
  ASSUME NEW d, IsRow(d), NEW old
  PROVE  IsRow(Merge(d, old)) /\ Merge(d, old).ip = d.ip
<1> DEFINE v == IF d.labels = {} THEN old.labels ELSE d.labels
           w == d.favorite \/ old.favorite
<1>1. Merge(d, old) = [d EXCEPT !.labels = v, !.favorite = w]
  BY Zenon DEF Merge
<1> HIDE DEF v, w
<1>2. d = [ip |-> d.ip, mac |-> d.mac, new |-> d.new, favorite |-> d.favorite,
           labels |-> d.labels]
  BY DEF IsRow
<1>3. Merge(d, old) = [[ip |-> d.ip, mac |-> d.mac, new |-> d.new, favorite |-> d.favorite,
                        labels |-> d.labels] EXCEPT !.labels = v, !.favorite = w]
  BY <1>1, <1>2, Zenon
<1>4. Merge(d, old) =
        [ip |-> d.ip, mac |-> d.mac, new |-> d.new, favorite |-> w, labels |-> v]
  BY <1>3
<1> QED BY <1>4 DEF IsRow

(* upsert() *)
LEMMA UpsertKeepsTable ==
  ASSUME NEW t, IsTable(t.rows, t.index), t = [rows |-> t.rows, index |-> t.index],
         NEW d, IsRow(d), d.ip \in Ips
  PROVE  IsTable(Upsert(t, d).rows, Upsert(t, d).index)
<1> DEFINE R == t.rows
           n == Len(t.rows)
<1>1. R \in Seq(ToSet(R)) /\ n \in Nat /\ DOMAIN R = 1 .. n
  BY LenProperties DEF IsTable
<1>2. CASE t.index[d.ip] # NoRow
  <2> DEFINE k == t.index[d.ip]
             e == Merge(d, R[k])
             Q == [R EXCEPT ![k] = e]
  <2>1. k \in 1 .. n /\ R[k].ip = d.ip
    BY <1>1, <1>2 DEF IsTable, Indexes
  <2>2. Upsert(t, d).rows = Q /\ Upsert(t, d).index = t.index
    BY <1>2 DEF Upsert
  <2>3. IsRow(e) /\ e.ip = d.ip
    BY MergedRow
  <2>4. R \in Seq(ToSet(R) \cup {e})
    BY <1>1, SeqMonotonic
  <2>5. /\ Q \in Seq(ToSet(R) \cup {e})
        /\ Len(Q) = n
        /\ \A j \in 1 .. n : Q[j] = IF j = k THEN e ELSE R[j]
    <3> HIDE DEF e
    <3> QED BY <2>1, <2>4, ExceptSeq
  <2> HIDE DEF Q, e
  <2>6. Q \in Seq(ToSet(Q)) /\ DOMAIN Q = 1 .. n
    BY <2>5, SeqOfItsOwn, LenProperties
  <2>7. \A i \in DOMAIN Q : IsRow(Q[i]) /\ Q[i].ip = R[i].ip
    BY <1>1, <2>1, <2>3, <2>5, <2>6 DEF IsTable
  <2>8. Indexes(Q, t.index)
    BY <1>1, <2>5, <2>6, <2>7 DEF IsTable, Indexes
  <2> QED BY <2>2, <2>6, <2>7, <2>8 DEF IsTable
<1>3. CASE t.index[d.ip] = NoRow
  <2> DEFINE Q == Append(R, d)
             X == [t.index EXCEPT ![d.ip] = n + 1]
  <2>1. Upsert(t, d).rows = Q /\ Upsert(t, d).index = X
    BY <1>3 DEF Upsert
  <2>2. R \in Seq(ToSet(R) \cup {d})
    BY <1>1, SeqMonotonic
  <2>3. /\ Q \in Seq(ToSet(R) \cup {d})
        /\ Len(Q) = n + 1
        /\ \A i \in 1 .. n : Q[i] = R[i]
        /\ Q[n + 1] = d
    BY <2>2, AppendProperties
  <2>4. Q \in Seq(ToSet(Q)) /\ DOMAIN Q = 1 .. n + 1
    BY <2>3, SeqOfItsOwn, LenProperties
  <2>5. X \in [Ips -> 0 .. n + 1] /\ X[d.ip] = n + 1
        /\ \A ip \in Ips : ip # d.ip => X[ip] = t.index[ip]
    BY <1>1 DEF IsTable, Indexes
  <2> HIDE DEF Q, X
  <2>6. \A i \in DOMAIN Q : IsRow(Q[i])
    BY <1>1, <2>3, <2>4 DEF IsTable
  <2>7. ASSUME NEW ip \in Ips
        PROVE  IF X[ip] = NoRow THEN \A i \in DOMAIN Q : Q[i].ip # ip
               ELSE X[ip] \in DOMAIN Q /\ Q[X[ip]].ip = ip
    <3>1. CASE ip = d.ip
      BY <1>1, <2>3, <2>4, <2>5, <3>1 DEF NoRow
    <3>2. CASE ip # d.ip
      <4>1. X[ip] = t.index[ip] /\ d.ip # ip
        BY <2>5, <3>2
      <4>2. CASE t.index[ip] = NoRow
        <5>1. \A i \in 1 .. n : R[i].ip # ip
          BY <1>1, <4>2 DEF IsTable, Indexes
        <5> QED BY <1>1, <2>3, <2>4, <4>1, <4>2, <5>1
      <4>3. CASE t.index[ip] # NoRow
        <5>1. t.index[ip] \in 1 .. n /\ R[t.index[ip]].ip = ip
          BY <1>1, <4>3 DEF IsTable, Indexes
        <5> QED BY <1>1, <2>3, <2>4, <4>1, <4>3, <5>1
      <4> QED BY <4>2, <4>3
    <3> QED BY <3>1, <3>2
  <2> QED BY <2>1, <2>3, <2>4, <2>5, <2>6, <2>7 DEF IsTable, Indexes
<1> QED BY <1>2, <1>3

LEMMA SetUpserted ==
  ASSUME TableInv, NEW d, IsRow(d), d.ip \in Ips, SetTable(Upsert(Table, d))
  PROVE  TableInv'
<1>1. IsTable(Table.rows, Table.index) /\ Table = [rows |-> Table.rows, index |-> Table.index]
  BY DEF TableInv, Table
<1>2. IsTable(Upsert(Table, d).rows, Upsert(Table, d).index)
  BY <1>1, UpsertKeepsTable
<1> QED BY <1>2 DEF TableInv, SetTable

(* loadDevices() *)
LEMMA LoadedRows ==
  ASSUME NEW saved \in LoadDevices
  PROVE  saved \in Seq(ToSet(saved)) /\ \A i \in DOMAIN saved : IsRow(saved[i])
<1>1. Cardinality(StoredKeys) \in Nat
  <2>1. IsFiniteSet(Keys)
    BY InventoryAssumption, FS_Union DEF Keys
  <2>2. IsFiniteSet(StoredKeys)
    BY <2>1, FS_Subset DEF StoredKeys
  <2> QED BY <2>2, FS_CardinalityType
<1>2. PICK order \in SetToSeqs(StoredKeys) :
        saved = [i \in DOMAIN order |-> LoadDevice(order[i])]
  BY DEF LoadDevices
<1> DEFINE n == Cardinality(StoredKeys)
           S == {LoadDevice(order[i]) : i \in 1 .. n}
<1>3. saved = [i \in 1 .. n |-> LoadDevice(order[i])]
  BY <1>2 DEF SetToSeqs
<1>4. saved \in [1 .. n -> S]
  BY <1>3
<1>5. saved \in Seq(S)
  <2> HIDE DEF S
  <2> QED BY <1>1, <1>4, FunctionIsSeq
<1>6. saved \in Seq(ToSet(saved))
  BY <1>5, SeqOfItsOwn
<1>7. \A i \in DOMAIN saved : IsRow(saved[i])
  BY <1>3 DEF LoadDevice, IsRow
<1> QED BY <1>6, <1>7

(* The favourite of one row is toggled; nothing else is. *)
LEMMA ToggledIsTable ==
  ASSUME TableInv, NEW r, rows' = [rows EXCEPT ![r].favorite = ~@], rowByIp' = rowByIp
  PROVE  /\ TableInv'
         /\ Len(rows') = Len(rows) /\ DOMAIN rows' = DOMAIN rows
         /\ \A i \in DOMAIN rows : rows'[i].ip = rows[i].ip /\ rows'[i].mac = rows[i].mac
<1> DEFINE n == Len(rows)
<1>1. rows \in Seq(ToSet(rows)) /\ n \in Nat /\ DOMAIN rows = 1 .. n
      /\ rows \in [1 .. n -> ToSet(rows)]
  BY LenProperties DEF TableInv, IsTable
<1>2. rows' \in [1 .. n -> ToSet(rows')]
  BY <1>1 DEF ToSet
<1>3. rows' \in Seq(ToSet(rows')) /\ Len(rows') = n /\ DOMAIN rows' = 1 .. n
  <2>1. rows' \in Seq(ToSet(rows'))
    BY <1>1, <1>2, FunctionIsSeq
  <2> QED BY <1>1, <1>2, <2>1, LenProperties
<1>4. ASSUME NEW i \in 1 .. n
      PROVE  IsRow(rows'[i]) /\ rows'[i].ip = rows[i].ip /\ rows'[i].mac = rows[i].mac
  <2>1. IsRow(rows[i])
    BY <1>1 DEF TableInv, IsTable
  <2>2. CASE i # r
    BY <1>1, <2>1, <2>2
  <2>3. CASE i = r
    <3> DEFINE w == ~rows[i].favorite
    <3>1. rows'[i] = [rows[i] EXCEPT !.favorite = w]
      BY <1>1, <2>3
    <3>2. rows[i] = [ip |-> rows[i].ip, mac |-> rows[i].mac, new |-> rows[i].new,
                     favorite |-> rows[i].favorite, labels |-> rows[i].labels]
      BY <2>1 DEF IsRow
    <3> HIDE DEF w
    <3>3. rows'[i] = [[ip |-> rows[i].ip, mac |-> rows[i].mac, new |-> rows[i].new,
                       favorite |-> rows[i].favorite, labels |-> rows[i].labels]
                      EXCEPT !.favorite = w]
      BY <3>1, <3>2, Zenon
    <3>4. rows'[i] = [ip |-> rows[i].ip, mac |-> rows[i].mac, new |-> rows[i].new,
                      favorite |-> w, labels |-> rows[i].labels]
      BY <3>3
    <3> QED BY <3>4 DEF IsRow
  <2> QED BY <2>2, <2>3
<1>5. Indexes(rows', rowByIp')
  BY <1>1, <1>3, <1>4 DEF TableInv, IsTable, Indexes
<1> QED BY <1>1, <1>3, <1>4, <1>5 DEF TableInv, IsTable

LEMMA TableInit == Init => TableInv
BY EmptyIsTable DEF Init, TableInv

LEMMA TableNext == TableInv /\ [Next]_vars => TableInv'
<1> SUFFICES ASSUME TableInv, [Next]_vars
             PROVE  TableInv'
  OBVIOUS
<1>kept. ASSUME rows' = rows, rowByIp' = rowByIp
         PROVE  TableInv'
  BY <1>kept DEF TableInv
<1>empty. ASSUME rows' = <<>>, rowByIp' = EmptyIndex
          PROVE  TableInv'
  BY <1>empty, EmptyIsTable DEF TableInv
<1>1. CASE StartProgram
  <2>1. PICK saved \in LoadDevices : rows' = saved /\ rowByIp' = IndexOf(saved)
    BY <1>1 DEF StartProgram
  <2> QED BY <2>1, LoadedRows, LoadedIsTable DEF TableInv
<1>2. CASE StartScan \/ AnswerYes
  BY <1>2, <1>empty DEF StartScan, AnswerYes, TableForScan, ClearTable
<1>13. CASE AskToStart \/ AnswerNo
  BY <1>13, <1>kept DEF AskToStart, AnswerNo, table
<1>3. CASE ScanFinished
  BY <1>3, <1>kept DEF ScanFinished
<1>4. ASSUME NEW d \in Imported, ImportData(d)
      PROVE  TableInv'
  <2>1. SetTable(Upsert(Table, d))
    BY <1>4 DEF ImportData
  <2>2. IsRow(d) /\ d.ip \in Ips
    BY ImportedAssumption DEF Device, IsRow
  <2> QED BY <2>1, <2>2, SetUpserted
<1>5. CASE CloseDialog
  BY <1>5, <1>kept DEF CloseDialog, table
<1>6. CASE FavoriteToggled
  BY <1>6, <1>kept, ToggledIsTable DEF FavoriteToggled
<1>7. CASE CloseWindow \/ Crash
  BY <1>7, <1>empty DEF CloseWindow, Crash, ProcessEnds
<1>8. ASSUME NEW ip \in Ips, DeviceDiscovered(ip)
      PROVE  TableInv'
  <2>1. PICK mac :
          LET d == Dressed(ip, mac)
              isNew == firstScanDone /\ Key(d) \notin knownKeys
          IN  SetTable(Upsert(Table, [d EXCEPT !.new = isNew]))
    BY <1>8 DEF DeviceDiscovered
  <2> DEFINE isNew == firstScanDone /\ Key(Dressed(ip, mac)) \notin knownKeys
             d == [Dressed(ip, mac) EXCEPT !.new = isNew]
  <2>2. SetTable(Upsert(Table, d))
    BY <2>1
  <2>3. IsRow(d) /\ d.ip = ip
    <3> HIDE DEF isNew
    <3> QED BY DEF Dressed, IsRow
  <2> HIDE DEF d
  <2> QED BY <2>2, <2>3, SetUpserted
<1>9. ASSUME NEW ip \in Ips, DeviceUpdated(ip)
      PROVE  TableInv'
  <2>1. PICK mac : SetTable(Upsert(Table, Dressed(ip, mac)))
    BY <1>9 DEF DeviceUpdated
  <2>2. IsRow(Dressed(ip, mac)) /\ Dressed(ip, mac).ip = ip
    BY DEF Dressed, IsRow
  <2> QED BY <2>1, <2>2, SetUpserted
<1>10. ASSUME NEW ip \in Ips, OpenDeviceDetail(ip)
       PROVE  TableInv'
  BY <1>10, <1>kept DEF OpenDeviceDetail, table
<1>11. ASSUME NEW l \in Labels, LabelAdded(l) \/ LabelRemoved(l)
       PROVE  TableInv'
  BY <1>11, <1>kept DEF LabelAdded, LabelRemoved, table
<1>12. CASE UNCHANGED vars
  BY <1>12, <1>kept DEF vars, table
<1> QED
  BY <1>1, <1>2, <1>3, <1>4, <1>5, <1>6, <1>7, <1>8, <1>9, <1>10, <1>11, <1>12,
     <1>13 DEF Next

(* The index fits the table, however many rows a start brings back and      *)
(* whatever has been inserted, replaced and cleared since.                  *)
THEOREM RowsAreIndexed == Spec => []RowsIndexed
<1>1. TableInv => RowsIndexed
  BY DEF TableInv, IsTable, Indexes, RowsIndexed
<1> QED BY TableInit, TableNext, <1>1, PTL DEF Spec

-----------------------------------------------------------------------------
(* The favourite column *)

(* No favourite of the table of devices a is lost in b. *)
KeepsMarks(a, b) ==
  \A k \in Keys : a[k] # Absent /\ a[k].favorite => b[k] # Absent /\ b[k].favorite

TableOfRows == [Keys -> Row \cup {Absent}]

LEMMA KeyIsKey ==
  ASSUME NEW d \in Device
  PROVE  Key(d) \in Keys
BY DEF Key, Keys, Device

(* upsertDevice() *)
Store(base, d) == [base EXCEPT ![Key(d)] = StoredRow(@, d)]

LEMMA StoreKeeps ==
  ASSUME NEW base \in TableOfRows, NEW d \in Device
  PROVE  Store(base, d) \in TableOfRows /\ KeepsMarks(base, Store(base, d))
<1> DEFINE r == StoredRow(base[Key(d)], d)
           o == base[Key(d)]
           w == IF o = Absent THEN d.favorite ELSE o.favorite
<1>1. Key(d) \in Keys
  BY KeyIsKey
<1>2. o \in Row \cup {Absent}
  BY <1>1 DEF TableOfRows
<1>3. r = [ip |-> d.ip, mac |-> d.mac, new |-> d.new, favorite |-> w]
  BY DEF StoredRow
<1>4. w \in BOOLEAN /\ (o # Absent /\ o.favorite => w)
  BY <1>2 DEF Row, Device
<1> HIDE DEF w
<1>5. r \in Row /\ r.favorite = w
  <2> HIDE DEF r
  <2> QED
    BY <1>3, <1>4 DEF Row, Device
<1>6. r # Absent
  BY <1>5, AbsentAssumption
<1>7. Store(base, d) = [base EXCEPT ![Key(d)] = r]
  BY DEF Store
<1> HIDE DEF r
<1>8. Store(base, d) \in TableOfRows
  BY <1>5, <1>7 DEF TableOfRows
<1>9. ASSUME NEW k \in Keys, base[k] # Absent, base[k].favorite
      PROVE  Store(base, d)[k] # Absent /\ Store(base, d)[k].favorite
  <2>1. CASE k = Key(d)
    BY <1>1, <1>4, <1>5, <1>6, <1>7, <1>9, <2>1 DEF TableOfRows
  <2>2. CASE k # Key(d)
    BY <1>7, <1>9, <2>2 DEF TableOfRows
  <2> QED BY <2>1, <2>2
<1> QED BY <1>8, <1>9 DEF KeepsMarks

IsStored(devices, g) ==
  g = [u \in SUBSET DOMAIN devices |->
         IF u = {} THEN db ELSE LET x == Max(u) IN Store(g[u \ {x}], devices[x])]

LEMMA StoredExists ==
  ASSUME db \in TableOfRows, NEW devices \in Seq(Device)
  PROVE  \E g : IsStored(devices, g)
<1> DEFINE n == Len(devices)
           V == TableOfRows
           step == [p \in (1 .. n) \X V |-> Store(p[2], devices[p[1]])]
<1>1. n \in Nat /\ DOMAIN devices = 1 .. n /\ \A i \in 1 .. n : devices[i] \in Device
  OBVIOUS
<1>2. step \in [(1 .. n) \X V -> V]
  BY <1>1, StoreKeeps
<1>3. \A i \in 1 .. n, base \in V : step[<<i, base>>] = Store(base, devices[i])
  OBVIOUS
<1> HIDE DEF n, V, step
<1>4. PICK f \in [SUBSET (1 .. n) -> V] : IsFold(n, db, step, f)
  <2>1. db \in V
    BY DEF V
  <2> QED BY <1>1, <1>2, <2>1, FoldExists
<1>5. ASSUME NEW u \in SUBSET (1 .. n)
      PROVE  f[u] = IF u = {} THEN db ELSE LET x == Max(u) IN Store(f[u \ {x}], devices[x])
  <2>1. CASE u = {}
    BY <1>4, <2>1 DEF IsFold
  <2>2. CASE u # {}
    <3>1. Max(u) \in 1 .. n /\ u \ {Max(u)} \in SUBSET (1 .. n)
      BY <1>1, <2>2, MaxIs
    <3>2. f[u] = step[<<Max(u), f[u \ {Max(u)}]>>]
      BY <1>4, <2>2 DEF IsFold
    <3>3. f[u \ {Max(u)}] \in V
      BY <1>4, <3>1
    <3> QED BY <1>3, <2>2, <3>1, <3>2, <3>3
  <2> QED BY <2>1, <2>2
<1>6. f = [u \in SUBSET (1 .. n) |->
             IF u = {} THEN db ELSE LET x == Max(u) IN Store(f[u \ {x}], devices[x])]
  BY <1>4, <1>5
<1>7. IsStored(devices, f)
  BY <1>1, <1>6 DEF IsStored
<1> QED BY <1>7

(* persistDevices() *)
LEMMA StoreAllKeeps ==
  ASSUME db \in TableOfRows, NEW devices \in Seq(Device)
  PROVE  StoreAll(devices) \in TableOfRows /\ KeepsMarks(db, StoreAll(devices))
<1> DEFINE g == CHOOSE h : IsStored(devices, h)
           n == Len(devices)
           Good(base) == base \in TableOfRows /\ KeepsMarks(db, base)
           S == {k \in Nat : k <= n => Good(g[1 .. k])}
<1>1. StoreAll(devices) = g[DOMAIN devices]
  BY DEF StoreAll, FoldLeft, MapThenFoldSet, IsStored, Store
<1>2. IsStored(devices, g)
  BY StoredExists
<1>3. n \in Nat /\ DOMAIN devices = 1 .. n /\ \A i \in 1 .. n : devices[i] \in Device
  OBVIOUS
<1> HIDE DEF g, n
<1>4. g[1 .. 0] = db
  <2>1. 1 .. 0 = {}
    OBVIOUS
  <2> QED BY <1>2, <2>1 DEF IsStored
<1>5. ASSUME NEW k \in Nat, k + 1 <= n, Good(g[1 .. k])
      PROVE  Good(g[1 .. k + 1])
  <2>1. /\ 1 .. k + 1 \in SUBSET (1 .. n) /\ 1 .. k + 1 # {}
        /\ Max(1 .. k + 1) = k + 1 /\ (1 .. k + 1) \ {k + 1} = 1 .. k
    BY <1>3, <1>5, LastOfInterval
  <2> DEFINE u == 1 .. k + 1
  <2>2. u \ {Max(u)} = 1 .. k
    BY <2>1
  <2>3. u \in SUBSET DOMAIN devices /\ u # {} /\ Max(u) = k + 1
    BY <1>3, <2>1
  <2> HIDE DEF u
  <2>4. g[u] = Store(g[u \ {Max(u)}], devices[Max(u)])
    BY <1>2, <2>3 DEF IsStored
  <2>5. g[u] = Store(g[1 .. k], devices[k + 1])
    BY <2>2, <2>3, <2>4
  <2>6. devices[k + 1] \in Device
    BY <1>3, <1>5
  <2>7. g[u] \in TableOfRows /\ KeepsMarks(g[1 .. k], g[u])
    BY <1>5, <2>5, <2>6, StoreKeeps
  <2>8. KeepsMarks(db, g[u])
    BY <1>5, <2>7 DEF KeepsMarks
  <2> QED BY <2>7, <2>8 DEF u
<1>6. S = Nat
  <2>1. S \in SUBSET Nat
    OBVIOUS
  <2>2. 0 \in S
    BY <1>4 DEF KeepsMarks
  <2>3. ASSUME NEW k \in S
        PROVE  k + 1 \in S
    <3>1. k \in Nat
      <4> HIDE DEF S
      <4> QED BY <2>1
    <3>2. ASSUME k + 1 <= n
          PROVE  Good(g[1 .. k + 1])
      <4>1. k <= n
        BY <1>3, <3>1, <3>2
      <4>2. Good(g[1 .. k])
        BY <3>1, <4>1
      <4> HIDE DEF Good, S
      <4> QED BY <1>5, <3>1, <3>2, <4>2
    <3> HIDE DEF Good
    <3> QED BY <3>1, <3>2
  <2> HIDE DEF S
  <2> QED BY <2>1, <2>2, <2>3, NatSet
<1>7. Good(g[1 .. n])
  <2>1. n \in S
    <3> HIDE DEF S
    <3> QED BY <1>3, <1>6
  <2>2. n <= n
    BY <1>3
  <2> HIDE DEF Good
  <2> QED BY <2>1, <2>2
<1> QED BY <1>1, <1>3, <1>7

(* What the favourites are kept in, with its type. *)
AreDevices(devices) == \A i \in DOMAIN devices : devices[i] \in Device
OpenDialog == [open : {TRUE}, ip : Ips, favorite : BOOLEAN, labels : SUBSET Labels]

FavouritesInv ==
  /\ LabelsInv /\ TableInv
  /\ AreDevices(rows)
  /\ db \in TableOfRows
  /\ favByKey \in [Keys -> BOOLEAN]
  /\ found \in [Ips -> Macs \cup {NoMac, Absent}]
  /\ dialog \in OpenDialog \cup {NoDialog}

LEMMA MergedDevice ==
  ASSUME NEW d \in Device, NEW old \in Device
  PROVE  Merge(d, old) \in Device
<1> DEFINE v == IF d.labels = {} THEN old.labels ELSE d.labels
           w == d.favorite \/ old.favorite
<1>1. v \in SUBSET Labels /\ w \in BOOLEAN
  BY DEF Device
<1>2. Merge(d, old) = [d EXCEPT !.labels = v, !.favorite = w]
  BY Zenon DEF Merge
<1> HIDE DEF v, w
<1> QED BY <1>1, <1>2 DEF Device

LEMMA UpsertKeepsDevices ==
  ASSUME NEW t, IsTable(t.rows, t.index), AreDevices(t.rows), NEW d \in Device
  PROVE  AreDevices(Upsert(t, d).rows)
<1>1. /\ t.rows \in Seq(ToSet(t.rows)) /\ Len(t.rows) \in Nat
      /\ DOMAIN t.rows = 1 .. Len(t.rows)
      /\ d.ip \in Ips
  BY LenProperties DEF IsTable, Device
<1>2. t.rows \in Seq(Device)
  <2>1. ToSet(t.rows) \subseteq Device
    BY DEF AreDevices, ToSet
  <2> QED BY <1>1, <2>1, SeqMonotonic
<1>3. CASE t.index[d.ip] # NoRow
  <2> DEFINE k == t.index[d.ip]
             e == Merge(d, t.rows[k])
  <2>1. k \in 1 .. Len(t.rows)
    BY <1>1, <1>3 DEF IsTable, Indexes
  <2>2. e \in Device
    BY <1>1, <2>1, MergedDevice DEF AreDevices
  <2>3. Upsert(t, d).rows = [t.rows EXCEPT ![k] = e]
    BY <1>3 DEF Upsert
  <2> HIDE DEF e
  <2>4. [t.rows EXCEPT ![k] = e] \in Seq(Device)
    BY <1>2, <2>1, <2>2, ExceptSeq
  <2> QED BY <2>3, <2>4 DEF AreDevices
<1>4. CASE t.index[d.ip] = NoRow
  <2>1. Upsert(t, d).rows = Append(t.rows, d)
    BY <1>4 DEF Upsert
  <2>2. Append(t.rows, d) \in Seq(Device)
    BY <1>2, AppendProperties
  <2> QED BY <2>1, <2>2 DEF AreDevices
<1> QED BY <1>3, <1>4

LEMMA RowsAreDevices ==
  ASSUME FavouritesInv
  PROVE  rows \in Seq(Device)
<1>1. rows \in Seq(ToSet(rows)) /\ ToSet(rows) \subseteq Device
  BY DEF FavouritesInv, TableInv, IsTable, AreDevices, ToSet
<1> QED BY <1>1, SeqMonotonic

LEMMA SetDevice ==
  ASSUME FavouritesInv, NEW d \in Device, SetTable(Upsert(Table, d))
  PROVE  TableInv' /\ AreDevices(rows')
<1>1. IsRow(d) /\ d.ip \in Ips
  BY DEF Device, IsRow
<1>2. IsTable(Table.rows, Table.index) /\ AreDevices(Table.rows)
  BY DEF FavouritesInv, TableInv, Table
<1> QED BY <1>1, <1>2, SetUpserted, UpsertKeepsDevices DEF SetTable, FavouritesInv

LEMMA DressedDevice ==
  ASSUME FavouritesInv, NEW ip \in Ips, NEW mac \in Macs \cup {NoMac}
  PROVE  Dressed(ip, mac) \in Device
<1> DEFINE k == Key([ip |-> ip, mac |-> mac])
           v == IF labelsByKey[k] # Absent THEN labelsByKey[k] ELSE {}
           w == favByKey[k]
<1>1. k \in Keys
  BY DEF Key, Keys
<1>2. w \in BOOLEAN /\ v \in SUBSET Labels
  BY <1>1 DEF FavouritesInv, LabelsInv
<1>3. Dressed(ip, mac) = [ip |-> ip, mac |-> mac, new |-> FALSE, favorite |-> w, labels |-> v]
  BY DEF Dressed
<1> HIDE DEF v, w
<1> QED BY <1>2, <1>3 DEF Device

LEMMA LoadedDevices ==
  ASSUME FavouritesInv, NEW saved \in LoadDevices
  PROVE  AreDevices(saved)
<1>1. PICK order \in SetToSeqs(StoredKeys) :
        saved = [i \in DOMAIN order |-> LoadDevice(order[i])]
  BY DEF LoadDevices
<1>2. \A i \in DOMAIN order : order[i] \in StoredKeys
  BY <1>1 DEF SetToSeqs
<1>3. ASSUME NEW k \in StoredKeys
      PROVE  LoadDevice(k) \in Device
  <2>1. db[k] \in Row /\ dbLabels[k] \in SUBSET Labels
    BY DEF StoredKeys, FavouritesInv, TableOfRows, LabelsInv
  <2> QED BY <2>1 DEF LoadDevice, Device, Row
<1> QED BY <1>1, <1>2, <1>3 DEF AreDevices

LEMMA FavouritesInit == Init => FavouritesInv
<1> SUFFICES ASSUME Init
             PROVE  FavouritesInv
  OBVIOUS
<1>1. LabelsInv /\ TableInv
  BY LabelsInit, TableInit
<1>2. AreDevices(rows)
  BY EmptySeq DEF Init, AreDevices
<1>3. db \in TableOfRows /\ favByKey \in [Keys -> BOOLEAN]
  BY DEF Init, TableOfRows
<1>4. found \in [Ips -> Macs \cup {NoMac, Absent}] /\ dialog \in OpenDialog \cup {NoDialog}
  BY DEF Init, NobodyFound
<1> QED BY <1>1, <1>2, <1>3, <1>4 DEF FavouritesInv

(* The end of the process; its table of devices is b. *)
LEMMA EndedFavourites ==
  ASSUME ProcessEnds, LabelsInv', TableInv', db' \in TableOfRows
  PROVE  FavouritesInv'
<1>1. AreDevices(rows')
  BY EmptySeq DEF ProcessEnds, AreDevices
<1>2. favByKey' \in [Keys -> BOOLEAN]
  BY DEF ProcessEnds
<1>3. found' \in [Ips -> Macs \cup {NoMac, Absent}] /\ dialog' \in OpenDialog \cup {NoDialog}
  BY DEF ProcessEnds, NobodyFound
<1> QED BY <1>1, <1>2, <1>3 DEF FavouritesInv

(* The check box.  Only if it shows a favourite, it takes one away. *)
LEMMA ToggledFavourites ==
  ASSUME FavouritesInv, FavoriteToggled
  PROVE  /\ AreDevices(rows') /\ db' \in TableOfRows
         /\ favByKey' \in [Keys -> BOOLEAN] /\ dialog' \in OpenDialog
         /\ KeepsMarks(db, db') \/ (dialog.favorite /\ dialog'.open /\ ~dialog'.favorite)
<1> DEFINE on == ~dialog.favorite
           r == RowOfDialog
           k == KeyOfDialog
<1>1. dialog \in OpenDialog /\ dialog.open
  BY DEF FavoriteToggled, AtDialog, FavouritesInv, NoDialog
<1>2. on \in BOOLEAN /\ dialog' = [dialog EXCEPT !.favorite = on]
  BY DEF FavoriteToggled
<1>3. dialog' \in OpenDialog /\ dialog'.open /\ dialog'.favorite = on
  <2> HIDE DEF on
  <2> QED BY <1>1, <1>2 DEF OpenDialog
<1>4. CASE r = NoRow
  <2>1. rows' = rows /\ favByKey' = favByKey /\ db' = db
    BY <1>4 DEF FavoriteToggled
  <2> QED BY <1>3, <2>1 DEF FavouritesInv, KeepsMarks
<1>5. CASE r # NoRow
  <2>1. /\ favByKey' = [favByKey EXCEPT ![k] = on]
        /\ rows' = [rows EXCEPT ![r].favorite = ~@]
        /\ db' = [db EXCEPT ![k] = IF @ = Absent THEN Absent ELSE [@ EXCEPT !.favorite = on]]
    BY <1>5 DEF FavoriteToggled
  <2>2. r \in DOMAIN rows /\ rows[r] \in Device
    BY <1>1, <1>5 DEF RowOfDialog, OpenDialog, FavouritesInv, TableInv, IsTable, Indexes,
                      AreDevices
  <2>3. k \in Keys
    BY <2>2, KeyIsKey DEF KeyOfDialog
  <2> DEFINE old == db[k]
             new == IF old = Absent THEN Absent ELSE [old EXCEPT !.favorite = on]
  <2>4. db' = [db EXCEPT ![k] = new]
    BY <2>1
  <2>5. old \in Row \cup {Absent}
    BY <2>3 DEF FavouritesInv, TableOfRows
  <2>6. new \in Row \cup {Absent} /\ (old # Absent => new # Absent /\ new.favorite = on)
    <3> HIDE DEF on
    <3>1. CASE old = Absent
      BY <3>1
    <3>2. CASE old # Absent
      <4>1. old \in Row /\ new = [old EXCEPT !.favorite = on]
        BY <2>5, <3>2
      <4> HIDE DEF old, new
      <4>2. new \in Row /\ new.favorite = on
        BY <1>2, <4>1 DEF Row
      <4> QED BY <4>2, AbsentAssumption
    <3> QED BY <3>1, <3>2
  <2>7. db' \in TableOfRows
    <3> HIDE DEF new
    <3> QED BY <2>4, <2>6 DEF FavouritesInv, TableOfRows
  <2>8. ASSUME on, NEW j \in Keys, db[j] # Absent, db[j].favorite
        PROVE  db'[j] # Absent /\ db'[j].favorite
    <3> HIDE DEF new, on
    <3>1. db'[j] = IF j = k THEN new ELSE db[j]
      BY <2>4 DEF FavouritesInv, TableOfRows
    <3> QED BY <2>6, <2>8, <3>1
  <2>9. AreDevices(rows')
    <3> DEFINE w == ~rows[r].favorite
    <3>1. DOMAIN rows' = DOMAIN rows
          /\ \A i \in DOMAIN rows : rows'[i] = IF i = r THEN [rows[i] EXCEPT !.favorite = w]
                                              ELSE rows[i]
      BY <2>1, <2>2
    <3>2. w \in BOOLEAN
      OBVIOUS
    <3> HIDE DEF w
    <3>3. [rows[r] EXCEPT !.favorite = w] \in Device
      BY <2>2, <3>2 DEF Device
    <3> QED BY <3>1, <3>3 DEF FavouritesInv, AreDevices
  <2>10. favByKey' \in [Keys -> BOOLEAN]
    <3> HIDE DEF on
    <3> QED BY <1>2, <2>1 DEF FavouritesInv
  <2> QED BY <1>3, <2>7, <2>8, <2>9, <2>10 DEF KeepsMarks
<1> QED BY <1>4, <1>5

(* Every other step keeps what is stored, or stores devices. *)
LEMMA FavouritesNext ==
  FavouritesInv /\ [Next]_vars =>
    /\ FavouritesInv'
    /\ KeepsMarks(db, db') \/ (dialog.open /\ dialog.favorite /\ dialog'.open /\ ~dialog'.favorite)
<1> SUFFICES ASSUME FavouritesInv, [Next]_vars
             PROVE  /\ FavouritesInv'
                    /\ \/ KeepsMarks(db, db')
                       \/ dialog.open /\ dialog.favorite /\ dialog'.open /\ ~dialog'.favorite
  OBVIOUS
<1> DEFINE Goal == /\ FavouritesInv'
                   /\ \/ KeepsMarks(db, db')
                      \/ dialog.open /\ dialog.favorite /\ dialog'.open /\ ~dialog'.favorite
<1>a. LabelsInv' /\ TableInv'
  BY LabelsNext, TableNext DEF FavouritesInv
<1>b. KeepsMarks(db, db)
  BY DEF KeepsMarks
<1>c. rows \in Seq(Device)
  BY RowsAreDevices
<1>kept. ASSUME AreDevices(rows'), db' = db, favByKey' = favByKey,
                found' \in [Ips -> Macs \cup {NoMac, Absent}], dialog' = dialog
         PROVE  Goal
  BY <1>a, <1>b, <1>kept DEF FavouritesInv
<1>asked. ASSUME rows' = rows, db' = db, favByKey' = favByKey, found' = found,
                 dialog' \in OpenDialog \cup {NoDialog}
          PROVE  Goal
  BY <1>a, <1>b, <1>asked DEF FavouritesInv
<1>1. CASE StartProgram
  <2>1. PICK saved \in LoadDevices : rows' = saved
    BY <1>1 DEF StartProgram
  <2>2. /\ favByKey' = [k \in Keys |-> k \in StoredKeys /\ db[k].favorite]
        /\ db' = db /\ found' = found /\ dialog' = dialog
    BY <1>1 DEF StartProgram, disk
  <2>3. favByKey' \in [Keys -> BOOLEAN]
    <3>1. ASSUME NEW k \in Keys
          PROVE  (k \in StoredKeys /\ db[k].favorite) \in BOOLEAN
      OBVIOUS
    <3> QED BY <2>2, <3>1
  <2> QED BY <1>a, <1>b, <2>1, <2>2, <2>3, LoadedDevices DEF FavouritesInv
<1>2. CASE StartScan \/ AnswerYes
  <2>1. TableForScan
    BY <1>2 DEF StartScan, AnswerYes
  <2>2. AreDevices(rows')
    BY <2>1, EmptySeq DEF TableForScan, ClearTable, AreDevices
  <2> QED BY <1>kept, <2>1, <2>2 DEF TableForScan, memory, disk, FavouritesInv
<1>14. CASE AskToStart \/ AnswerNo
  BY <1>14, <1>kept DEF AskToStart, AnswerNo, table, memory, disk, FavouritesInv
<1>3. CASE ScanFinished
  <2>1. /\ rows' = rows /\ db' = StoreAll(rows) /\ found' = NobodyFound
        /\ favByKey' = favByKey /\ dialog' = dialog
    BY <1>3 DEF ScanFinished, PersistDevices, memory
  <2>2. db' \in TableOfRows /\ KeepsMarks(db, db')
    BY <1>c, <2>1, StoreAllKeeps DEF FavouritesInv
  <2>3. found' \in [Ips -> Macs \cup {NoMac, Absent}]
    BY <2>1 DEF NobodyFound
  <2> QED BY <1>a, <2>1, <2>2, <2>3 DEF FavouritesInv
<1>4. ASSUME NEW d \in Imported, ImportData(d)
      PROVE  Goal
  <2>1. SetTable(Upsert(Table, d))
    BY <1>4 DEF ImportData
  <2>2. AreDevices(rows')
    BY <2>1, SetDevice, ImportedAssumption
  <2>3. /\ db' = StoreAll(rows') /\ found' = found
        /\ favByKey' = favByKey /\ dialog' = dialog
    BY <1>4 DEF ImportData, PersistDevices
  <2>4. rows' \in Seq(Device)
    <3>1. rows' \in Seq(ToSet(rows')) /\ ToSet(rows') \subseteq Device
      BY <1>a, <2>2 DEF TableInv, IsTable, AreDevices, ToSet
    <3> QED BY <3>1, SeqMonotonic
  <2>5. db' \in TableOfRows /\ KeepsMarks(db, db')
    BY <2>3, <2>4, StoreAllKeeps DEF FavouritesInv
  <2> QED BY <1>a, <2>2, <2>3, <2>5 DEF FavouritesInv
<1>5. CASE CloseDialog
  BY <1>5, <1>asked DEF CloseDialog, table, memory, disk
<1>6. CASE FavoriteToggled
  <2>1. found' = found /\ dialog.open
    BY <1>6 DEF FavoriteToggled, AtDialog
  <2> QED BY <1>6, <1>a, <2>1, ToggledFavourites DEF FavouritesInv
<1>7. CASE CloseWindow
  <2>1. db' = StoreAll(rows) /\ ProcessEnds
    BY <1>7 DEF CloseWindow
  <2>2. db' \in TableOfRows /\ KeepsMarks(db, db')
    BY <1>c, <2>1, StoreAllKeeps DEF FavouritesInv
  <2> QED BY <1>a, <2>1, <2>2, EndedFavourites
<1>8. CASE Crash
  <2>0. PICK devices \in RowsBeingStored : \E n \in 0 .. Len(devices) :
          db' = StoreAll(SubSeq(devices, 1, n))
    BY <1>8 DEF Crash
  <2>1. PICK n \in 0 .. Len(devices) : db' = StoreAll(SubSeq(devices, 1, n))
    BY <2>0
  <2>2. devices \in Seq(Device)
    <3>1. CASE devices = rows
      BY <1>c, <3>1
    <3>2. CASE \E d \in Imported : devices = Upsert(Table, d).rows
      <4>1. PICK d \in Imported : devices = Upsert(Table, d).rows
        BY <3>2
      <4>2. d \in Device /\ IsRow(d) /\ d.ip \in Ips
        BY ImportedAssumption DEF Device, IsRow
      <4>3. /\ IsTable(Table.rows, Table.index) /\ AreDevices(Table.rows)
            /\ Table = [rows |-> Table.rows, index |-> Table.index]
        BY DEF FavouritesInv, TableInv, Table
      <4>4. AreDevices(devices) /\ devices \in Seq(ToSet(devices))
        BY <4>1, <4>2, <4>3, UpsertKeepsTable, UpsertKeepsDevices DEF IsTable
      <4>5. ToSet(devices) \subseteq Device
        BY <4>4 DEF AreDevices, ToSet
      <4> QED BY <4>4, <4>5, SeqMonotonic
    <3> QED BY <2>0, <3>1, <3>2 DEF RowsBeingStored
  <2>3. SubSeq(devices, 1, n) \in Seq(Device)
    BY <2>1, <2>2, SubSeqProperties
  <2>4. db' \in TableOfRows /\ KeepsMarks(db, db')
    BY <2>1, <2>3, StoreAllKeeps DEF FavouritesInv
  <2> QED BY <1>8, <1>a, <2>4, EndedFavourites DEF Crash
<1>9. ASSUME NEW ip \in Ips, DeviceDiscovered(ip)
      PROVE  Goal
  <2>1. PICK mac \in IF found[ip] = Absent THEN SightedMacs[ip] ELSE {found[ip]} :
          /\ found' = [found EXCEPT ![ip] = mac]
          /\ LET d == Dressed(ip, mac)
                 isNew == firstScanDone /\ Key(d) \notin knownKeys
             IN  SetTable(Upsert(Table, [d EXCEPT !.new = isNew]))
    BY <1>9 DEF DeviceDiscovered
  <2>2. mac \in Macs \cup {NoMac}
    BY <2>1, InventoryAssumption DEF FavouritesInv
  <2> DEFINE isNew == firstScanDone /\ Key(Dressed(ip, mac)) \notin knownKeys
             d == [Dressed(ip, mac) EXCEPT !.new = isNew]
  <2>3. SetTable(Upsert(Table, d))
    BY <2>1
  <2>4. d \in Device
    <3>1. isNew \in BOOLEAN
      OBVIOUS
    <3> HIDE DEF isNew
    <3> QED BY <2>2, <3>1, DressedDevice DEF Device
  <2> HIDE DEF d
  <2>5. AreDevices(rows')
    BY <2>3, <2>4, SetDevice
  <2>6. found' \in [Ips -> Macs \cup {NoMac, Absent}]
    BY <2>1, <2>2 DEF FavouritesInv
  <2> QED BY <1>9, <1>kept, <2>5, <2>6 DEF DeviceDiscovered, disk
<1>10. ASSUME NEW ip \in Ips, DeviceUpdated(ip)
       PROVE  Goal
  <2>1. PICK mac \in SightedMacs[ip] \ {NoMac, found[ip]} :
          found' = [found EXCEPT ![ip] = mac] /\ SetTable(Upsert(Table, Dressed(ip, mac)))
    BY <1>10 DEF DeviceUpdated
  <2>2. mac \in Macs \cup {NoMac}
    BY <2>1, InventoryAssumption
  <2>3. AreDevices(rows')
    BY <2>1, <2>2, DressedDevice, SetDevice
  <2>4. found' \in [Ips -> Macs \cup {NoMac, Absent}]
    BY <2>1, <2>2 DEF FavouritesInv
  <2> QED BY <1>10, <1>kept, <2>3, <2>4 DEF DeviceUpdated, memory, disk
<1>11. ASSUME NEW ip \in Ips, OpenDeviceDetail(ip)
       PROVE  Goal
  <2>1. rows[rowByIp[ip]] \in Device
    BY <1>11 DEF OpenDeviceDetail, FavouritesInv, TableInv, IsTable, Indexes, AreDevices
  <2>2. dialog' \in OpenDialog
    BY <1>11, <2>1 DEF OpenDeviceDetail, OpenDialog, Device
  <2> QED BY <1>11, <1>asked, <2>2 DEF OpenDeviceDetail, table, memory, disk
<1>12. ASSUME NEW l \in Labels, LabelAdded(l) \/ LabelRemoved(l)
       PROVE  Goal
  <2>1. dialog \in OpenDialog
    BY <1>12 DEF LabelAdded, LabelRemoved, AtDialog, FavouritesInv, NoDialog
  <2>2. dialog' \in OpenDialog
    BY <1>12, <2>1 DEF LabelAdded, LabelRemoved, OpenDialog
  <2> QED BY <1>12, <1>asked, <2>2 DEF LabelAdded, LabelRemoved, table
<1>13. CASE UNCHANGED vars
  BY <1>13, <1>kept DEF vars, table, memory, disk, FavouritesInv
<1> QED
  BY <1>1, <1>2, <1>3, <1>4, <1>5, <1>6, <1>7, <1>8, <1>9, <1>10, <1>11, <1>12,
     <1>13, <1>14 DEF Next

(* A stored favourite is one until the user clears it in the dialog, over    *)
(* any scans, imports, closes and crashes between two rows being stored, for *)
(* any addresses, MACs, sightings and files.                                 *)
THEOREM FavouritesAreKept == Spec => StoredFavouriteStays
<1>1. FavouritesInv /\ [Next]_vars =>
        [\A k \in StoredKeys :
           db[k].favorite /\ ~(db'[k] # Absent /\ db'[k].favorite)
             => dialog.open /\ dialog.favorite /\ dialog'.open /\ ~dialog'.favorite]_vars
  BY FavouritesNext DEF KeepsMarks, StoredKeys
<1>2. FavouritesInv /\ [Next]_vars => FavouritesInv'
  BY FavouritesNext
<1> QED BY FavouritesInit, <1>1, <1>2, PTL DEF Spec, StoredFavouriteStays

-----------------------------------------------------------------------------
(* The views. *)

(* Every action is one of Inventory's, or leaves the inventory alone. *)
LEMMA ViewStep == ViewNext => [Next]_vars
<1> SUFFICES ASSUME ViewNext
             PROVE  [Next]_vars
  OBVIOUS
<1>1. CASE ShowInventory \/ BeginScan \/ ShowFinished
  BY <1>1 DEF ShowInventory, BeginScan, ShowFinished, Next
<1>7. ASSUME NEW d \in Imported, ShowImported(d)
      PROVE  Next
  BY <1>7 DEF ShowImported, Next
<1>6. CASE Question
  BY <1>6 DEF Question, Next
<1>2. CASE InDetailDialog
  BY <1>2 DEF InDetailDialog, Next
<1>3. CASE AskForReport \/ AnswerReport
  BY <1>3 DEF AskForReport, AnswerReport
<1>4. CASE LeaveWindow
  BY <1>4 DEF LeaveWindow, Next
<1>5. ASSUME NEW ip \in Ips, ShowDiscovered(ip) \/ ShowUpdated(ip)
      PROVE  Next
  BY <1>5 DEF ShowDiscovered, ShowUpdated, Next
<1> QED BY <1>1, <1>2, <1>3, <1>4, <1>5, <1>6, <1>7 DEF ViewNext

(* DeviceView implements Inventory. *)
THEOREM ViewsAddNothing == ViewSpec => Spec
<1>1. ViewInit => Init
  BY DEF ViewInit
<1>2. [ViewNext]_vvars => [Next]_vars
  BY ViewStep DEF vvars
<1> QED BY <1>1, <1>2, PTL DEF ViewSpec, Spec

-----------------------------------------------------------------------------
(* The inventory, as far as the views need it. *)
ScanInv ==
  /\ TableInv
  /\ scans \in Nat
  /\ ~up => scan = "idle"
  /\ scan = "idle" => \A ip \in Ips : found[ip] = Absent
  /\ DOMAIN found = Ips

(* Unless the table was emptied behind it, each host of a scan has a row. *)
HostsHaveRows == ~emptied => \A ip \in Ips : found[ip] # Absent => rowByIp[ip] # NoRow

(* Cards and charts.  Since the charts were last drawn in such a scan, or   *)
(* since it began, it has found at most chartThrottle rows.                 *)
FreshInv ==
  /\ chartThrottle \in 0 .. ChartPeriod - 1
  /\ Len(charts) \in Nat
  /\ up /\ (scan = "idle" \/ rows # <<>>) => cards = CardsOf(rows, newThisScan)
  /\ up /\ scan = "idle" => charts = Drawn(rows)
  /\ up /\ scan # "idle" /\ ~emptied =>
       \/ Len(rows) <= chartThrottle
       \/ Len(charts) <= Len(rows) /\ Len(rows) <= Len(charts) + chartThrottle

(* The last summary and where the rows come from. *)
ScanOfRows == IF scan = "idle" THEN lastSummary ELSE scans
SummaryInv ==
  /\ origin \in [Ips -> Int] /\ lastSummary \in Nat
  /\ ~up => origin = AllStored /\ lastSummary = 0
  /\ \A ip \in Ips : rowByIp[ip] # NoRow => origin[ip] \in {ScanOfRows, FromFile}
  /\ scan # "idle" => scans > 0
  /\ asking => up /\ (rows # <<>> \/ ScanOfRows > 0)

ViewInv == FavouritesInv /\ ScanInv /\ HostsHaveRows /\ FreshInv /\ SummaryInv

-----------------------------------------------------------------------------

LEMMA UpsertGrows ==
  ASSUME TableInv, NEW d, d.ip \in Ips, SetTable(Upsert(Table, d))
  PROVE  /\ Len(rows) \in Nat
         /\ Len(rows') = IF rowByIp[d.ip] # NoRow THEN Len(rows) ELSE Len(rows) + 1
         /\ \A ip \in Ips : rowByIp'[ip] # NoRow <=> rowByIp[ip] # NoRow \/ ip = d.ip
         /\ rows' # <<>>
<1> DEFINE n == Len(rows)
<1>1. rows \in Seq(ToSet(rows)) /\ n \in Nat /\ DOMAIN rows = 1 .. n
  BY LenProperties DEF TableInv, IsTable
<1>2. Len(<<>>) = 0
  BY EmptySeq
<1>3. CASE rowByIp[d.ip] # NoRow
  <2> DEFINE k == rowByIp[d.ip]
             e == Merge(d, rows[k])
  <2>1. rows' = [rows EXCEPT ![k] = e] /\ rowByIp' = rowByIp
    BY <1>3 DEF SetTable, Upsert, Table
  <2>2. k \in 1 .. n
    BY <1>1, <1>3 DEF TableInv, IsTable, Indexes
  <2>3. rows \in Seq(ToSet(rows) \cup {e})
    BY <1>1, SeqMonotonic
  <2>4. Len(rows') = n
    <3> HIDE DEF e
    <3> QED BY <2>1, <2>2, <2>3, ExceptSeq
  <2> QED BY <1>1, <1>2, <1>3, <2>1, <2>2, <2>4
<1>4. CASE rowByIp[d.ip] = NoRow
  <2>1. rows' = Append(rows, d) /\ rowByIp' = [rowByIp EXCEPT ![d.ip] = n + 1]
    BY <1>4 DEF SetTable, Upsert, Table
  <2>2. rows \in Seq(ToSet(rows) \cup {d})
    BY <1>1, SeqMonotonic
  <2>3. Len(rows') = n + 1
    BY <2>1, <2>2, AppendProperties
  <2>4. \A ip \in Ips : rowByIp'[ip] # NoRow <=> rowByIp[ip] # NoRow \/ ip = d.ip
    BY <1>1, <2>1 DEF TableInv, IsTable, Indexes, NoRow
  <2> QED BY <1>1, <1>2, <1>4, <2>3, <2>4
<1> QED BY <1>3, <1>4

(* Discovery. *)
LEMMA DiscoveredGrows ==
  ASSUME ScanInv, NEW ip \in Ips, DeviceDiscovered(ip)
  PROVE  /\ Len(rows) \in Nat
         /\ Len(rows') \in {Len(rows), Len(rows) + 1}
         /\ rows' # <<>>
         /\ DOMAIN found' = Ips
         /\ \A j \in Ips : found'[j] # Absent => found[j] # Absent \/ j = ip
         /\ \A j \in Ips : rowByIp'[j] # NoRow <=> rowByIp[j] # NoRow \/ j = ip
<1>1. PICK mac :
        /\ found' = [found EXCEPT ![ip] = mac]
        /\ LET d == Dressed(ip, mac)
               isNew == firstScanDone /\ Key(d) \notin knownKeys
           IN  SetTable(Upsert(Table, [d EXCEPT !.new = isNew]))
  BY DEF DeviceDiscovered
<1> DEFINE isNew == firstScanDone /\ Key(Dressed(ip, mac)) \notin knownKeys
           d == [Dressed(ip, mac) EXCEPT !.new = isNew]
<1>2. SetTable(Upsert(Table, d))
  BY <1>1
<1>3. d.ip = ip
  <2> HIDE DEF isNew
  <2> QED BY DEF Dressed
<1> HIDE DEF d
<1>4. /\ Len(rows) \in Nat
      /\ Len(rows') \in {Len(rows), Len(rows) + 1}
      /\ rows' # <<>>
      /\ \A j \in Ips : rowByIp'[j] # NoRow <=> rowByIp[j] # NoRow \/ j = ip
  BY <1>2, <1>3, UpsertGrows DEF ScanInv
<1>5. DOMAIN found' = Ips /\ \A j \in Ips : found'[j] # Absent => found[j] # Absent \/ j = ip
  BY <1>1 DEF ScanInv
<1> QED BY <1>4, <1>5

(* An update finds its row, or brings one. *)
LEMMA UpdatedStays ==
  ASSUME ScanInv, NEW ip \in Ips, DeviceUpdated(ip)
  PROVE  /\ Len(rows) \in Nat
         /\ rowByIp[ip] # NoRow => Len(rows') = Len(rows)
         /\ rows' # <<>>
         /\ DOMAIN found' = Ips
         /\ found[ip] # Absent
         /\ \A j \in Ips : found'[j] # Absent => found[j] # Absent
         /\ \A j \in Ips : rowByIp'[j] # NoRow <=> rowByIp[j] # NoRow \/ j = ip
<1>1. PICK mac : /\ found' = [found EXCEPT ![ip] = mac]
                 /\ SetTable(Upsert(Table, Dressed(ip, mac)))
  BY DEF DeviceUpdated
<1>2. found[ip] # Absent
  BY DEF DeviceUpdated
<1>3. Dressed(ip, mac).ip = ip
  BY DEF Dressed
<1>4. /\ Len(rows) \in Nat
      /\ rowByIp[ip] # NoRow => Len(rows') = Len(rows)
      /\ rows' # <<>>
      /\ \A j \in Ips : rowByIp'[j] # NoRow <=> rowByIp[j] # NoRow \/ j = ip
  BY <1>1, <1>3, UpsertGrows DEF ScanInv
<1>5. DOMAIN found' = Ips /\ \A j \in Ips : found'[j] # Absent => found[j] # Absent
  BY <1>1, <1>2 DEF ScanInv
<1> QED BY <1>2, <1>4, <1>5

LEMMA ImportedGrows ==
  ASSUME ScanInv, NEW d \in Imported, SetTable(Upsert(Table, d))
  PROVE  /\ d.ip \in Ips
         /\ rows' # <<>>
         /\ \A j \in Ips : rowByIp'[j] # NoRow <=> rowByIp[j] # NoRow \/ j = d.ip
<1>1. d.ip \in Ips
  BY ImportedAssumption DEF Device
<1> QED BY <1>1, UpsertGrows DEF ScanInv

-----------------------------------------------------------------------------

LEMMA ScanInvStep == ScanInv /\ [Next]_vars => ScanInv'
<1> SUFFICES ASSUME ScanInv, [Next]_vars
             PROVE  ScanInv'
  OBVIOUS
<1>t. TableInv'
  BY TableNext DEF ScanInv
<1>kept. ASSUME up' = up, rowByIp' = rowByIp, scan' = scan, found' = found, scans' = scans
         PROVE  ScanInv'
  BY <1>t, <1>kept DEF ScanInv
<1>none. ASSUME scan' = "idle", found' = NobodyFound, scans' = scans
         PROVE  ScanInv'
  BY <1>t, <1>none DEF ScanInv, NobodyFound
<1>1. CASE StartProgram
  BY <1>1, <1>t DEF StartProgram, ScanInv
<1>2. CASE StartScan \/ AnswerYes
  BY <1>2, <1>t DEF StartScan, AnswerYes, TableForScan, ScanInv
<1>13. CASE AskToStart \/ AnswerNo
  BY <1>13, <1>kept DEF AskToStart, AnswerNo, table, bounds
<1>3. CASE ScanFinished
  BY <1>3, <1>none DEF ScanFinished, bounds
<1>4. ASSUME NEW d \in Imported, ImportData(d)
      PROVE  ScanInv'
  BY <1>4, <1>t DEF ImportData, ScanInv, bounds
<1>5. CASE CloseDialog
  BY <1>5, <1>kept DEF CloseDialog, table, bounds
<1>6. CASE FavoriteToggled
  BY <1>6, <1>kept DEF FavoriteToggled, bounds
<1>7. CASE CloseWindow \/ Crash
  BY <1>7, <1>none DEF CloseWindow, Crash, ProcessEnds, bounds
<1>8. ASSUME NEW ip \in Ips, DeviceDiscovered(ip)
      PROVE  ScanInv'
  BY <1>8, <1>t, DiscoveredGrows DEF DeviceDiscovered, ScanInv, bounds
<1>9. ASSUME NEW ip \in Ips, DeviceUpdated(ip)
      PROVE  ScanInv'
  BY <1>9, <1>t, UpdatedStays DEF DeviceUpdated, ScanInv, bounds
<1>10. ASSUME NEW ip \in Ips, OpenDeviceDetail(ip)
       PROVE  ScanInv'
  BY <1>10, <1>kept DEF OpenDeviceDetail, table, bounds
<1>11. ASSUME NEW l \in Labels, LabelAdded(l) \/ LabelRemoved(l)
       PROVE  ScanInv'
  BY <1>11, <1>kept DEF LabelAdded, LabelRemoved, table, bounds
<1>12. CASE UNCHANGED vars
  BY <1>12, <1>kept DEF vars, table, bounds
<1> QED
  BY <1>1, <1>2, <1>3, <1>4, <1>5, <1>6, <1>7, <1>8, <1>9, <1>10, <1>11, <1>12,
     <1>13 DEF Next

-----------------------------------------------------------------------------

LEMMA DrawnLength ==
  ASSUME NEW devices, NEW index, IsTable(devices, index)
  PROVE  /\ Len(Drawn(devices)) = Len(devices)
         /\ Len(devices) \in Nat
         /\ Len(devices) = 0 <=> devices = <<>>
<1> DEFINE n == Len(devices)
           S == {Key(devices[i]) : i \in 1 .. n}
<1>1. devices \in Seq(ToSet(devices)) /\ n \in Nat /\ DOMAIN devices = 1 .. n
  BY LenProperties DEF IsTable
<1>2. Drawn(devices) \in [1 .. n -> S]
  BY <1>1 DEF Drawn
<1>3. Drawn(devices) \in Seq(S)
  <2> HIDE DEF S
  <2> QED BY <1>1, <1>2, FunctionIsSeq
<1>4. DOMAIN Drawn(devices) = 1 .. Len(Drawn(devices)) /\ Len(Drawn(devices)) \in Nat
  BY <1>3, LenProperties
<1>5. Len(Drawn(devices)) = n
  BY <1>1, <1>2, <1>4
<1> QED BY <1>1, <1>5, EmptySeq

(* Nothing the dialogs do changes what a view shows. *)
LEMMA DialogKeepsRows ==
  ASSUME TableInv, InDetailDialog
  PROVE  /\ Len(rows') = Len(rows) /\ Drawn(rows') = Drawn(rows)
         /\ UNCHANGED <<up, scan, newThisScan, view>>
<1>kept. ASSUME rows' = rows
         PROVE  Len(rows') = Len(rows) /\ Drawn(rows') = Drawn(rows)
  BY <1>kept
<1>1. CASE FavoriteToggled
  <2>1. UNCHANGED <<up, scan, newThisScan, view>>
    BY <1>1 DEF FavoriteToggled, InDetailDialog
  <2>2. CASE rows' = rows
    BY <1>kept, <2>1, <2>2
  <2>3. CASE rows' # rows
    <3>1. rows' = [rows EXCEPT ![RowOfDialog].favorite = ~@] /\ rowByIp' = rowByIp
      BY <1>1, <2>3 DEF FavoriteToggled
    <3>2. /\ Len(rows') = Len(rows) /\ DOMAIN rows' = DOMAIN rows
          /\ \A i \in DOMAIN rows : rows'[i].ip = rows[i].ip /\ rows'[i].mac = rows[i].mac
      BY <3>1, ToggledIsTable
    <3>3. Drawn(rows') = Drawn(rows)
      BY <3>2 DEF Drawn, Key
    <3> QED BY <2>1, <3>2, <3>3
  <2> QED BY <2>2, <2>3
<1>2. CASE CloseDialog \/ \E ip \in Ips : OpenDeviceDetail(ip)
  BY <1>2, <1>kept DEF CloseDialog, OpenDeviceDetail, InDetailDialog, table
<1>3. CASE \E l \in Labels : LabelAdded(l) \/ LabelRemoved(l)
  BY <1>3, <1>kept DEF LabelAdded, LabelRemoved, InDetailDialog, table
<1> QED BY <1>1, <1>2, <1>3 DEF InDetailDialog

LEMMA RowsStep ==
  ASSUME ScanInv, ScanInv', HostsHaveRows, [ViewNext]_vvars
  PROVE  HostsHaveRows'
<1>idle. CASE scan' = "idle"
  BY <1>idle DEF ScanInv, HostsHaveRows
<1>kept. ASSUME UNCHANGED <<rowByIp, found, emptied>>
         PROVE  HostsHaveRows'
  BY <1>kept DEF HostsHaveRows
<1>1. CASE ShowInventory
  BY <1>1, <1>idle DEF ShowInventory, StartProgram, ScanInv
<1>2. CASE BeginScan
  <2>1. found' = found /\ emptied' = (scan # "idle")
    BY <1>2 DEF BeginScan, StartScan, AnswerYes, TableForScan
  <2> QED BY <2>1 DEF HostsHaveRows, ScanInv
<1>3. CASE Question
  BY <1>3, <1>kept DEF Question, AskToStart, AnswerNo, table, view
<1>4. CASE ShowFinished
  BY <1>4, <1>idle DEF ShowFinished, ScanFinished
<1>5. ASSUME NEW d \in Imported, ShowImported(d)
      PROVE  HostsHaveRows'
  <2>1. SetTable(Upsert(Table, d))
    BY <1>5 DEF ShowImported, ImportData
  <2>2. found' = found /\ emptied' = emptied
    BY <1>5 DEF ShowImported, ImportData
  <2> QED BY <2>1, <2>2, ImportedGrows DEF HostsHaveRows
<1>6. CASE InDetailDialog
  BY <1>6, <1>kept DEF InDetailDialog, OpenDeviceDetail, CloseDialog, FavoriteToggled,
     LabelAdded, LabelRemoved, table, view
<1>7. CASE AskForReport \/ AnswerReport
  BY <1>7, <1>kept DEF AskForReport, AnswerReport, vars, table
<1>8. CASE LeaveWindow
  BY <1>8, <1>idle DEF LeaveWindow, CloseWindow, Crash, ProcessEnds
<1>9. ASSUME NEW ip \in Ips, ShowDiscovered(ip)
      PROVE  HostsHaveRows'
  <2>1. DeviceDiscovered(ip) /\ emptied' = emptied
    BY <1>9 DEF ShowDiscovered
  <2> QED BY <2>1, DiscoveredGrows DEF HostsHaveRows
<1>10. ASSUME NEW ip \in Ips, ShowUpdated(ip)
       PROVE  HostsHaveRows'
  <2>1. DeviceUpdated(ip) /\ emptied' = emptied
    BY <1>10 DEF ShowUpdated
  <2> QED BY <2>1, UpdatedStays DEF HostsHaveRows
<1>11. CASE UNCHANGED vvars
  BY <1>11, <1>kept DEF vvars, vars, table, view
<1> QED
  BY <1>1, <1>2, <1>3, <1>4, <1>5, <1>6, <1>7, <1>8, <1>9, <1>10, <1>11 DEF ViewNext

(* A program that is being opened, or that ends, has no scan. *)
LEMMA FreshStep ==
  ASSUME ScanInv, ScanInv', HostsHaveRows, FreshInv, [ViewNext]_vvars
  PROVE  FreshInv'
<1> DEFINE n == Len(rows)
           Keeps == Len(rows') = n /\ Drawn(rows') = Drawn(rows)
<1>1. n \in Nat /\ Len(Drawn(rows)) = n /\ (n = 0 <=> rows = <<>>)
  BY DrawnLength DEF ScanInv, TableInv
<1>2. Len(rows') \in Nat /\ Len(Drawn(rows')) = Len(rows') /\ (Len(rows') = 0 <=> rows' = <<>>)
  <2>1. IsTable(rows', rowByIp')
    BY DEF ScanInv, TableInv
  <2> QED BY <2>1, DrawnLength
<1>3. ChartPeriod \in Nat \ {0}
  BY ViewAssumption
<1>drawn. ASSUME UpdateCards, DrawCharts, chartThrottle' = chartThrottle
          PROVE  FreshInv'
  BY <1>drawn, <1>2 DEF FreshInv, UpdateCards, DrawCharts
<1>same. ASSUME Keeps, UNCHANGED <<up, scan, newThisScan, cards, charts, chartThrottle, emptied>>
         PROVE  FreshInv'
  BY <1>same, <1>1, <1>2 DEF FreshInv, CardsOf
<1>4. CASE ShowInventory \/ ShowFinished
  BY <1>4, <1>drawn DEF ShowInventory, ShowFinished
<1>13. ASSUME NEW d \in Imported, ShowImported(d)
       PROVE  FreshInv'
  BY <1>13, <1>drawn DEF ShowImported
<1>5. CASE BeginScan
  <2>1. /\ rows' = <<>> /\ scan' # "idle"
        /\ chartThrottle' = 0 /\ UNCHANGED <<cards, charts>>
    BY <1>5 DEF BeginScan, StartScan, AnswerYes, TableForScan, ClearTable
  <2> QED BY <1>1, <1>2, <1>3, <2>1, EmptySeq DEF FreshInv
<1>12. CASE Question
  BY <1>12, <1>same DEF Question, AskToStart, AnswerNo, table, view
<1>6. CASE InDetailDialog
  BY <1>6, <1>same, DialogKeepsRows DEF ScanInv, view
<1>7. CASE AskForReport \/ AnswerReport
  BY <1>7, <1>same DEF AskForReport, AnswerReport, vars, table
<1>8. CASE LeaveWindow
  <2>1. up' = FALSE /\ charts' = <<>> /\ chartThrottle' = 0
    BY <1>8 DEF LeaveWindow, CloseWindow, Crash, ProcessEnds, NoCharts
  <2> QED BY <1>3, <2>1, EmptySeq DEF FreshInv
<1>9. ASSUME NEW ip \in Ips, ShowDiscovered(ip)
      PROVE  FreshInv'
  <2>1. /\ Len(rows') \in {n, n + 1}
        /\ scan' # "idle" /\ emptied' = emptied
        /\ chartThrottle' = (chartThrottle + 1) % ChartPeriod
        /\ IF chartThrottle' = 0 THEN DrawCharts ELSE UNCHANGED charts
        /\ cards' = CardsOf(rows', newThisScan')
        /\ up /\ scan # "idle"
    BY <1>9, DiscoveredGrows
       DEF ShowDiscovered, DeviceDiscovered, CardsAtOnce, UpdateCards
  <2>2. chartThrottle' = IF chartThrottle + 1 = ChartPeriod THEN 0 ELSE chartThrottle + 1
    BY <1>3, <2>1 DEF FreshInv
  <2>3. chartThrottle' \in 0 .. ChartPeriod - 1
    BY <1>3, <2>2 DEF FreshInv
  <2>4. CASE chartThrottle' = 0
    BY <1>2, <2>1, <2>3, <2>4 DEF FreshInv, DrawCharts
  <2>5. CASE chartThrottle' # 0
    BY <1>1, <1>2, <2>1, <2>2, <2>3, <2>5 DEF FreshInv
  <2> QED BY <2>4, <2>5
<1>10. ASSUME NEW ip \in Ips, ShowUpdated(ip)
       PROVE  FreshInv'
  <2>1. /\ up' = up /\ up /\ scan # "idle" /\ scan' # "idle"
        /\ cards' = CardsOf(rows', newThisScan')
        /\ UNCHANGED <<charts, chartThrottle, emptied>>
    BY <1>10 DEF ShowUpdated, DeviceUpdated, UpdateCards
  <2>2. ~emptied => Len(rows') = n
    BY <1>10, UpdatedStays DEF ShowUpdated, HostsHaveRows
  <2> QED BY <2>1, <2>2 DEF FreshInv
<1>11. CASE UNCHANGED vvars
  BY <1>11, <1>same DEF vvars, vars, view, table
<1> QED
  BY <1>4, <1>5, <1>6, <1>7, <1>8, <1>9, <1>10, <1>11, <1>12, <1>13
     DEF ViewNext

LEMMA SummaryStep ==
  ASSUME ScanInv, ScanInv', SummaryInv, [ViewNext]_vvars
  PROVE  SummaryInv'
<1>1. Len(rows) \in Nat /\ (Len(rows) = 0 <=> rows = <<>>)
  BY DrawnLength DEF ScanInv, TableInv
<1>2. Len(rows') = 0 <=> rows' = <<>>
  <2>1. IsTable(rows', rowByIp')
    BY DEF ScanInv, TableInv
  <2> QED BY <2>1, DrawnLength
<1>same. ASSUME Len(rows') = Len(rows),
                UNCHANGED <<up, rowByIp, scan, scans, lastSummary, asking, origin>>
         PROVE  SummaryInv'
  BY <1>same, <1>1, <1>2 DEF SummaryInv, ScanOfRows
<1>brought. ASSUME NEW ip \in Ips, NEW from \in {ScanOfRows, FromFile},
                   origin' = [origin EXCEPT ![ip] = from],
                   \A j \in Ips : rowByIp'[j] # NoRow <=> rowByIp[j] # NoRow \/ j = ip,
                   rows' # <<>>, up, up', ScanOfRows' = ScanOfRows,
                   scan' = "idle" <=> scan = "idle",
                   UNCHANGED <<scans, lastSummary, asking>>
            PROVE  SummaryInv'
  <2>1. from \in Int
    BY <1>brought DEF SummaryInv, ScanOfRows, ScanInv, FromFile
  <2>2. origin' \in [Ips -> Int]
    BY <1>brought, <2>1 DEF SummaryInv
  <2>3. \A j \in Ips : origin'[j] = IF j = ip THEN from ELSE origin[j]
    BY <1>brought DEF SummaryInv
  <2>4. \A j \in Ips : rowByIp'[j] # NoRow => origin'[j] \in {ScanOfRows, FromFile}
    BY <1>brought, <2>3 DEF SummaryInv
  <2> QED BY <1>brought, <2>2, <2>4 DEF SummaryInv
<1>3. CASE ShowInventory
  <2>1. /\ up' = TRUE /\ scan' = "idle" /\ asking' = FALSE
        /\ lastSummary' = 0 /\ origin' = AllStored
    BY <1>3 DEF ShowInventory, StartProgram, SummaryInv, ScanInv
  <2>2. origin' \in [Ips -> Int] /\ \A ip \in Ips : origin'[ip] = 0
    BY <2>1 DEF AllStored, Stored
  <2> QED BY <2>1, <2>2 DEF SummaryInv, ScanOfRows
<1>4. CASE BeginScan
  <2>1. /\ up' = TRUE /\ scan' # "idle" /\ asking' = asking
        /\ lastSummary' = lastSummary /\ origin' = AllStored
        /\ rowByIp' = EmptyIndex
    BY <1>4 DEF BeginScan, StartScan, AnswerYes, TableForScan, ClearTable, ScanInv
  <2>2. scans' = IF scan = "idle" THEN scans + 1 ELSE scans
    BY <1>4 DEF BeginScan, StartScan, AnswerYes, TableForScan
  <2>3. scans' > 0
    BY <2>2 DEF SummaryInv, ScanInv
  <2>4. origin' \in [Ips -> Int]
    BY <2>1 DEF AllStored, Stored
  <2>5. \A ip \in Ips : rowByIp'[ip] = NoRow
    BY <2>1 DEF EmptyIndex
  <2> QED BY <2>1, <2>3, <2>4, <2>5 DEF SummaryInv, ScanOfRows
<1>14. CASE Question
  BY <1>14, <1>same DEF Question, AskToStart, AnswerNo, table, bounds, view
<1>5. CASE ShowFinished
  <2>1. /\ up' = up /\ up /\ scan # "idle" /\ scan' = "idle" /\ asking' = asking
        /\ rows' = rows /\ rowByIp' = rowByIp /\ scans' = scans
        /\ lastSummary' = scans /\ origin' = origin
    BY <1>5 DEF ShowFinished, ScanFinished, SummaryOfScan, bounds
  <2> QED BY <2>1 DEF SummaryInv, ScanOfRows, ScanInv
<1>6. ASSUME NEW d \in Imported, ShowImported(d)
      PROVE  SummaryInv'
  <2>1. SetTable(Upsert(Table, d))
    BY <1>6 DEF ShowImported, ImportData
  <2>2. /\ up /\ up' = up /\ scan' = scan /\ asking' = asking /\ scans' = scans
        /\ lastSummary' = lastSummary /\ origin' = [origin EXCEPT ![d.ip] = FromFile]
    BY <1>6 DEF ShowImported, ImportData, AtWindow, bounds
  <2> QED BY <1>brought, <2>1, <2>2, ImportedGrows DEF ScanOfRows
<1>7. CASE InDetailDialog
  <2>1. scans' = scans /\ rowByIp' = rowByIp
    BY <1>7 DEF InDetailDialog, OpenDeviceDetail, CloseDialog, FavoriteToggled, LabelAdded,
               LabelRemoved, table, bounds
  <2> QED BY <1>7, <1>same, <2>1, DialogKeepsRows DEF ScanInv, view
<1>8. CASE AskForReport
  BY <1>8 DEF AskForReport, AtWindow, SummaryInv, ScanOfRows, vars, table, bounds
<1>9. CASE AnswerReport
  BY <1>9 DEF AnswerReport, SummaryInv, ScanOfRows, vars, table, bounds
<1>10. CASE LeaveWindow
  <2>1. /\ up' = FALSE /\ scan' = "idle" /\ asking' = FALSE /\ rowByIp' = EmptyIndex
        /\ lastSummary' = 0 /\ origin' = AllStored
    BY <1>10 DEF LeaveWindow, CloseWindow, Crash, ProcessEnds
  <2>2. origin' \in [Ips -> Int] /\ \A ip \in Ips : rowByIp'[ip] = NoRow
    BY <2>1 DEF AllStored, Stored, EmptyIndex
  <2> QED BY <2>1, <2>2 DEF SummaryInv
<1>11. ASSUME NEW ip \in Ips, ShowDiscovered(ip)
       PROVE  SummaryInv'
  <2>1. /\ DeviceDiscovered(ip) /\ rows' # <<>>
        /\ \A j \in Ips : rowByIp'[j] # NoRow <=> rowByIp[j] # NoRow \/ j = ip
    BY <1>11, DiscoveredGrows DEF ShowDiscovered
  <2>2. /\ up' = up /\ up /\ scan' = scan /\ scan # "idle"
        /\ UNCHANGED <<scans, lastSummary, asking>>
        /\ origin' = [origin EXCEPT ![ip] = scans]
    BY <1>11 DEF ShowDiscovered, DeviceDiscovered, bounds
  <2> QED BY <1>brought, <2>1, <2>2 DEF ScanOfRows
<1>12. ASSUME NEW ip \in Ips, ShowUpdated(ip)
       PROVE  SummaryInv'
  <2>1. /\ DeviceUpdated(ip) /\ rows' # <<>>
        /\ \A j \in Ips : rowByIp'[j] # NoRow <=> rowByIp[j] # NoRow \/ j = ip
    BY <1>12, UpdatedStays DEF ShowUpdated
  <2>2. /\ up' = up /\ up /\ scan' # "idle" /\ scan # "idle"
        /\ UNCHANGED <<scans, lastSummary, asking>>
        /\ origin' = [origin EXCEPT ![ip] = scans]
    BY <1>12 DEF ShowUpdated, DeviceUpdated, bounds
  <2> QED BY <1>brought, <2>1, <2>2 DEF ScanOfRows
<1>13. CASE UNCHANGED vvars
  BY <1>13, <1>same DEF vvars, vars, view, table, bounds
<1> QED
  BY <1>3, <1>4, <1>5, <1>6, <1>7, <1>8, <1>9, <1>10, <1>11, <1>12, <1>13, <1>14
     DEF ViewNext

LEMMA ViewInvInit == ViewInit => ViewInv
<1> SUFFICES ASSUME ViewInit
             PROVE  ViewInv
  OBVIOUS
<1>1. Init
  BY DEF ViewInit
<1>2. ScanInv
  BY <1>1, TableInit DEF Init, ScanInv, NobodyFound
<1>3. FreshInv
  BY <1>1, ViewAssumption, EmptySeq DEF ViewInit, Init, FreshInv, NoCharts
<1>4. SummaryInv
  <2>1. origin = AllStored /\ origin \in [Ips -> Int]
    BY DEF ViewInit, AllStored, Stored
  <2>2. \A ip \in Ips : rowByIp[ip] = NoRow
    BY <1>1 DEF Init, EmptyIndex
  <2> QED BY <1>1, <2>1, <2>2 DEF ViewInit, Init, SummaryInv
<1>5. HostsHaveRows
  BY <1>2, <1>1 DEF Init, ScanInv, HostsHaveRows
<1> QED BY <1>1, <1>2, <1>3, <1>4, <1>5, FavouritesInit DEF ViewInv

LEMMA ViewInvNext == ViewInv /\ [ViewNext]_vvars => ViewInv'
<1> SUFFICES ASSUME ViewInv, [ViewNext]_vvars
             PROVE  ViewInv'
  OBVIOUS
<1>1. [Next]_vars
  BY ViewStep DEF vvars
<1>2. ScanInv' /\ FavouritesInv'
  BY <1>1, ScanInvStep, FavouritesNext DEF ViewInv
<1> QED BY <1>2, RowsStep, FreshStep, SummaryStep DEF ViewInv

(* Cards and charts are as fresh as they should be. *)
THEOREM CardsAndChartsAreFresh == ViewSpec => []ViewsAreFresh
<1>1. ViewInv => ViewsAreFresh
  <2> SUFFICES ASSUME ViewInv, up
               PROVE  /\ (scan = "idle" \/ rows # <<>>) => cards = CardsOf(rows, newThisScan)
                      /\ scan = "idle" => charts = Drawn(rows)
                      /\ scan # "idle" /\ ~emptied /\ Len(rows) >= ChartPeriod =>
                           Len(charts) <= Len(rows) /\ Len(rows) - Len(charts) < ChartPeriod
    BY DEF ViewsAreFresh
  <2>1. Len(rows) \in Nat
    BY DrawnLength DEF ViewInv, ScanInv, TableInv
  <2> QED BY <2>1, ViewAssumption DEF ViewInv, FreshInv
<1> QED BY ViewInvInit, ViewInvNext, <1>1, PTL DEF ViewSpec

(* A report holds, under the last summary, no row of another scan and none  *)
(* that was stored before it, but rows imported since.                      *)
THEOREM ReportsAreOfOneScan == ViewSpec => []ReportIsOfOneScan
<1>1. ViewInv => ReportIsOfOneScan
  <2> SUFFICES ASSUME ViewInv, asking, scan = "idle"
               PROVE  /\ \A i \in DOMAIN rows : origin[rows[i].ip] \in {lastSummary, FromFile}
                      /\ rows = <<>> => lastSummary > 0
    BY DEF ReportIsOfOneScan, Report
  <2>1. ASSUME NEW i \in DOMAIN rows
        PROVE  rows[i].ip \in Ips /\ rowByIp[rows[i].ip] # NoRow
    BY DEF ViewInv, FavouritesInv, AreDevices, Device, TableInv, IsTable, Indexes
  <2> QED BY <2>1 DEF ViewInv, SummaryInv, ScanOfRows
<1> QED BY ViewInvInit, ViewInvNext, <1>1, PTL DEF ViewSpec
-----------------------------------------------------------------------------
(* The table as it is shown. *)

(* A numbering that follows a total order of a finite set, and is not       *)
(* larger than the set, gives every number to one element.                  *)
LEMMA NumbersAreTaken ==
  ASSUME NEW A, IsFiniteSet(A), NEW R,
         \A i, j \in A : i # j => <<i, j>> \in R \/ <<j, i>> \in R,
         NEW place \in [A -> 1 .. Cardinality(A)],
         \A i, j \in A : <<i, j>> \in R => place[i] < place[j]
  PROVE  /\ {place[i] : i \in A} = 1 .. Cardinality(A)
         /\ \A i, j \in A : place[i] \in Nat /\ (place[i] < place[j] => <<i, j>> \in R)
<1> DEFINE n == Cardinality(A)
<1>1. n \in Nat
  BY FS_CardinalityType
<1>2. ASSUME NEW i \in A, NEW j \in A
      PROVE  /\ place[i] \in Nat
             /\ place[i] < place[j] => <<i, j>> \in R
             /\ place[i] = place[j] => i = j
  <2>1. place[i] \in Nat /\ place[j] \in Nat
    BY <1>1
  <2>2. CASE i = j
    BY <2>1, <2>2
  <2>3. CASE <<i, j>> \in R
    <3>1. place[i] < place[j]
      BY <2>3
    <3> QED
      BY <2>1, <2>3, <3>1
  <2>4. CASE <<j, i>> \in R
    <3>1. place[j] < place[i]
      BY <2>4
    <3> QED
      BY <2>1, <3>1
  <2> QED
    BY <2>2, <2>3, <2>4
<1>3. place \in Injection(A, 1 .. n)
  BY <1>2 DEF Injection, IsInjective
<1>4. IsFiniteSet(1 .. n) /\ Cardinality(1 .. n) = n
  BY <1>1, FS_Interval
<1>5. place \in Surjection(A, 1 .. n)
  BY <1>3, <1>4, FS_Injection
<1>6. \A k \in 1 .. n : \E i \in A : place[i] = k
  BY <1>5 DEF Surjection
<1>7. {place[i] : i \in A} = 1 .. n
  BY <1>6
<1> QED
  BY <1>2, <1>7

Numbering(A, R) == [i \in A |-> Cardinality({j \in A : j = i \/ <<j, i>> \in R})]

(* In a strict total order on a finite set, to count what does not come     *)
(* after an element is to number the set from 1, in this order.             *)
LEMMA CountsNumber ==
  ASSUME NEW A, IsFiniteSet(A), NEW R,
         \A i \in A : <<i, i>> \notin R,
         \A i, j, k \in A : <<i, j>> \in R /\ <<j, k>> \in R => <<i, k>> \in R,
         NEW place, place = Numbering(A, R)
  PROVE  /\ place \in [A -> 1 .. Cardinality(A)]
         /\ \A i, j \in A : <<i, j>> \in R => place[i] < place[j]
<1> DEFINE upTo(i) == {j \in A : j = i \/ <<j, i>> \in R}
           n == Cardinality(A)
<1>n. n \in Nat
  BY FS_CardinalityType
<1>1. ASSUME NEW i \in A
      PROVE  /\ place[i] = Cardinality(upTo(i)) /\ IsFiniteSet(upTo(i))
             /\ place[i] \in 1 .. n
  <2>1. upTo(i) \in SUBSET A /\ i \in upTo(i) /\ place[i] = Cardinality(upTo(i))
    BY DEF Numbering
  <2> HIDE DEF upTo, n
  <2>2. IsFiniteSet(upTo(i)) /\ Cardinality(upTo(i)) <= n
    BY <2>1, FS_Subset DEF n
  <2>3. Cardinality(upTo(i)) \in Nat /\ (Cardinality(upTo(i)) = 0 <=> upTo(i) = {})
    BY <2>2, FS_CardinalityType, FS_EmptySet
  <2> QED
    BY <1>n, <2>1, <2>2, <2>3
<1>2. ASSUME NEW i \in A, NEW j \in A, <<i, j>> \in R
      PROVE  place[i] < place[j]
  <2>1. upTo(i) \in SUBSET upTo(j) /\ j \in upTo(j) /\ j \notin upTo(i)
    BY <1>2
  <2> HIDE DEF upTo
  <2>2. /\ Cardinality(upTo(i)) <= Cardinality(upTo(j))
        /\ Cardinality(upTo(i)) # Cardinality(upTo(j))
    BY <1>1, <2>1, FS_Subset
  <2> QED
    BY <1>n, <1>1, <2>2
<1>3. place = [i \in A |-> place[i]]
  BY DEF Numbering
<1> HIDE DEF upTo
<1> QED
  BY <1>1, <1>2, <1>3

(* What is shown, sorted either way, orders the accepted rows. *)
LEMMA BeforeOrders ==
  ASSUME TableInv, NEW shown \in Shown,
         NEW A, A = {i \in DOMAIN rows : FilterAcceptsRow(rows[i], shown)}
  PROVE  /\ \A i \in A : ~Before(i, i, shown)
         /\ \A i, j \in A : i # j => Before(i, j, shown) \/ Before(j, i, shown)
         /\ \A i, j, k \in A : Before(i, j, shown) /\ Before(j, k, shown) => Before(i, k, shown)
         /\ \A i, j \in A : Before(i, j, shown) =>
              IF Apart(rows[i], rows[j], shown) THEN shown.ascending => IsPrioritized(rows[i])
              ELSE IF shown.ascending THEN Rank[rows[i].ip] <= Rank[rows[j].ip]
              ELSE Rank[rows[i].ip] >= Rank[rows[j].ip]
<1> DEFINE P(i) == IsPrioritized(rows[i])
           K(i) == Rank[rows[i].ip]
           less(i, j) == LessThan(rows[i], rows[j], shown)
<1>1. \A i \in A : i \in Int /\ K(i) \in Int /\ P(i) \in BOOLEAN
  <2>1. DOMAIN rows \subseteq Int
    BY LenProperties DEF TableInv, IsTable
  <2> QED
    BY <2>1, ViewAssumption DEF FilterAcceptsRow, Shown, IsPrioritized
<1>2. \A i, j \in A : less(i, j) <=> IF shown.prioritize /\ P(i) # P(j) THEN P(i) ELSE K(i) < K(j)
  BY DEF LessThan
<1>3. \A i, j \in A :
        Before(i, j, shown) <=>
          IF shown.ascending THEN less(i, j) \/ (~less(j, i) /\ i < j)
          ELSE less(j, i) \/ (~less(i, j) /\ i < j)
  BY DEF Before
<1>4. shown.prioritize \in BOOLEAN /\ shown.ascending \in BOOLEAN
  BY DEF Shown
<1> HIDE DEF P, K, less
<1>5. \A i \in A : ~Before(i, i, shown)
  BY <1>1, <1>2, <1>3
<1>6. \A i, j \in A : i # j => Before(i, j, shown) \/ Before(j, i, shown)
  BY <1>1, <1>2, <1>3, <1>4
<1>7. \A i, j, k \in A : Before(i, j, shown) /\ Before(j, k, shown) => Before(i, k, shown)
  BY <1>1, <1>2, <1>3, <1>4
<1>8. ASSUME NEW i \in A, NEW j \in A, Before(i, j, shown)
      PROVE  IF shown.prioritize /\ P(i) # P(j) THEN shown.ascending => P(i)
             ELSE IF shown.ascending THEN K(i) <= K(j) ELSE K(i) >= K(j)
  BY <1>1, <1>2, <1>3, <1>4, <1>8
<1> QED
  BY <1>5, <1>6, <1>7, <1>8 DEF P, K, Apart

(* Every accepted row has a place of its own, and the column orders each of *)
(* the two kinds; sorted upwards with priority, favourites and new devices  *)
(* come first: for every filter and any number of rows.                     *)
THEOREM TableIsSorted == ViewSpec => []TableIsInOrder
<1>1. TableInv => TableIsInOrder
  <2> SUFFICES ASSUME TableInv, NEW shown \in Shown
               PROVE  LET visible == Visible(shown) IN
                      /\ {v.place : v \in visible} =
                           1 .. Cardinality({i \in DOMAIN rows : FilterAcceptsRow(rows[i], shown)})
                      /\ \A v, w \in visible :
                           v.place < w.place =>
                             IF Apart(v.row, w.row, shown)
                             THEN shown.ascending => IsPrioritized(v.row)
                             ELSE IF shown.ascending THEN Rank[v.row.ip] <= Rank[w.row.ip]
                             ELSE Rank[v.row.ip] >= Rank[w.row.ip]
    BY DEF TableIsInOrder
  <2> DEFINE A == {i \in DOMAIN rows : FilterAcceptsRow(rows[i], shown)}
             R == {e \in A \X A : Before(e[1], e[2], shown)}
             place == Numbering(A, R)
  <2>1. IsFiniteSet(A)
    <3>1. DOMAIN rows = 1 .. Len(rows) /\ Len(rows) \in Nat
      BY LenProperties DEF TableInv, IsTable
    <3>2. IsFiniteSet(1 .. Len(rows)) /\ A \in SUBSET (1 .. Len(rows))
      BY <3>1, FS_Interval
    <3> HIDE DEF A
    <3> QED
      BY <3>2, FS_Subset
  <2>2. Visible(shown) = {[row |-> rows[i], place |-> place[i]] : i \in A}
    <3>1. ASSUME NEW i \in A
          PROVE  place[i] = Cardinality({j \in A : j = i \/ Before(j, i, shown)})
      <4>1. {j \in A : j = i \/ <<j, i>> \in R} = {j \in A : j = i \/ Before(j, i, shown)}
        OBVIOUS
      <4> HIDE DEF A, R
      <4> QED
        BY <4>1 DEF Numbering
    <3> QED
      BY <3>1 DEF Visible
  <2>3. /\ \A i \in A : ~Before(i, i, shown)
        /\ \A i, j \in A : i # j => Before(i, j, shown) \/ Before(j, i, shown)
        /\ \A i, j, k \in A : Before(i, j, shown) /\ Before(j, k, shown) => Before(i, k, shown)
        /\ \A i, j \in A : Before(i, j, shown) =>
             IF Apart(rows[i], rows[j], shown) THEN shown.ascending => IsPrioritized(rows[i])
             ELSE IF shown.ascending THEN Rank[rows[i].ip] <= Rank[rows[j].ip]
             ELSE Rank[rows[i].ip] >= Rank[rows[j].ip]
    BY BeforeOrders
  <2> HIDE DEF A
  <2>4. \A i, j \in A : <<i, j>> \in R <=> Before(i, j, shown)
    OBVIOUS
  <2> HIDE DEF R
  <2>5. /\ {place[i] : i \in A} = 1 .. Cardinality(A)
        /\ \A i, j \in A : place[i] \in Nat /\ (place[i] < place[j] => <<i, j>> \in R)
    <3>1. /\ \A i \in A : <<i, i>> \notin R
          /\ \A i, j \in A : i # j => <<i, j>> \in R \/ <<j, i>> \in R
          /\ \A i, j, k \in A : <<i, j>> \in R /\ <<j, k>> \in R => <<i, k>> \in R
      BY <2>3, <2>4
    <3>2. place = Numbering(A, R)
      OBVIOUS
    <3> HIDE DEF place
    <3>3. /\ place \in [A -> 1 .. Cardinality(A)]
          /\ \A i, j \in A : <<i, j>> \in R => place[i] < place[j]
      BY <2>1, <3>1, <3>2, CountsNumber
    <3> QED
      BY <2>1, <3>1, <3>3, NumbersAreTaken
  <2> HIDE DEF place
  <2>6. {v.place : v \in Visible(shown)} = {place[i] : i \in A}
    <3>1. \A i \in A : [row |-> rows[i], place |-> place[i]].place = place[i]
      OBVIOUS
    <3>2. ASSUME NEW v \in Visible(shown)
          PROVE  v.place \in {place[i] : i \in A}
      BY <2>2, <3>1
    <3>3. ASSUME NEW i \in A
          PROVE  place[i] \in {v.place : v \in Visible(shown)}
      <4>1. [row |-> rows[i], place |-> place[i]] \in Visible(shown)
        BY <2>2
      <4> QED
        BY <3>1, <4>1
    <3> QED
      BY <3>2, <3>3
  <2>7. ASSUME NEW v \in Visible(shown), NEW w \in Visible(shown),
               v.place < w.place
        PROVE  IF Apart(v.row, w.row, shown) THEN shown.ascending => IsPrioritized(v.row)
               ELSE IF shown.ascending THEN Rank[v.row.ip] <= Rank[w.row.ip]
               ELSE Rank[v.row.ip] >= Rank[w.row.ip]
    <3>1. PICK i \in A : v = [row |-> rows[i], place |-> place[i]]
      BY <2>2
    <3>2. PICK j \in A : w = [row |-> rows[j], place |-> place[j]]
      BY <2>2
    <3>3. Before(i, j, shown)
      BY <2>4, <2>5, <2>7, <3>1, <3>2
    <3>4. v.row = rows[i] /\ w.row = rows[j]
      BY <3>1, <3>2
    <3> QED
      BY <2>3, <2>7, <3>3, <3>4
  <2> QED
    BY <2>5, <2>6, <2>7 DEF A
<1> QED BY ViewInvInit, ViewInvNext, <1>1, PTL DEF ViewSpec, ViewInv, ScanInv
=============================================================================
