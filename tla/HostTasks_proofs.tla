-------------------------- MODULE HostTasks_proofs --------------------------
(***************************************************************************)
(* Proofs about HostTasks, for any hosts, any network and any number of    *)
(* threads: the probes the threads share are counted exactly except where  *)
(* their first calls overlapped; the name a host is reported with is its    *)
(* own or that of a look-up given up before on the same thread; and its     *)
(* risk is that of its open ports, all of them unless the scan is canceled. *)
(* The last rests on what is proved first of the sums the risk engine makes *)
(* and of the lists of ports a profile or a specification stands for.  And  *)
(* about CommandLine: it is a HostTasks, its configurations are those that  *)
(* are assumed, and what it leaves in a JSON file gives its devices back.   *)
(***************************************************************************)
EXTENDS CommandLine, FoldLemmas, FiniteSetTheorems, SequenceTheorems

Places == {<<"task", "idle">>, <<"task", "report">>, <<"name", "wait">>}
            \cup (Slots \X {"test", "store", "copy", "count", "use"})

-----------------------------------------------------------------------------
(* The shared probes.  A thread has no handle of a slot before it copies    *)
(* one, so that copying and counting never overwrites a counted handle; and *)
(* once a slot has a probe it always has one, so that what is copied is one.*)

ProbeTypes ==
  /\ pc \in [Threads -> Places]
  /\ factory \in [Slots -> Probes \cup {NoProbe}]
  /\ refs \in [Probes -> Nat]
  /\ held \in [Threads -> [Slots -> Probes \cup {NoProbe}]]

ProbesOf(s) == {<<s, t>> : t \in Threads}

(* A slot holds probes of its kind only. *)
SlotsInv ==
  \A s \in Slots :
    /\ factory[s] \in ProbesOf(s) \cup {NoProbe}
    /\ \A t \in Threads : held[t][s] \in ProbesOf(s) \cup {NoProbe}

(* Where a thread has no handle of the slot yet. *)
Before(s) ==
  {<<"task", "idle">>, <<s, "test">>, <<s, "store">>, <<s, "copy">>}
    \cup (IF s = "port"
          THEN {<<"host", step>> : step \in {"test", "store", "copy", "count", "use"}}
                 \cup {<<"name", "wait">>}
          ELSE {})

HandsInv ==
  \A t \in Threads, s \in Slots :
    /\ pc[t] \in Before(s) => held[t][s] = NoProbe
    /\ pc[t] = <<s, "copy">> => factory[s] # NoProbe
    /\ pc[t] = <<s, "count">> => held[t][s] # NoProbe

CountsInv ==
  \A s \in Slots, t \in Threads :
    /\ IsFiniteSet(Holders(s, t))
    /\ s \notin raced =>
         refs[<<s, t>>] = Cardinality(Holders(s, t))
                            + (IF factory[s] = <<s, t>> THEN 1 ELSE 0)

ProbesInv == ProbeTypes /\ SlotsInv /\ HandsInv /\ CountsInv

LEMMA ProbesInit == Init => ProbesInv
<1> SUFFICES ASSUME Init PROVE ProbesInv
  OBVIOUS
<1>1. ProbeTypes
  BY DEF Init, ProbeTypes, Places, Slots
<1>2. SlotsInv /\ HandsInv
  BY DEF Init, SlotsInv, HandsInv, Slots, Before
<1>3. ASSUME NEW s \in Slots, NEW t \in Threads
      PROVE  Holders(s, t) = {} /\ factory[s] # <<s, t>> /\ refs[<<s, t>>] = 0
  <2>1. <<s, t>> \in Probes
    BY DEF Probes
  <2>2. NoProbe # <<s, t>>
    BY <2>1, NoProbeAssumption
  <2> QED
    BY <2>1, <2>2 DEF Init, Holders
<1>4. ASSUME NEW s \in Slots, NEW t \in Threads
      PROVE  /\ IsFiniteSet(Holders(s, t))
             /\ refs[<<s, t>>] = Cardinality(Holders(s, t))
                                   + (IF factory[s] = <<s, t>> THEN 1 ELSE 0)
  <2>1. IsFiniteSet({}) /\ Cardinality({}) = 0
    BY FS_EmptySet
  <2> QED
    BY <1>3, <2>1
<1>5. CountsInv
  BY <1>4 DEF CountsInv
<1> QED
  BY <1>1, <1>2, <1>5 DEF ProbesInv

(* A step that moves one thread, makes and copies no probe, and neither    *)
(* begins nor ends the counting of a copy, leaves the probes as they are.  *)
QuietMove(from, to, s) ==
  /\ from # <<s, "count">> /\ to # <<s, "count">>
  /\ to \in Before(s) => from \in Before(s)
  /\ to = <<s, "copy">> => factory[s] # NoProbe

LEMMA ProbesQuiet ==
  ASSUME ProbesInv, NEW t \in Threads, NEW to \in Places,
         pc' = [pc EXCEPT ![t] = to], UNCHANGED probes,
         \A s \in Slots : QuietMove(pc[t], to, s)
  PROVE  ProbesInv'
<1>1. ProbeTypes'
  BY DEF ProbesInv, ProbeTypes, probes
<1>2. SlotsInv'
  BY DEF ProbesInv, SlotsInv, probes
<1>3. HandsInv'
  BY DEF ProbesInv, ProbeTypes, HandsInv, probes, QuietMove
<1>4. ASSUME NEW s \in Slots, NEW u \in Threads
      PROVE  Holders(s, u)' = Holders(s, u)
  BY DEF Holders, ProbesInv, ProbeTypes, probes, QuietMove
<1>5. CountsInv'
  BY <1>4 DEF ProbesInv, CountsInv, probes
<1> QED
  BY <1>1, <1>2, <1>3, <1>5 DEF ProbesInv

LEMMA TestQuiet ==
  ASSUME ProbesInv, NEW t \in Threads, NEW s \in Slots, TestProbe(t, s)
  PROVE  ProbesInv'
<1> DEFINE to == <<s, IF factory[s] = NoProbe THEN "store" ELSE "copy">>
<1>1. to \in Places /\ pc' = [pc EXCEPT ![t] = to] /\ UNCHANGED probes /\ pc[t] = <<s, "test">>
  BY DEF TestProbe, Goto, Places
<1>2. ASSUME NEW z \in Slots
      PROVE  QuietMove(pc[t], to, z)
  BY <1>1 DEF QuietMove, Before, Slots
<1> HIDE DEF to
<1> QED
  BY <1>1, <1>2, ProbesQuiet

LEMMA StoreKeeps ==
  ASSUME ProbesInv, NEW t \in Threads, NEW s \in Slots, StoreProbe(t, s)
  PROVE  ProbesInv'
<1>1. /\ pc[t] = <<s, "store">>
      /\ pc' = [pc EXCEPT ![t] = <<s, "copy">>]
      /\ factory' = [factory EXCEPT ![s] = <<s, t>>]
      /\ held' = held
  BY DEF StoreProbe, Goto
<1>2. <<s, t>> \in ProbesOf(s) /\ <<s, t>> \in Probes /\ <<s, t>> # NoProbe
  BY NoProbeAssumption DEF ProbesOf, Probes
<1>3. refs' \in [Probes -> Nat]
  <2>1. CASE factory[s] = NoProbe
    <3>1. refs' = [refs EXCEPT ![<<s, t>>] = refs[<<s, t>>] + 1]
      BY <2>1 DEF StoreProbe, AddRef
    <3>2. refs \in [Probes -> Nat]
      BY DEF ProbesInv, ProbeTypes
    <3> QED
      BY <1>2, <3>1, <3>2
  <2>2. CASE factory[s] # NoProbe
    <3>1. refs' = [DropRef(factory[s]) EXCEPT ![<<s, t>>] = 1]
      BY <2>2 DEF StoreProbe
    <3>2. DropRef(factory[s]) \in [Probes -> Nat]
      BY <2>2 DEF DropRef, ProbesInv, ProbeTypes
    <3> QED
      BY <1>2, <3>1, <3>2
  <2> QED
    BY <2>1, <2>2
<1>4. ProbeTypes'
  BY <1>1, <1>2, <1>3 DEF ProbesInv, ProbeTypes, Places
<1>5. SlotsInv'
  BY <1>1, <1>2 DEF ProbesInv, ProbeTypes, SlotsInv
<1>6. HandsInv'
  BY <1>1, <1>2 DEF ProbesInv, ProbeTypes, HandsInv, Before, Slots
<1>7. ASSUME NEW z \in Slots, NEW u \in Threads
      PROVE  Holders(z, u)' = Holders(z, u)
  BY <1>1 DEF Holders, ProbesInv, ProbeTypes
(* Another slot's counts and pointer are left alone. *)
<1>8. ASSUME NEW z \in Slots \ {s}, NEW u \in Threads
      PROVE  /\ factory'[z] = factory[z]
             /\ refs'[<<z, u>>] = refs[<<z, u>>]
             /\ z \notin raced' => z \notin raced
  <2>1. <<z, u>> \in Probes /\ <<z, u>> # <<s, t>> /\ <<z, u>> # factory[s]
    BY NoProbeAssumption DEF Probes, ProbesInv, SlotsInv, ProbesOf
  <2> QED
    BY <1>1, <2>1 DEF StoreProbe, AddRef, DropRef, ProbesInv, ProbeTypes
(* This slot's count is right because there was no other probe. *)
<1>9. ASSUME NEW u \in Threads, s \notin raced'
      PROVE  /\ s \notin raced /\ factory[s] = NoProbe
             /\ refs'[<<s, u>>] = refs[<<s, u>>] + (IF u = t THEN 1 ELSE 0)
             /\ factory'[s] = <<s, u>> <=> u = t
             /\ factory[s] # <<s, u>>
             /\ refs[<<s, u>>] \in Nat
  <2>1. <<s, u>> \in Probes /\ <<s, u>> # NoProbe
    BY NoProbeAssumption DEF Probes
  <2> QED
    <3>1. factory[s] = NoProbe /\ refs' = AddRef(<<s, t>>) /\ raced' = raced
      BY <1>9 DEF StoreProbe
    <3>2. refs' = [refs EXCEPT ![<<s, t>>] = refs[<<s, t>>] + 1]
      BY <3>1 DEF AddRef
    <3>3. refs \in [Probes -> Nat] /\ s \in DOMAIN factory
      BY DEF ProbesInv, ProbeTypes
    <3>4. refs'[<<s, u>>] = refs[<<s, u>>] + (IF u = t THEN 1 ELSE 0)
      BY <1>2, <2>1, <3>2, <3>3
    <3> QED
      BY <1>1, <1>9, <2>1, <3>1, <3>3, <3>4
<1>10. CountsInv'
  <2> SUFFICES ASSUME NEW z \in Slots, NEW u \in Threads
               PROVE  /\ IsFiniteSet(Holders(z, u)')
                      /\ z \notin raced' =>
                           refs'[<<z, u>>] = Cardinality(Holders(z, u)')
                                  + (IF factory'[z] = <<z, u>> THEN 1 ELSE 0)
    BY DEF CountsInv
  <2>1. /\ IsFiniteSet(Holders(z, u))
        /\ Cardinality(Holders(z, u)) \in Nat
        /\ z \notin raced =>
              refs[<<z, u>>] = Cardinality(Holders(z, u))
                                 + (IF factory[z] = <<z, u>> THEN 1 ELSE 0)
    BY FS_CardinalityType DEF ProbesInv, CountsInv
  <2>2. CASE z = s
    BY <1>7, <1>9, <2>1, <2>2
  <2>3. CASE z # s
    BY <1>7, <1>8, <2>1, <2>3
  <2> QED
    BY <2>2, <2>3
<1> QED
  BY <1>4, <1>5, <1>6, <1>10 DEF ProbesInv

LEMMA CopyKeeps ==
  ASSUME ProbesInv, NEW t \in Threads, NEW s \in Slots, CopyProbe(t, s)
  PROVE  ProbesInv'
<1>1. /\ pc[t] = <<s, "copy">>
      /\ pc' = [pc EXCEPT ![t] = <<s, "count">>]
      /\ held' = [held EXCEPT ![t][s] = factory[s]]
      /\ UNCHANGED <<factory, refs, raced>>
  BY DEF CopyProbe, Goto
<1>2. held[t][s] = NoProbe /\ factory[s] # NoProbe
  BY <1>1 DEF ProbesInv, HandsInv, Before
<1>3. ProbeTypes'
  BY <1>1 DEF ProbesInv, ProbeTypes, Places
<1>4. SlotsInv'
  BY <1>1 DEF ProbesInv, ProbeTypes, SlotsInv
<1>5. HandsInv'
  BY <1>1, <1>2 DEF ProbesInv, ProbeTypes, HandsInv, Before, Slots
(* The copy is not counted yet. *)
<1>6. ASSUME NEW z \in Slots, NEW u \in Threads
      PROVE  Holders(z, u)' = Holders(z, u)
  <2>1. <<z, u>> # NoProbe
    BY NoProbeAssumption DEF Probes
  <2>2. ASSUME NEW w \in Threads
        PROVE  held'[w][z] = <<z, u>> /\ pc'[w] # <<z, "count">>
                 <=> held[w][z] = <<z, u>> /\ pc[w] # <<z, "count">>
    BY <1>1, <1>2, <2>1 DEF ProbesInv, ProbeTypes
  <2> QED
    BY <2>2 DEF Holders
<1>7. CountsInv'
  BY <1>1, <1>6 DEF ProbesInv, CountsInv
<1> QED
  BY <1>3, <1>4, <1>5, <1>7 DEF ProbesInv

LEMMA CountKeeps ==
  ASSUME ProbesInv, NEW t \in Threads, NEW s \in Slots, CountCopy(t, s)
  PROVE  ProbesInv'
<1> DEFINE o == held[t][s]
<1>1. /\ pc[t] = <<s, "count">>
      /\ pc' = [pc EXCEPT ![t] = <<s, "use">>]
      /\ refs' = [refs EXCEPT ![o] = @ + 1]
      /\ UNCHANGED <<factory, held, raced>>
  BY DEF CountCopy, Goto, AddRef
<1>2. o \in ProbesOf(s) /\ o \in Probes
  BY <1>1 DEF ProbesInv, SlotsInv, HandsInv, ProbesOf, Probes
<1>3. ProbeTypes'
  BY <1>1, <1>2 DEF ProbesInv, ProbeTypes, Places
<1>4. SlotsInv'
  BY <1>1 DEF ProbesInv, SlotsInv
<1>5. HandsInv'
  BY <1>1 DEF ProbesInv, ProbeTypes, HandsInv, Before, Slots
<1>6. ASSUME NEW z \in Slots, NEW u \in Threads
      PROVE  /\ IsFiniteSet(Holders(z, u)')
             /\ Cardinality(Holders(z, u)') =
                  Cardinality(Holders(z, u)) + (IF <<z, u>> = o THEN 1 ELSE 0)
             /\ refs'[<<z, u>>] = refs[<<z, u>>] + (IF <<z, u>> = o THEN 1 ELSE 0)
             /\ refs[<<z, u>>] \in Nat
             /\ Cardinality(Holders(z, u)) \in Nat
  <2>1. IsFiniteSet(Holders(z, u)) /\ Cardinality(Holders(z, u)) \in Nat
    BY FS_CardinalityType DEF ProbesInv, CountsInv
  <2>2. <<z, u>> \in Probes /\ refs[<<z, u>>] \in Nat
    BY DEF Probes, ProbesInv, ProbeTypes
  <2>3. refs'[<<z, u>>] = refs[<<z, u>>] + (IF <<z, u>> = o THEN 1 ELSE 0)
    BY <1>1, <2>2 DEF ProbesInv, ProbeTypes
  <2>4. CASE <<z, u>> = o
    <3>1. z = s
      BY <1>2, <2>4 DEF ProbesOf
    <3>2. t \notin Holders(z, u)
      BY <1>1, <3>1 DEF Holders
    <3>3. Holders(z, u)' = Holders(z, u) \cup {t}
      BY <1>1, <2>4, <3>1 DEF Holders, ProbesInv, ProbeTypes
    <3> QED
      BY <2>1, <2>2, <2>3, <2>4, <3>2, <3>3, FS_AddElement
  <2>5. CASE <<z, u>> # o
    <3>1. Holders(z, u)' = Holders(z, u)
      BY <1>1, <2>5 DEF Holders, ProbesInv, ProbeTypes
    <3> QED
      BY <2>1, <2>2, <2>3, <2>5, <3>1
  <2> QED
    BY <2>4, <2>5
<1> HIDE DEF o
<1>7. CountsInv'
  <2> SUFFICES ASSUME NEW z \in Slots, NEW u \in Threads
               PROVE  /\ IsFiniteSet(Holders(z, u)')
                      /\ z \notin raced' =>
                           refs'[<<z, u>>] = Cardinality(Holders(z, u)')
                                  + (IF factory'[z] = <<z, u>> THEN 1 ELSE 0)
    BY DEF CountsInv
  <2>1. z \notin raced => refs[<<z, u>>] = Cardinality(Holders(z, u))
                                 + (IF factory[z] = <<z, u>> THEN 1 ELSE 0)
    BY DEF ProbesInv, CountsInv
  <2> QED
    BY <1>1, <1>6, <2>1
<1> QED
  BY <1>3, <1>4, <1>5, <1>7 DEF ProbesInv

(* A thread that reports has counted every handle it has, and lets go of it.*)
LEMMA ReportKeeps ==
  ASSUME ProbesInv, NEW t \in Threads, Report(t)
  PROVE  ProbesInv'
<1> DEFINE mine == {held[t][s] : s \in Slots} \ {NoProbe}
<1>1. /\ pc[t] = <<"task", "report">>
      /\ pc' = [pc EXCEPT ![t] = <<"task", "idle">>]
      /\ held' = [held EXCEPT ![t] = [s \in Slots |-> NoProbe]]
      /\ refs' = [o \in Probes |-> IF o \in mine THEN DropRef(o)[o] ELSE refs[o]]
      /\ UNCHANGED <<factory, raced>>
  BY DEF Report, ReleaseAll, Goto
<1>2. ASSUME NEW o \in Probes
      PROVE  /\ DropRef(o)[o] = IF refs[o] > 0 THEN refs[o] - 1 ELSE 0
             /\ DropRef(o)[o] \in Nat /\ refs[o] \in Nat
  BY DEF DropRef, ProbesInv, ProbeTypes
<1>3. refs' \in [Probes -> Nat]
  <2> HIDE DEF mine
  <2> QED
    BY <1>1, <1>2
<1>4. ProbeTypes'
  BY <1>1, <1>3 DEF ProbesInv, ProbeTypes, Places
<1>5. SlotsInv'
  BY <1>1 DEF ProbesInv, ProbeTypes, SlotsInv
<1>6. HandsInv'
  BY <1>1 DEF ProbesInv, ProbeTypes, HandsInv, Before, Slots
<1>7. ASSUME NEW z \in Slots, NEW u \in Threads
      PROVE  <<z, u>> \in mine <=> held[t][z] = <<z, u>>
  <2>1. <<z, u>> # NoProbe
    BY NoProbeAssumption DEF Probes
  <2>2. ASSUME NEW y \in Slots, held[t][y] = <<z, u>>
        PROVE  y = z
    BY <2>1, <2>2 DEF ProbesInv, SlotsInv, ProbesOf
  <2> QED
    BY <2>1, <2>2
<1> HIDE DEF mine
<1>8. ASSUME NEW z \in Slots, NEW u \in Threads
      PROVE  /\ IsFiniteSet(Holders(z, u)')
             /\ z \notin raced' =>
                  refs'[<<z, u>>] = Cardinality(Holders(z, u)')
                         + (IF factory'[z] = <<z, u>> THEN 1 ELSE 0)
  <2>1. /\ IsFiniteSet(Holders(z, u))
        /\ Cardinality(Holders(z, u)) \in Nat
        /\ z \notin raced =>
             refs[<<z, u>>] = Cardinality(Holders(z, u))
                                + (IF factory[z] = <<z, u>> THEN 1 ELSE 0)
    BY FS_CardinalityType DEF ProbesInv, CountsInv
  <2>2. <<z, u>> \in Probes /\ <<z, u>> # NoProbe
    BY NoProbeAssumption DEF Probes
  <2>3. CASE held[t][z] = <<z, u>>
    <3>1. t \in Holders(z, u)
      BY <1>1, <2>3 DEF Holders
    <3>2. Holders(z, u)' = Holders(z, u) \ {t}
      BY <1>1, <2>2, <2>3 DEF Holders, ProbesInv, ProbeTypes
    <3>3. /\ IsFiniteSet(Holders(z, u)')
          /\ Cardinality(Holders(z, u)') = Cardinality(Holders(z, u)) - 1
          /\ Cardinality(Holders(z, u)') \in Nat
      BY <2>1, <3>1, <3>2, FS_RemoveElement, FS_CardinalityType
    <3>4. refs'[<<z, u>>] = IF refs[<<z, u>>] > 0 THEN refs[<<z, u>>] - 1 ELSE 0
      BY <1>1, <1>2, <1>7, <2>2, <2>3
    <3> QED
      BY <1>1, <1>2, <2>1, <2>2, <3>3, <3>4
  <2>4. CASE held[t][z] # <<z, u>>
    <3>1. Holders(z, u)' = Holders(z, u)
      BY <1>1, <2>2, <2>4 DEF Holders, ProbesInv, ProbeTypes
    <3>2. refs'[<<z, u>>] = refs[<<z, u>>]
      BY <1>1, <1>7, <2>2, <2>4
    <3> QED
      BY <1>1, <2>1, <3>1, <3>2
  <2> QED
    BY <2>3, <2>4
<1>9. CountsInv'
  BY <1>8 DEF CountsInv
<1> QED
  BY <1>4, <1>5, <1>6, <1>9 DEF ProbesInv

LEMMA ProbesNext == ProbesInv /\ [Next]_vars => ProbesInv'
<1> SUFFICES ASSUME ProbesInv, [Next]_vars PROVE ProbesInv'
  OBVIOUS
<1>kept. ASSUME UNCHANGED <<pc, factory, refs, held, raced>>
         PROVE  ProbesInv'
  <2>1. ProbeTypes' /\ SlotsInv' /\ HandsInv'
    BY <1>kept DEF ProbesInv, ProbeTypes, SlotsInv, HandsInv
  <2>2. ASSUME NEW s \in Slots, NEW t \in Threads
        PROVE  Holders(s, t)' = Holders(s, t)
    BY <1>kept DEF Holders
  <2>3. CountsInv'
    BY <1>kept, <2>2 DEF ProbesInv, CountsInv
  <2> QED
    BY <2>1, <2>3 DEF ProbesInv
<1>1. ASSUME NEW t \in Threads, BeginTask(t)
      PROVE  ProbesInv'
  <2>1. CASE canceled
    BY <1>1, <1>kept, <2>1 DEF BeginTask, probes
  <2>2. CASE ~canceled
    <3>1. /\ pc[t] = <<"task", "idle">> /\ pc' = [pc EXCEPT ![t] = <<"host", "test">>]
          /\ UNCHANGED probes
      BY <1>1, <2>2 DEF BeginTask, Goto
    <3>2. <<"host", "test">> \in Places
      BY DEF Places, Slots
    <3>3. \A s \in Slots : QuietMove(<<"task", "idle">>, <<"host", "test">>, s)
      BY DEF QuietMove, Before, Slots
    <3> QED
      BY <3>1, <3>2, <3>3, ProbesQuiet
  <2> QED
    BY <2>1, <2>2
<1>2. ASSUME NEW t \in Threads, NEW s \in Slots,
             TestProbe(t, s) \/ StoreProbe(t, s) \/ CopyProbe(t, s) \/ CountCopy(t, s)
      PROVE  ProbesInv'
  BY <1>2, TestQuiet, StoreKeeps, CopyKeeps, CountKeeps
<1>3. ASSUME NEW t \in Threads, ProbeHost(t)
      PROVE  ProbesInv'
  <2>1. PICK to \in {<<"task", "report">>, <<"name", "wait">>, <<"port", "test">>} :
          /\ pc[t] = <<"host", "use">> /\ pc' = [pc EXCEPT ![t] = to]
          /\ UNCHANGED probes
    BY <1>3 DEF ProbeHost, Goto
  <2>2. to \in Places
    BY DEF Places, Slots
  <2>3. \A s \in Slots : QuietMove(<<"host", "use">>, to, s)
    BY DEF QuietMove, Before, Slots
  <2> QED
    BY <2>1, <2>2, <2>3, ProbesQuiet
<1>4. ASSUME NEW t \in Threads, LoopReturns(t)
      PROVE  ProbesInv'
  <2>1. /\ pc[t] = <<"name", "wait">> /\ pc' = [pc EXCEPT ![t] = <<"port", "test">>]
        /\ UNCHANGED probes
    BY <1>4 DEF LoopReturns, Goto
  <2>2. <<"port", "test">> \in Places
    BY DEF Places, Slots
  <2>3. \A s \in Slots : QuietMove(<<"name", "wait">>, <<"port", "test">>, s)
    BY DEF QuietMove, Before, Slots
  <2> QED
    BY <2>1, <2>2, <2>3, ProbesQuiet
<1>5. ASSUME NEW t \in Threads, EndPortLoop(t)
      PROVE  ProbesInv'
  <2>1. /\ pc[t] = <<"port", "use">> /\ pc' = [pc EXCEPT ![t] = <<"task", "report">>]
        /\ UNCHANGED probes
    BY <1>5 DEF EndPortLoop, Goto
  <2>2. <<"task", "report">> \in Places
    BY DEF Places, Slots
  <2>3. \A s \in Slots : QuietMove(<<"port", "use">>, <<"task", "report">>, s)
    BY DEF QuietMove, Before, Slots
  <2> QED
    BY <2>1, <2>2, <2>3, ProbesQuiet
<1>6. ASSUME NEW t \in Threads, AnswerArrives(t) \/ StaleAnswer(t) \/ ProbePort(t)
      PROVE  ProbesInv'
  BY <1>6, <1>kept DEF AnswerArrives, StaleAnswer, ProbePort, probes
<1>7. CASE RequestCancel \/ Stop \/ UNCHANGED vars
  BY <1>7, <1>kept DEF RequestCancel, Stop, vars, probes
<1> QED
  BY <1>1, <1>2, <1>3, <1>4, <1>5, <1>6, <1>7, ReportKeeps DEF Next, Step

(* A probe is counted exactly by the threads and the factory that hold it   *)
(* wherever the first calls for it did not overlap, so that it lives as     *)
(* long as somebody uses it.  (DefaultProbeFactory::hostProbe(), portProbe())*)
THEOREM UnracedProbesAreCounted == Spec => []ProbesAliveUnlessRaced
<1>1. ProbesInv => ProbesAliveUnlessRaced
  BY DEF ProbesInv, CountsInv, ProbesAliveUnlessRaced
<1> QED
  BY <1>1, ProbesInit, ProbesNext, PTL DEF Spec

-----------------------------------------------------------------------------
(* The names.  What a thread's look-up holds is the answer to it, or to one *)
(* that the thread gave up earlier; a look-up whose own answer came and was *)
(* a name is not empty again, whatever comes late.                         *)

Answers == {Empty} \cup {Network[h].ptr : h \in Address}

NameTypes ==
  /\ waiting \in Seq(Address)
  /\ DOMAIN host = Threads /\ DOMAIN alive = Threads
  /\ loop \in [Threads -> [name : Answers, answered : BOOLEAN]]
  /\ late \in [Threads -> SUBSET Address]
  /\ gaveUp \in [Threads -> SUBSET Address]

AsksDns == "Dns" \in config.hostnameMethods

(* The names a look-up of t may hold. *)
Heard(t, name) ==
  \/ name = Empty
  \/ AsksDns /\ name = Network[host[t]].ptr /\ name # host[t]
  \/ \E g \in gaveUp[t] \ {host[t]} : name = Network[g].ptr

(* Where the look-up of a host that answered is over. *)
LookedUp(t) ==
  \/ pc[t][1] = "port"
  \/ pc[t] = <<"task", "report">> /\ alive[t].alive

TaskNamesInv(t) ==
  /\ pc[t] # <<"task", "idle">> => host[t] \in Address
  /\ pc[t] = <<"task", "idle">> => loop[t] = NoLoop
  /\ pc[t] = <<"name", "wait">> => AsksDns
  /\ late[t] \subseteq gaveUp[t]
  /\ Heard(t, loop[t].name)
  /\ loop[t].answered /\ Network[host[t]].ptr # host[t] => loop[t].name # Empty
  /\ LookedUp(t) /\ AsksDns => loop[t].answered \/ host[t] \in gaveUp[t]

NamesInv == NameTypes /\ \A t \in Threads : TaskNamesInv(t)

LEMMA NamesInit == Init => NamesInv
<1> SUFFICES ASSUME Init PROVE NamesInv
  OBVIOUS
<1>1. NameTypes
  BY HostsAssumption DEF Init, NameTypes, NoLoop, Answers
<1>2. ASSUME NEW t \in Threads
      PROVE  TaskNamesInv(t)
  <2>1. /\ pc[t] = <<"task", "idle">> /\ loop[t] = NoLoop
        /\ late[t] = {} /\ gaveUp[t] = {}
    BY DEF Init
  <2> QED
    BY <2>1 DEF TaskNamesInv, Heard, LookedUp, NoLoop
<1> QED
  BY <1>1, <1>2 DEF NamesInv

(* What a step does not touch stays true of a thread. *)
LEMMA NamesOfOthers ==
  ASSUME NamesInv, NEW u \in Threads, UNCHANGED config,
         UNCHANGED <<pc[u], host[u], alive[u], loop[u], late[u], gaveUp[u]>>
  PROVE  TaskNamesInv(u)'
BY DEF NamesInv, TaskNamesInv, Heard, LookedUp, AsksDns

(* A step that only moves a thread between two places where the same holds. *)
LEMMA NamesQuiet ==
  ASSUME NamesInv, pc \in [Threads -> Places], NEW t \in Threads, NEW to,
         pc' = [pc EXCEPT ![t] = to],
         UNCHANGED <<config, waiting, host, alive, loop, late, gaveUp>>,
         pc[t] # <<"task", "idle">>, to # <<"task", "idle">>, to # <<"name", "wait">>,
         \/ LookedUp(t)
         \/ pc[t][1] = "host" /\ to[1] = "host"
  PROVE  NamesInv'
<1>1. NameTypes'
  BY DEF NamesInv, NameTypes
<1>2. TaskNamesInv(t)'
  <2>1. TaskNamesInv(t) /\ pc'[t] = to
    BY DEF NamesInv
  <2>2. Heard(t, loop[t].name)' /\ AsksDns' = AsksDns
    BY <2>1 DEF TaskNamesInv, Heard, AsksDns
  <2>3. LookedUp(t)' => LookedUp(t)
    BY <2>1 DEF LookedUp
  <2> QED
    BY <2>1, <2>2, <2>3 DEF TaskNamesInv
<1>3. ASSUME NEW u \in Threads \ {t}
      PROVE  TaskNamesInv(u)'
  BY NamesOfOthers
<1> QED
  BY <1>1, <1>2, <1>3 DEF NamesInv

LEMMA NamesBegin ==
  ASSUME NamesInv, pc \in [Threads -> Places], NEW t \in Threads, BeginTask(t)
  PROVE  NamesInv'
<1>1. /\ pc[t] = <<"task", "idle">> /\ waiting # <<>>
      /\ waiting' = Tail(waiting)
      /\ host' = [host EXCEPT ![t] = Head(waiting)]
      /\ pc' = pc \/ pc' = [pc EXCEPT ![t] = <<"host", "test">>]
      /\ UNCHANGED <<config, alive, loop, late, gaveUp>>
  BY DEF BeginTask, Goto, lookup
<1>2. Head(waiting) \in Address /\ waiting' \in Seq(Address)
  BY <1>1, HeadTailProperties DEF NamesInv, NameTypes
<1>3. NameTypes'
  BY <1>1, <1>2 DEF NamesInv, NameTypes
<1>4. TaskNamesInv(t)'
  <2>1. /\ host'[t] \in Address
        /\ pc'[t] = <<"task", "idle">> \/ pc'[t] = <<"host", "test">>
        /\ loop[t] = NoLoop /\ late[t] \subseteq gaveUp[t]
    BY <1>1, <1>2 DEF NamesInv, NameTypes, TaskNamesInv
  <2> QED
    BY <1>1, <2>1 DEF TaskNamesInv, Heard, LookedUp, NoLoop
<1>5. ASSUME NEW u \in Threads \ {t}
      PROVE  TaskNamesInv(u)'
  BY <1>1, NamesOfOthers DEF NamesInv, NameTypes
<1> QED
  BY <1>3, <1>4, <1>5 DEF NamesInv

LEMMA NamesProbe ==
  ASSUME NamesInv, pc \in [Threads -> Places], NEW t \in Threads, ProbeHost(t)
  PROVE  NamesInv'
<1> DEFINE r == ReplyOf(host[t], config.methods)
<1>1. /\ pc[t] = <<"host", "use">>
      /\ alive' = [alive EXCEPT ![t] = r]
      /\ loop' = [loop EXCEPT ![t] = NoLoop]
      /\ pc' = [pc EXCEPT ![t] = IF ~r.alive THEN <<"task", "report">>
                                 ELSE IF AsksDns THEN <<"name", "wait">>
                                 ELSE <<"port", "test">>]
      /\ UNCHANGED <<config, waiting, host, late, gaveUp>>
  BY DEF ProbeHost, Goto, AsksDns
<1> HIDE DEF r
<1>2. NameTypes'
  BY <1>1 DEF NamesInv, NameTypes, NoLoop, Answers
<1>3. TaskNamesInv(t)'
  <2>1. /\ alive'[t] = r /\ loop'[t] = NoLoop
        /\ host'[t] \in Address /\ late'[t] \subseteq gaveUp'[t]
        /\ ~r.alive => pc'[t] = <<"task", "report">>
        /\ r.alive /\ AsksDns => pc'[t] = <<"name", "wait">>
        /\ r.alive /\ ~AsksDns => pc'[t] = <<"port", "test">>
        /\ AsksDns' = AsksDns
    BY <1>1 DEF NamesInv, NameTypes, TaskNamesInv, AsksDns
  <2> QED
    BY <1>1, <2>1 DEF TaskNamesInv, Heard, LookedUp, NoLoop
<1>4. ASSUME NEW u \in Threads \ {t}
      PROVE  TaskNamesInv(u)'
  BY <1>1, NamesOfOthers DEF NamesInv, NameTypes
<1> QED
  BY <1>2, <1>3, <1>4 DEF NamesInv

(* The thread's own answer. *)
LEMMA NamesAnswer ==
  ASSUME NamesInv, pc \in [Threads -> Places], NEW t \in Threads, AnswerArrives(t)
  PROVE  NamesInv'
<1> DEFINE name == Write(t, Network[host[t]].ptr)
<1>1. /\ pc[t] = <<"name", "wait">>
      /\ loop' = [loop EXCEPT ![t] = [name |-> name, answered |-> TRUE]]
      /\ UNCHANGED <<config, waiting, pc, host, alive, late, gaveUp>>
  BY DEF AnswerArrives, task
<1>2. host[t] \in Address /\ AsksDns /\ loop[t].name \in Answers /\ Heard(t, loop[t].name)
  <2>1. TaskNamesInv(t) /\ loop[t].name \in Answers
    BY DEF NamesInv, NameTypes
  <2>2. Heard(t, loop[t].name)
    BY <2>1 DEF TaskNamesInv
  <2>3. AsksDns
    BY <1>1, <2>1 DEF TaskNamesInv
  <2>4. host[t] \in Address
    BY <1>1, <2>1 DEF TaskNamesInv
  <2> QED
    BY <2>1, <2>2, <2>3, <2>4
<1>3. Network[host[t]].ptr # Empty /\ Network[host[t]].ptr \in Answers
  BY <1>2, NetworkAssumption DEF Answers
<1>4. /\ name \in Answers /\ Heard(t, name)
      /\ Network[host[t]].ptr # host[t] => name # Empty
  BY <1>2, <1>3 DEF Write, Heard
<1> HIDE DEF name
<1>5. NameTypes'
  BY <1>1, <1>4 DEF NamesInv, NameTypes
<1>6. TaskNamesInv(t)'
  <2>1. loop'[t] = [name |-> name, answered |-> TRUE]
    BY <1>1 DEF NamesInv, NameTypes
  <2>2. Heard(t, loop[t].name)' /\ ~LookedUp(t)'
    BY <1>1, <1>4, <2>1 DEF Heard, AsksDns, LookedUp
  <2> QED
    BY <1>1, <1>2, <1>4, <2>1, <2>2 DEF NamesInv, TaskNamesInv, AsksDns
<1>7. ASSUME NEW u \in Threads \ {t}
      PROVE  TaskNamesInv(u)'
  BY <1>1, NamesOfOthers DEF NamesInv, NameTypes
<1> QED
  BY <1>5, <1>6, <1>7 DEF NamesInv

(* A late answer: of a look-up given up before. *)
LEMMA NamesStale ==
  ASSUME NamesInv, pc \in [Threads -> Places], NEW t \in Threads, StaleAnswer(t)
  PROVE  NamesInv'
<1>1. PICK g \in late[t] : \E name \in StaleWrites(t, Network[g].ptr) :
        /\ late' = [late EXCEPT ![t] = @ \ {g}]
        /\ loop' = [loop EXCEPT ![t].name = name]
  BY DEF StaleAnswer
<1>2. PICK name \in StaleWrites(t, Network[g].ptr) :
        loop' = [loop EXCEPT ![t].name = name]
  BY <1>1
<1>3. /\ pc[t] = <<"name", "wait">>
      /\ late' = [late EXCEPT ![t] = late[t] \ {g}]
      /\ UNCHANGED <<config, waiting, pc, host, alive, gaveUp>>
  BY <1>1 DEF StaleAnswer, task
<1>4. /\ host[t] \in Address /\ AsksDns /\ g \in Address /\ g \in gaveUp[t]
      /\ loop[t].name \in Answers /\ Heard(t, loop[t].name)
  BY <1>3 DEF NamesInv, NameTypes, TaskNamesInv
<1>5. Network[g].ptr # Empty /\ Network[g].ptr \in Answers
  BY <1>4, NetworkAssumption DEF Answers
<1>6. name = loop[t].name \/ (name = Network[g].ptr /\ name # host[t])
  BY DEF StaleWrites, Write
<1>7. /\ name \in Answers /\ Heard(t, name)
      /\ loop[t].name # Empty => name # Empty
  BY <1>4, <1>5, <1>6 DEF Heard
<1>8. loop' = [loop EXCEPT ![t] = [name |-> name, answered |-> loop[t].answered]]
  <2>1. loop' = [loop EXCEPT ![t] = [loop[t] EXCEPT !.name = name]]
    BY <1>2 DEF NamesInv, NameTypes
  <2>2. loop[t] \in [name : Answers, answered : BOOLEAN]
    BY DEF NamesInv, NameTypes
  <2>3. [loop[t] EXCEPT !.name = name] = [name |-> name, answered |-> loop[t].answered]
    BY <2>2
  <2> QED
    BY <2>1, <2>3
<1>9. NameTypes'
  BY <1>3, <1>7, <1>8 DEF NamesInv, NameTypes
<1>10. TaskNamesInv(t)'
  <2>1. /\ loop'[t] = [name |-> name, answered |-> loop[t].answered]
        /\ late'[t] \subseteq late[t]
    BY <1>3, <1>8 DEF NamesInv, NameTypes
  <2>2. Heard(t, loop[t].name)' /\ ~LookedUp(t)'
    BY <1>3, <1>7, <2>1 DEF Heard, AsksDns, LookedUp
  <2> QED
    BY <1>3, <1>4, <1>7, <2>1, <2>2 DEF NamesInv, TaskNamesInv, AsksDns
<1>11. ASSUME NEW u \in Threads \ {t}
       PROVE  TaskNamesInv(u)'
  BY <1>3, <1>8, NamesOfOthers DEF NamesInv, NameTypes
<1> QED
  BY <1>9, <1>10, <1>11 DEF NamesInv

LEMMA NamesReturn ==
  ASSUME NamesInv, pc \in [Threads -> Places], NEW t \in Threads, LoopReturns(t)
  PROVE  NamesInv'
<1> DEFINE unanswered == IF loop[t].answered THEN {} ELSE {host[t]}
<1>1. /\ pc[t] = <<"name", "wait">>
      /\ pc' = [pc EXCEPT ![t] = <<"port", "test">>]
      /\ late' = [late EXCEPT ![t] = late[t] \cup unanswered]
      /\ gaveUp' = [gaveUp EXCEPT ![t] = gaveUp[t] \cup unanswered]
      /\ UNCHANGED <<config, waiting, host, alive, loop>>
  BY DEF LoopReturns, Goto, task
<1>2. /\ unanswered \subseteq Address
      /\ unanswered \subseteq {host[t]}
      /\ ~loop[t].answered => host[t] \in unanswered
  BY <1>1 DEF NamesInv, TaskNamesInv
<1> HIDE DEF unanswered
<1>3. NameTypes'
  BY <1>1, <1>2 DEF NamesInv, NameTypes
<1>4. TaskNamesInv(t)'
  <2>1. /\ late'[t] = late[t] \cup unanswered
        /\ gaveUp'[t] = gaveUp[t] \cup unanswered
        /\ pc'[t] = <<"port", "test">>
        /\ gaveUp'[t] \ {host[t]} = gaveUp[t] \ {host[t]}
    BY <1>1, <1>2 DEF NamesInv, NameTypes
  <2>2. Heard(t, loop[t].name)'
    BY <1>1, <2>1 DEF NamesInv, TaskNamesInv, Heard, AsksDns
  <2> QED
    BY <1>1, <1>2, <2>1, <2>2 DEF NamesInv, TaskNamesInv, AsksDns
<1>5. ASSUME NEW u \in Threads \ {t}
      PROVE  TaskNamesInv(u)'
  BY <1>1, NamesOfOthers DEF NamesInv, NameTypes
<1> QED
  BY <1>3, <1>4, <1>5 DEF NamesInv

LEMMA NamesReport ==
  ASSUME NamesInv, pc \in [Threads -> Places], NEW t \in Threads, Report(t)
  PROVE  NamesInv'
<1>1. /\ pc' = [pc EXCEPT ![t] = <<"task", "idle">>]
      /\ loop' = [loop EXCEPT ![t] = NoLoop]
      /\ alive' = [alive EXCEPT ![t] = NoReply]
      /\ host' = [host EXCEPT ![t] = Hosts[1]]
      /\ UNCHANGED <<config, waiting, late, gaveUp>>
  BY DEF Report, Goto
<1>2. NameTypes'
  BY <1>1 DEF NamesInv, NameTypes, NoLoop, Answers
<1>3. TaskNamesInv(t)'
  <2>1. /\ pc'[t] = <<"task", "idle">> /\ loop'[t] = NoLoop
        /\ late'[t] \subseteq gaveUp'[t]
    BY <1>1 DEF NamesInv, NameTypes, TaskNamesInv
  <2> QED
    BY <2>1 DEF TaskNamesInv, Heard, LookedUp, NoLoop
<1>4. ASSUME NEW u \in Threads \ {t}
      PROVE  TaskNamesInv(u)'
  BY <1>1, NamesOfOthers DEF NamesInv, NameTypes
<1> QED
  BY <1>2, <1>3, <1>4 DEF NamesInv

LEMMA NamesNext == NamesInv /\ ProbeTypes /\ [Next]_vars => NamesInv'
<1> SUFFICES ASSUME NamesInv, ProbeTypes, [Next]_vars PROVE NamesInv'
  OBVIOUS
<1>p. pc \in [Threads -> Places]
  BY DEF ProbeTypes
<1>kept. ASSUME UNCHANGED <<config, waiting, pc, host, alive, loop, late, gaveUp>>
         PROVE  NamesInv'
  BY <1>kept, NamesOfOthers DEF NamesInv, NameTypes
<1>1. ASSUME NEW t \in Threads, NEW s \in Slots,
             TestProbe(t, s) \/ StoreProbe(t, s) \/ CopyProbe(t, s) \/ CountCopy(t, s)
      PROVE  NamesInv'
  <2>1. PICK from \in {"test", "store", "copy", "count"}, step \in {"store", "copy", "count", "use"} :
          /\ pc[t] = <<s, from>> /\ pc' = [pc EXCEPT ![t] = <<s, step>>]
          /\ UNCHANGED <<config, waiting, host, alive, loop, late, gaveUp>>
    BY <1>1 DEF TestProbe, StoreProbe, CopyProbe, CountCopy, Goto, task, lookup
  <2>2. /\ <<s, step>> # <<"task", "idle">> /\ <<s, step>> # <<"name", "wait">>
    BY DEF Slots
  <2>3. LookedUp(t) \/ (pc[t][1] = "host" /\ <<s, step>>[1] = "host")
    <3>1. pc[t][1] = s /\ <<s, step>>[1] = s
      BY <2>1
    <3>2. CASE s = "port"
      BY <3>1, <3>2 DEF LookedUp
    <3>3. CASE s = "host"
      BY <3>1, <3>3
    <3> QED
      BY <3>2, <3>3 DEF Slots
  <2>4. pc[t] # <<"task", "idle">>
    BY <2>1 DEF Slots
  <2> QED
    BY <1>p, <2>1, <2>2, <2>3, <2>4, NamesQuiet
<1>2. ASSUME NEW t \in Threads, EndPortLoop(t)
      PROVE  NamesInv'
  <2>1. /\ pc[t] = <<"port", "use">> /\ pc' = [pc EXCEPT ![t] = <<"task", "report">>]
        /\ UNCHANGED <<config, waiting, host, alive, loop, late, gaveUp>>
    BY <1>2 DEF EndPortLoop, Goto, task, lookup
  <2>2. /\ pc[t] # <<"task", "idle">> /\ LookedUp(t)
        /\ <<"task", "report">> # <<"task", "idle">>
        /\ <<"task", "report">> # <<"name", "wait">>
    BY <2>1 DEF LookedUp
  <2> QED
    BY <1>p, <2>1, <2>2, NamesQuiet
<1>3. ASSUME NEW t \in Threads, ProbePort(t)
      PROVE  NamesInv'
  BY <1>3, <1>kept DEF ProbePort, lookup
<1>4. CASE RequestCancel \/ Stop \/ UNCHANGED vars
  BY <1>4, <1>kept DEF RequestCancel, Stop, vars, task, lookup
<1> QED
  BY <1>p, <1>1, <1>2, <1>3, <1>4, NamesBegin, NamesProbe, NamesAnswer, NamesStale,
     NamesReturn, NamesReport DEF Next, Step

(* resolve() takes the first name that is not empty, of its three. *)
LEMMA FirstOfThree ==
  ASSUME NEW a, NEW b, NEW c
  PROVE  /\ FirstName(<<a, b, c>>) \in {a, b, c, Empty}
         /\ FirstName(<<a, b, c>>) = Empty => a = Empty /\ b = Empty /\ c = Empty
<1> DEFINE names == <<a, b, c>>
           given == {i \in DOMAIN names : names[i] # Empty}
<1>1. /\ DOMAIN names = {1, 2, 3}
      /\ names[1] = a /\ names[2] = b /\ names[3] = c
  OBVIOUS
<1> HIDE DEF names
<1>2. given \subseteq {1, 2, 3}
  BY <1>1
<1>3. CASE given = {}
  BY <1>1, <1>3 DEF FirstName, names
<1>4. CASE given # {}
  <2>1. \E i \in given : \A j \in given : i <= j
    BY <1>2, <1>4
  <2>2. Min(given) \in given
    BY <2>1 DEF Min
  <2>3. FirstName(names) = names[Min(given)]
    BY <1>4 DEF FirstName
  <2> HIDE DEF given
  <2>4. names[Min(given)] \in {a, b, c} /\ names[Min(given)] # Empty
    BY <1>1, <2>2 DEF given
  <2> QED
    BY <2>3, <2>4 DEF names
<1> QED
  BY <1>3, <1>4

LEMMA EvaluateKeepsName ==
  ASSUME NEW d, "hostname" \in DOMAIN d
  PROVE  Evaluate(d).hostname = d.hostname
BY DEF Evaluate

(* enrichHost() gives the device the name that was resolved. *)
LEMMA EnrichedName ==
  ASSUME NEW t
  PROVE  EnrichHost(t).hostname = Hostname(t)
BY EvaluateKeepsName DEF EnrichHost

(* A host that becomes found is found alive, with what enrichHost() made.   *)
LEMMA FoundByReport ==
  ASSUME NEW t \in Threads, Report(t), host[t] \in Found' \ Found
  PROVE  alive[t].alive /\ reported'[host[t]].hostname = Hostname(t)
<1> DEFINE h == host[t]
           d == IF alive[t].alive THEN EnrichHost(t) ELSE Dead(h)
<1>1. reported' = AlsoReported(h, d)
  BY DEF Report
<1>2. h \in DOMAIN reported' /\ reported'[h] = d
  <2> HIDE DEF d, h
  <2> QED
    BY <1>1 DEF AlsoReported
<1>3. reported'[h].alive
  BY DEF Found
<1>4. alive[t].alive
  BY <1>2, <1>3 DEF Dead
<1> QED
  BY <1>2, <1>4, EnrichedName

LEMMA ReportedName ==
  ASSUME NamesInv, NEW t \in Threads, Report(t), host[t] \in Found' \ Found
  PROVE  LET h == host[t]
             name == reported'[h].hostname
         IN  IF name = Empty THEN OwnNames(h) = {} \/ h \in gaveUp[t]
             ELSE \/ name \in OwnNames(h)
                  \/ \E g \in gaveUp[t] \ {h} : name = Network[g].ptr
<1> DEFINE h == host[t]
           name == Hostname(t)
           dns == loop[t].name
           mdns == IF "Mdns" \in config.hostnameMethods THEN Network[h].mdns ELSE Empty
           netbios == IF "NetBios" \in config.hostnameMethods THEN Network[h].netbios ELSE Empty
           ptr == IF AsksDns /\ Network[h].ptr # h THEN Network[h].ptr ELSE Empty
<1>1. /\ name \in {dns, mdns, netbios, Empty}
      /\ name = Empty => dns = Empty /\ mdns = Empty /\ netbios = Empty
  BY FirstOfThree DEF Hostname
<1>2. OwnNames(h) = {n \in {ptr, mdns, netbios} : n # Empty}
  BY DEF OwnNames, AsksDns
<1>3. alive[t].alive /\ reported'[h].hostname = name
  BY FoundByReport
<1>4. LookedUp(t)
  BY <1>3 DEF Report, LookedUp
<1>5. /\ Heard(t, dns)
      /\ loop[t].answered /\ Network[h].ptr # h => dns # Empty
      /\ AsksDns => loop[t].answered \/ h \in gaveUp[t]
  BY <1>4 DEF NamesInv, TaskNamesInv
<1> HIDE DEF name, mdns, netbios
<1>6. CASE name = Empty
  <2>1. ptr # Empty => h \in gaveUp[t]
    BY <1>1, <1>5, <1>6
  <2> QED
    BY <1>1, <1>2, <1>3, <1>6, <2>1
<1>7. CASE name # Empty
  <2>1. CASE name \in {mdns, netbios}
    BY <1>2, <1>3, <1>7, <2>1
  <2>2. CASE name = dns
    <3>1. name = ptr \/ \E g \in gaveUp[t] \ {h} : name = Network[g].ptr
      BY <1>5, <1>7, <2>2 DEF Heard
    <3> QED
      BY <1>2, <1>3, <1>7, <3>1
  <2> QED
    BY <1>1, <1>7, <2>1, <2>2
<1> QED
  BY <1>6, <1>7

(* A host's name is its own, or what reverse DNS says of a host whose look-up*)
(* the same thread had given up before; a host that has a name stays without*)
(* one only when its own look-up was given up.  (reverseDnsBounded(),       *)
(* resolve())                                                               *)
THEOREM WrongNamesWereGivenUp == Spec => NamesComeFromGivenUp
<1>1. NamesInv /\ [Next]_vars =>
        [\A t \in Threads :
           LET h == host[t] IN
           Report(t) /\ h \in Found' \ Found =>
             LET name == reported'[h].hostname IN
             IF name = Empty THEN OwnNames(h) = {} \/ h \in gaveUp[t]
             ELSE \/ name \in OwnNames(h)
                  \/ \E g \in gaveUp[t] \ {h} : name = Network[g].ptr]_vars
  BY ReportedName
<1>2. Init => ProbesInv /\ NamesInv
  BY ProbesInit, NamesInit
<1>3. (ProbesInv /\ NamesInv) /\ [Next]_vars => (ProbesInv /\ NamesInv)'
  BY ProbesNext, NamesNext DEF ProbesInv
<1> QED
  BY <1>1, <1>2, <1>3, PTL DEF Spec, NamesComeFromGivenUp

-----------------------------------------------------------------------------
(* The score of a set of ports.  It is a sum, which the program makes in the *)
(* order of the ports and the property in none: both count the same units.   *)

AddRule(sum, r) == IF r[1] THEN sum + r[2] ELSE sum
IsRuleSum(n, g) ==
  g = [u \in SUBSET DOMAIN FlagRules(n) |->
         IF u = {} THEN Named(n).score
         ELSE LET x == Max(u) IN AddRule(g[u \ {x}], FlagRules(n)[x])]

LEMMA RulesAre ==
  ASSUME NEW n, NEW sum \in Nat
  PROVE  /\ DOMAIN FlagRules(n) = 1 .. 4
         /\ AddRule(sum, FlagRules(n)[1]) = sum + (IF "plaintext" \in Flags(n) THEN 8 ELSE 0)
         /\ AddRule(sum, FlagRules(n)[2]) = sum + (IF "db" \in Flags(n) THEN 6 ELSE 0)
         /\ AddRule(sum, FlagRules(n)[3]) =
              sum + (IF {"admin", "remote"} \subseteq Flags(n) THEN 6 ELSE 0)
         /\ AddRule(sum, FlagRules(n)[4]) =
              sum + (IF {"admin", "web"} \subseteq Flags(n) THEN 8 ELSE 0)
<1> DEFINE f == Flags(n)
<1>1. /\ FlagRules(n)[1][1] = ("plaintext" \in f) /\ FlagRules(n)[1][2] = 8
      /\ FlagRules(n)[2][1] = ("db" \in f) /\ FlagRules(n)[2][2] = 6
      /\ FlagRules(n)[3][1] = ({"admin", "remote"} \subseteq f) /\ FlagRules(n)[3][2] = 6
      /\ FlagRules(n)[4][1] = ({"web", "admin"} \subseteq f) /\ FlagRules(n)[4][2] = 8
  BY DEF FlagRules
<1>2. DOMAIN FlagRules(n) = 1 .. 4
  BY DEF FlagRules
<1>3. {"web", "admin"} = {"admin", "web"}
  OBVIOUS
<1>4. ASSUME NEW r, NEW holds \in BOOLEAN, NEW adds \in Nat, r[1] = holds, r[2] = adds
      PROVE  AddRule(sum, r) = sum + (IF holds THEN adds ELSE 0)
  <2>1. CASE holds
    BY <1>4, <2>1 DEF AddRule
  <2>2. CASE ~holds
    BY <1>4, <2>2 DEF AddRule
  <2> QED
    BY <2>1, <2>2
<1>5. /\ ("plaintext" \in f) \in BOOLEAN /\ ("db" \in f) \in BOOLEAN
      /\ ({"admin", "remote"} \subseteq f) \in BOOLEAN
      /\ ({"web", "admin"} \subseteq f) \in BOOLEAN
      /\ 8 \in Nat /\ 6 \in Nat
  OBVIOUS
<1>6. AddRule(sum, FlagRules(n)[1]) = sum + (IF "plaintext" \in f THEN 8 ELSE 0)
  BY <1>1, <1>4, <1>5
<1>7. AddRule(sum, FlagRules(n)[2]) = sum + (IF "db" \in f THEN 6 ELSE 0)
  BY <1>1, <1>4, <1>5
<1>8. AddRule(sum, FlagRules(n)[3]) = sum + (IF {"admin", "remote"} \subseteq f THEN 6 ELSE 0)
  BY <1>1, <1>4, <1>5
<1>9. AddRule(sum, FlagRules(n)[4]) = sum + (IF {"web", "admin"} \subseteq f THEN 8 ELSE 0)
  BY <1>1, <1>4, <1>5
<1> QED
  BY <1>2, <1>3, <1>6, <1>7, <1>8, <1>9

LEMMA NamedIs ==
  ASSUME NEW n \in PortNumbers
  PROVE  Named(n).score \in Nat
BY DEF Named, PortNumbers

LEMMA RuleSumExists ==
  ASSUME NEW n \in PortNumbers
  PROVE  \E g : IsRuleSum(n, g)
<1> DEFINE step == [p \in (1 .. 4) \X Nat |-> AddRule(p[2], FlagRules(n)[p[1]])]
<1>1. DOMAIN FlagRules(n) = 1 .. 4 /\ 4 \in Nat /\ Named(n).score \in Nat
  BY NamedIs, RulesAre
<1>2. ASSUME NEW i \in 1 .. 4, NEW sum \in Nat
      PROVE  AddRule(sum, FlagRules(n)[i]) \in Nat
  <2>1. i = 1 \/ i = 2 \/ i = 3 \/ i = 4
    OBVIOUS
  <2> QED
    BY <2>1, RulesAre
<1>3. step \in [(1 .. 4) \X Nat -> Nat]
  BY <1>2
<1>4. \A i \in 1 .. 4, sum \in Nat : step[<<i, sum>>] = AddRule(sum, FlagRules(n)[i])
  OBVIOUS
<1> HIDE DEF step
<1>5. PICK f \in [SUBSET (1 .. 4) -> Nat] : IsFold(4, Named(n).score, step, f)
  BY <1>1, <1>3, FoldExists
<1>6. ASSUME NEW u \in SUBSET (1 .. 4)
      PROVE  f[u] = IF u = {} THEN Named(n).score
                    ELSE LET x == Max(u) IN AddRule(f[u \ {x}], FlagRules(n)[x])
  <2>1. CASE u = {}
    BY <1>5, <2>1 DEF IsFold
  <2>2. CASE u # {}
    <3>1. Max(u) \in 1 .. 4 /\ u \ {Max(u)} \in SUBSET (1 .. 4)
      BY <1>1, <2>2, MaxIs
    <3>2. f[u] = step[<<Max(u), f[u \ {Max(u)}]>>] /\ f[u \ {Max(u)}] \in Nat
      BY <1>5, <2>2, <3>1 DEF IsFold
    <3> QED
      BY <1>4, <2>2, <3>1, <3>2
  <2> QED
    BY <2>1, <2>2
<1>7. f = [u \in SUBSET (1 .. 4) |->
             IF u = {} THEN Named(n).score
             ELSE LET x == Max(u) IN AddRule(f[u \ {x}], FlagRules(n)[x])]
  BY <1>5, <1>6
<1> QED
  BY <1>1, <1>7 DEF IsRuleSum

(* What one open port adds: RiskEngine's rules, one after the other. *)
LEMMA PortScoreIsWeight ==
  ASSUME NEW n \in PortNumbers
  PROVE  PortScore(n) = Weight(n) /\ Weight(n) \in Nat
<1> DEFINE g == CHOOSE h : IsRuleSum(n, h)
<1>1. PortScore(n) = g[DOMAIN FlagRules(n)]
  BY DEF PortScore, FoldLeft, MapThenFoldSet, IsRuleSum, AddRule
<1>2. IsRuleSum(n, g)
  BY RuleSumExists
<1> HIDE DEF g
<1>3. DOMAIN FlagRules(n) = 1 .. 4 /\ Named(n).score \in Nat
  BY NamedIs, RulesAre
<1>4. g[1 .. 0] = Named(n).score
  <2>1. 1 .. 0 = {}
    OBVIOUS
  <2> QED
    BY <1>2, <2>1 DEF IsRuleSum
<1>5. ASSUME NEW k \in {0, 1, 2, 3}
      PROVE  g[1 .. k + 1] = AddRule(g[1 .. k], FlagRules(n)[k + 1])
  <2>1. /\ 1 .. k + 1 \in SUBSET (1 .. 4) /\ 1 .. k + 1 # {}
        /\ Max(1 .. k + 1) = k + 1 /\ (1 .. k + 1) \ {k + 1} = 1 .. k
    BY LastOfInterval
  <2> DEFINE u == 1 .. k + 1
  <2>2. u \in SUBSET DOMAIN FlagRules(n) /\ u # {} /\ Max(u) = k + 1 /\ u \ {Max(u)} = 1 .. k
    BY <1>3, <2>1
  <2> HIDE DEF u
  <2>3. g[u] = AddRule(g[u \ {Max(u)}], FlagRules(n)[Max(u)])
    BY <1>2, <2>2 DEF IsRuleSum
  <2> QED
    BY <2>2, <2>3 DEF u
<1>6. /\ g[1 .. 1] = AddRule(g[1 .. 0], FlagRules(n)[1])
      /\ g[1 .. 2] = AddRule(g[1 .. 1], FlagRules(n)[2])
      /\ g[1 .. 3] = AddRule(g[1 .. 2], FlagRules(n)[3])
      /\ g[1 .. 4] = AddRule(g[1 .. 3], FlagRules(n)[4])
  <2>1. 0 + 1 = 1 /\ 1 + 1 = 2 /\ 2 + 1 = 3 /\ 3 + 1 = 4
    OBVIOUS
  <2> QED
    BY <1>5, <2>1
<1> DEFINE a == IF "plaintext" \in Flags(n) THEN 8 ELSE 0
           b == IF "db" \in Flags(n) THEN 6 ELSE 0
           c == IF {"admin", "remote"} \subseteq Flags(n) THEN 6 ELSE 0
           e == IF {"admin", "web"} \subseteq Flags(n) THEN 8 ELSE 0
<1>7. a \in Nat /\ b \in Nat /\ c \in Nat /\ e \in Nat
  OBVIOUS
<1>8. Weight(n) = Named(n).score + a + b + c + e
  BY DEF Weight
<1>9. \A sum \in Nat : /\ AddRule(sum, FlagRules(n)[1]) = sum + a
                       /\ AddRule(sum, FlagRules(n)[2]) = sum + b
                       /\ AddRule(sum, FlagRules(n)[3]) = sum + c
                       /\ AddRule(sum, FlagRules(n)[4]) = sum + e
  BY RulesAre
<1> HIDE DEF a, b, c, e
<1>10. g[1 .. 4] = Named(n).score + a + b + c + e
  <2>1. g[1 .. 1] = Named(n).score + a /\ g[1 .. 1] \in Nat
    BY <1>3, <1>4, <1>6, <1>7, <1>9
  <2>2. g[1 .. 2] = Named(n).score + a + b /\ g[1 .. 2] \in Nat
    BY <1>3, <1>6, <1>7, <1>9, <2>1
  <2>3. g[1 .. 3] = Named(n).score + a + b + c /\ g[1 .. 3] \in Nat
    BY <1>3, <1>6, <1>7, <1>9, <2>2
  <2> QED
    BY <1>6, <1>9, <2>3
<1> QED
  BY <1>1, <1>3, <1>7, <1>8, <1>10

(* A set of ports with one unit for every point that each of them adds. *)
UnitsOf(n) == {n} \X (1 .. Weight(n))
Units(S) == UNION {UnitsOf(n) : n \in S}

LEMMA UnitsOfPort ==
  ASSUME NEW n \in PortNumbers
  PROVE  IsFiniteSet(UnitsOf(n)) /\ Cardinality(UnitsOf(n)) = Weight(n)
<1> DEFINE w == Weight(n)
<1>1. w \in Nat
  BY PortScoreIsWeight
<1> HIDE DEF w
<1>2. IsFiniteSet(1 .. w) /\ Cardinality(1 .. w) = w
  <2>1. 1 \in Int /\ w \in Int /\ (IF 1 > w THEN 0 ELSE w - 1 + 1) = w
    BY <1>1
  <2> QED
    BY <2>1, FS_Interval
<1>3. IsFiniteSet({n}) /\ Cardinality({n}) = 1
  BY FS_Singleton
<1>4. /\ IsFiniteSet({n} \X (1 .. w))
      /\ Cardinality({n} \X (1 .. w)) = 1 * w
  BY <1>2, <1>3, FS_Product
<1> QED
  BY <1>1, <1>4 DEF UnitsOf, w

LEMMA UnitsAreFinite ==
  ASSUME NEW S \in SUBSET PortNumbers, IsFiniteSet(S)
  PROVE  IsFiniteSet(Units(S))
<1> DEFINE f == [n \in S |-> UnitsOf(n)]
           T == {UnitsOf(n) : n \in S}
<1>1. f \in Surjection(S, T)
  BY DEF Surjection
<1>2. IsFiniteSet(T)
  <2> HIDE DEF f, T
  <2> QED
    BY <1>1, FS_Surjection
<1>3. \A t \in T : IsFiniteSet(t)
  BY UnitsOfPort
<1> QED
  BY <1>2, <1>3, FS_UNION DEF Units

LEMMA UnitsAdded ==
  ASSUME NEW S \in SUBSET PortNumbers, IsFiniteSet(S), NEW n \in PortNumbers, n \notin S
  PROVE  Cardinality(Units(S \cup {n})) = Cardinality(Units(S)) + Weight(n)
<1>1. Units(S \cup {n}) = Units(S) \cup UnitsOf(n)
  BY DEF Units
<1>2. Units(S) \cap UnitsOf(n) = {}
  BY DEF Units, UnitsOf
<1>3. /\ IsFiniteSet(Units(S)) /\ IsFiniteSet(UnitsOf(n))
      /\ Cardinality(UnitsOf(n)) = Weight(n) /\ Cardinality(Units(S)) \in Nat
      /\ Weight(n) \in Nat
  BY UnitsAreFinite, UnitsOfPort, FS_CardinalityType, PortScoreIsWeight
<1>4. Cardinality(Units(S) \cup UnitsOf(n))
        = Cardinality(Units(S)) + Cardinality(UnitsOf(n)) - Cardinality(Units(S) \cap UnitsOf(n))
  BY <1>3, FS_Union
<1>5. Cardinality(Units(S) \cap UnitsOf(n)) = 0
  BY <1>2, FS_EmptySet
<1>6. Cardinality(Units(S \cup {n})) = Cardinality(Units(S) \cup UnitsOf(n))
  BY <1>1
<1> QED
  BY <1>3, <1>4, <1>5, <1>6

LEMMA NoUnits == Units({}) = {} /\ Cardinality(Units({})) = 0
BY FS_EmptySet DEF Units

(* More ports make more units. *)
LEMMA UnitsMonotone ==
  ASSUME NEW T \in SUBSET PortNumbers, IsFiniteSet(T), NEW S \in SUBSET T
  PROVE  /\ Cardinality(Units(S)) \in Nat /\ Cardinality(Units(T)) \in Nat
         /\ Cardinality(Units(S)) <= Cardinality(Units(T))
<1>1. Units(S) \in SUBSET Units(T)
  BY DEF Units
<1>2. IsFiniteSet(Units(T))
  BY UnitsAreFinite
<1> QED
  BY <1>1, <1>2, FS_Subset, FS_CardinalityType

IsSum(S, g) ==
  g = [u \in SUBSET S |->
         IF u = {} THEN 0 ELSE LET x == CHOOSE y \in u : TRUE IN Weight(x) + g[u \ {x}]]

(* The fold over a set counts them, whatever element it takes first. *)
LEMMA SumIsUnits ==
  ASSUME NEW S \in SUBSET PortNumbers, IsFiniteSet(S)
  PROVE  MapThenSumSet(Weight, S) = Cardinality(Units(S))
<1> DEFINE g == CHOOSE h : IsSum(S, h)
           count == [u \in SUBSET S |-> Cardinality(Units(u))]
           any(u) == CHOOSE y \in u : TRUE
<1>1. MapThenSumSet(Weight, S) = g[S]
  BY DEF MapThenSumSet, MapThenFoldSet, IsSum
<1>2. ASSUME NEW u \in SUBSET S, u # {}
      PROVE  /\ any(u) \in u /\ u \ {any(u)} \in SUBSET S
             /\ IsFiniteSet(u) /\ Cardinality(u \ {any(u)}) = Cardinality(u) - 1
             /\ Cardinality(Units(u)) = Weight(any(u)) + Cardinality(Units(u \ {any(u)}))
  <2> DEFINE x == any(u)
             v == u \ {x}
  <2>1. x \in u
    BY <1>2
  <2> HIDE DEF x
  <2>2. IsFiniteSet(u) /\ IsFiniteSet(v) /\ Cardinality(v) = Cardinality(u) - 1
    BY <2>1, FS_Subset, FS_RemoveElement
  <2>3. v \in SUBSET PortNumbers /\ x \in PortNumbers /\ x \notin v /\ v \cup {x} = u
    BY <2>1
  <2> HIDE DEF v
  <2>4. Cardinality(Units(v \cup {x})) = Cardinality(Units(v)) + Weight(x)
    BY <2>2, <2>3, UnitsAdded
  <2>5. Cardinality(Units(v)) \in Nat /\ Weight(x) \in Nat
    BY <2>2, <2>3, UnitsAreFinite, FS_CardinalityType, PortScoreIsWeight
  <2>6. Cardinality(Units(u)) = Weight(x) + Cardinality(Units(v))
    <3>1. Cardinality(Units(v \cup {x})) = Cardinality(Units(u))
      BY <2>3
    <3> QED
      BY <2>4, <2>5, <3>1
  <2> QED
    BY <2>1, <2>2, <2>6 DEF v, x
<1>3. IsSum(S, count)
  <2>1. ASSUME NEW u \in SUBSET S
        PROVE  count[u] = IF u = {} THEN 0
                          ELSE LET x == CHOOSE y \in u : TRUE IN Weight(x) + count[u \ {x}]
    <3>1. CASE u = {}
      BY <3>1, NoUnits
    <3>2. CASE u # {}
      BY <1>2, <3>2
    <3> QED
      BY <3>1, <3>2
  <2> QED
    BY <2>1 DEF IsSum
<1>4. IsSum(S, g)
  <2> HIDE DEF count
  <2> QED
    BY <1>3
<1> HIDE DEF g, count
<1>5. ASSUME NEW u \in SUBSET S, u # {}
      PROVE  g[u] = Weight(any(u)) + g[u \ {any(u)}]
  BY <1>4, <1>5 DEF IsSum
<1>6. g[{}] = 0
  BY <1>4 DEF IsSum
<1> DEFINE K == {k \in Nat : \A u \in SUBSET S : Cardinality(u) = k => g[u] = Cardinality(Units(u))}
<1> HIDE DEF any
<1>7. K = Nat
  <2>1. K \in SUBSET Nat
    OBVIOUS
  <2>2. 0 \in K
    <3>1. ASSUME NEW u \in SUBSET S, Cardinality(u) = 0
          PROVE  g[u] = Cardinality(Units(u))
      <4>1. u = {}
        BY <3>1, FS_Subset, FS_EmptySet
      <4> QED
        BY <1>6, <4>1, NoUnits
    <3> QED
      BY <3>1
  <2>3. ASSUME NEW k \in K
        PROVE  k + 1 \in K
    <3>1. k \in Nat
      <4> HIDE DEF K
      <4> QED
        BY <2>1
    <3>2. ASSUME NEW u \in SUBSET S, Cardinality(u) = k + 1
          PROVE  g[u] = Cardinality(Units(u))
      <4>1. u # {}
        BY <3>1, <3>2, FS_EmptySet
      <4> DEFINE v == u \ {any(u)}
      <4>2. v \in SUBSET S /\ Cardinality(v) = k
        BY <1>2, <3>1, <3>2, <4>1
      <4>3. g[v] = Cardinality(Units(v))
        BY <4>2
      <4> HIDE DEF K
      <4> QED
        BY <1>2, <1>5, <4>1, <4>3
    <3> QED
      BY <3>1, <3>2
  <2> HIDE DEF K
  <2> QED
    BY <2>1, <2>2, <2>3, NatSet
<1>8. Cardinality(S) \in K
  <2> HIDE DEF K
  <2> QED
    BY <1>7, FS_CardinalityType
<1>9. S \in SUBSET S
  OBVIOUS
<1> QED
  BY <1>1, <1>8, <1>9

-----------------------------------------------------------------------------
(* The open ports of a device, and its score *)

KeepOpen(open, p) == IF p.state = "open" THEN Append(open, p) ELSE open
IsKept(s, g) ==
  g = [u \in SUBSET DOMAIN s |->
         IF u = {} THEN <<>> ELSE LET x == Max(u) IN KeepOpen(g[u \ {x}], s[x])]

LEMMA KeptExists ==
  ASSUME NEW S, NEW s \in Seq(S)
  PROVE  \E g : IsKept(s, g)
<1> DEFINE n == Len(s)
           V == Seq(S)
           step == [p \in (1 .. n) \X V |-> KeepOpen(p[2], s[p[1]])]
<1>1. n \in Nat /\ DOMAIN s = 1 .. n /\ <<>> \in V /\ \A i \in 1 .. n : s[i] \in S
  OBVIOUS
<1>2. ASSUME NEW i \in 1 .. n, NEW open \in V
      PROVE  KeepOpen(open, s[i]) \in V
  BY <1>1 DEF KeepOpen
<1>3. step \in [(1 .. n) \X V -> V]
  <2> HIDE DEF V, n
  <2> QED
    BY <1>2
<1>4. \A i \in 1 .. n, open \in V : step[<<i, open>>] = KeepOpen(open, s[i])
  OBVIOUS
<1> HIDE DEF n, V, step
<1>5. PICK f \in [SUBSET (1 .. n) -> V] : IsFold(n, <<>>, step, f)
  BY <1>1, <1>3, FoldExists
<1>6. ASSUME NEW u \in SUBSET (1 .. n)
      PROVE  f[u] = IF u = {} THEN <<>> ELSE LET x == Max(u) IN KeepOpen(f[u \ {x}], s[x])
  <2>1. CASE u = {}
    BY <1>5, <2>1 DEF IsFold
  <2>2. CASE u # {}
    <3>1. Max(u) \in 1 .. n /\ u \ {Max(u)} \in SUBSET (1 .. n)
      BY <1>1, <2>2, MaxIs
    <3>2. f[u] = step[<<Max(u), f[u \ {Max(u)}]>>] /\ f[u \ {Max(u)}] \in V
      BY <1>5, <2>2, <3>1 DEF IsFold
    <3> QED
      BY <1>4, <2>2, <3>1, <3>2
  <2> QED
    BY <2>1, <2>2
<1>7. f = [u \in SUBSET (1 .. n) |->
             IF u = {} THEN <<>> ELSE LET x == Max(u) IN KeepOpen(f[u \ {x}], s[x])]
  BY <1>5, <1>6
<1> QED
  BY <1>1, <1>7 DEF IsKept

(* Device::openPorts() of a device that has open ports only, as every scan's.*)
LEMMA AllPortsAreOpen ==
  ASSUME NEW d, NEW S, d.ports \in Seq(S), \A i \in DOMAIN d.ports : d.ports[i].state = "open"
  PROVE  OpenPorts(d) = d.ports
<1> DEFINE s == d.ports
           g == CHOOSE h : IsKept(s, h)
           n == Len(s)
           Good(k) == g[1 .. k] \in Seq(S) /\ Len(g[1 .. k]) = k
                      /\ \A i \in 1 .. k : g[1 .. k][i] = s[i]
           K == {k \in Nat : k <= n => Good(k)}
<1>1. OpenPorts(d) = g[DOMAIN s]
  BY DEF OpenPorts, FoldLeft, MapThenFoldSet, IsKept, KeepOpen
<1>2. IsKept(s, g)
  BY KeptExists
<1>3. n \in Nat /\ DOMAIN s = 1 .. n /\ \A i \in 1 .. n : s[i] \in S /\ s[i].state = "open"
  OBVIOUS
<1> HIDE DEF g, n
<1>4. g[1 .. 0] = <<>>
  <2>1. 1 .. 0 = {}
    OBVIOUS
  <2> QED
    BY <1>2, <2>1 DEF IsKept
<1>5. ASSUME NEW k \in Nat, k + 1 <= n
      PROVE  g[1 .. k + 1] = Append(g[1 .. k], s[k + 1]) /\ s[k + 1] \in S
  <2>1. /\ 1 .. k + 1 \in SUBSET (1 .. n) /\ 1 .. k + 1 # {}
        /\ Max(1 .. k + 1) = k + 1 /\ (1 .. k + 1) \ {k + 1} = 1 .. k
    BY <1>3, <1>5, LastOfInterval
  <2> DEFINE u == 1 .. k + 1
  <2>2. u \in SUBSET DOMAIN s /\ u # {} /\ Max(u) = k + 1 /\ u \ {Max(u)} = 1 .. k
    BY <1>3, <2>1
  <2> HIDE DEF u
  <2>3. g[u] = KeepOpen(g[u \ {Max(u)}], s[Max(u)])
    BY <1>2, <2>2 DEF IsKept
  <2>4. s[k + 1] \in S /\ s[k + 1].state = "open"
    BY <1>3, <1>5
  <2> QED
    BY <2>2, <2>3, <2>4 DEF u, KeepOpen
<1> HIDE DEF s
<1>6. K = Nat
  <2>1. K \in SUBSET Nat
    OBVIOUS
  <2>2. 0 \in K
    <3>1. <<>> \in Seq(S) /\ Len(<<>>) = 0 /\ 1 .. 0 = {}
      OBVIOUS
    <3>2. Good(0)
      BY <1>4, <3>1
    <3> HIDE DEF Good
    <3> QED
      BY <3>2
  <2>3. ASSUME NEW k \in K
        PROVE  k + 1 \in K
    <3>1. k \in Nat
      <4> HIDE DEF K
      <4> QED
        BY <2>1
    <3>2. ASSUME k + 1 <= n
          PROVE  Good(k + 1)
      <4>1. k <= n
        BY <1>3, <3>1, <3>2
      <4>2. Good(k)
        BY <3>1, <4>1
      <4>3. g[1 .. k + 1] = Append(g[1 .. k], s[k + 1]) /\ s[k + 1] \in S
        BY <1>5, <3>1, <3>2
      <4>4. /\ Append(g[1 .. k], s[k + 1]) \in Seq(S)
            /\ Len(Append(g[1 .. k], s[k + 1])) = k + 1
            /\ \A i \in 1 .. k : Append(g[1 .. k], s[k + 1])[i] = g[1 .. k][i]
            /\ Append(g[1 .. k], s[k + 1])[k + 1] = s[k + 1]
        BY <3>1, <4>2, <4>3, AppendProperties
      <4> HIDE DEF K
      <4>5. \A i \in 1 .. k + 1 : i = k + 1 \/ i \in 1 .. k
        BY <3>1
      <4> QED
        BY <4>2, <4>3, <4>4, <4>5
    <3> HIDE DEF Good
    <3> QED
      BY <3>1, <3>2
  <2> HIDE DEF K
  <2> QED
    BY <2>1, <2>2, <2>3, NatSet
<1>7. Good(n)
  <2>1. n \in K /\ n <= n
    <3> HIDE DEF K
    <3> QED
      BY <1>3, <1>6
  <2> HIDE DEF Good
  <2> QED
    BY <2>1
<1>8. s \in Seq(S) /\ Len(s) = n /\ DOMAIN s = 1 .. n
  BY <1>3 DEF s, n
<1>9. g[1 .. n] = s
  <2>1. g[1 .. n] \in [1 .. n -> S] /\ s \in [1 .. n -> S]
    BY <1>7, <1>8, LenProperties
  <2> QED
    BY <1>7, <2>1
<1> QED
  BY <1>1, <1>8, <1>9 DEF s

AddPort(sum, p) == sum + PortScore(p.number)
IsScore(s, g) ==
  g = [u \in SUBSET DOMAIN s |->
         IF u = {} THEN 0 ELSE LET x == Max(u) IN AddPort(g[u \ {x}], s[x])]

LEMMA ScoreExists ==
  ASSUME NEW S, NEW s \in Seq(S), \A i \in 1 .. Len(s) : s[i].number \in PortNumbers
  PROVE  \E g : IsScore(s, g)
<1> DEFINE n == Len(s)
           step == [p \in (1 .. n) \X Nat |-> AddPort(p[2], s[p[1]])]
<1>1. n \in Nat /\ DOMAIN s = 1 .. n /\ 0 \in Nat
  OBVIOUS
<1>2. ASSUME NEW i \in 1 .. n, NEW sum \in Nat
      PROVE  AddPort(sum, s[i]) \in Nat
  <2>1. PortScore(s[i].number) \in Nat
    BY PortScoreIsWeight
  <2> QED
    BY <2>1 DEF AddPort
<1>3. step \in [(1 .. n) \X Nat -> Nat]
  <2> HIDE DEF n
  <2> QED
    BY <1>2
<1>4. \A i \in 1 .. n, sum \in Nat : step[<<i, sum>>] = AddPort(sum, s[i])
  OBVIOUS
<1> HIDE DEF n, step
<1>5. PICK f \in [SUBSET (1 .. n) -> Nat] : IsFold(n, 0, step, f)
  BY <1>1, <1>3, FoldExists
<1>6. ASSUME NEW u \in SUBSET (1 .. n)
      PROVE  f[u] = IF u = {} THEN 0 ELSE LET x == Max(u) IN AddPort(f[u \ {x}], s[x])
  <2>1. CASE u = {}
    BY <1>5, <2>1 DEF IsFold
  <2>2. CASE u # {}
    <3>1. Max(u) \in 1 .. n /\ u \ {Max(u)} \in SUBSET (1 .. n)
      BY <1>1, <2>2, MaxIs
    <3>2. f[u] = step[<<Max(u), f[u \ {Max(u)}]>>] /\ f[u \ {Max(u)}] \in Nat
      BY <1>5, <2>2, <3>1 DEF IsFold
    <3> QED
      BY <1>4, <2>2, <3>1, <3>2
  <2> QED
    BY <2>1, <2>2
<1>7. f = [u \in SUBSET (1 .. n) |->
             IF u = {} THEN 0 ELSE LET x == Max(u) IN AddPort(f[u \ {x}], s[x])]
  BY <1>5, <1>6
<1> QED
  BY <1>1, <1>7 DEF IsScore

(* The sum over the open ports counts the units of their numbers.           *)
LEMMA ScoreIsUnits ==
  ASSUME NEW d, NEW S, OpenPorts(d) \in Seq(S),
         \A i \in DOMAIN OpenPorts(d) : OpenPorts(d)[i].number \in PortNumbers,
         \A i, j \in DOMAIN OpenPorts(d) : OpenPorts(d)[i].number = OpenPorts(d)[j].number => i = j
  PROVE  /\ OpenNumbers(d) \in SUBSET PortNumbers /\ IsFiniteSet(OpenNumbers(d))
         /\ Score(d) = Cardinality(Units(OpenNumbers(d)))
                         + (IF Cardinality(OpenNumbers(d)) > 10 THEN 10 ELSE 0)
<1> DEFINE s == OpenPorts(d)
           g == CHOOSE h : IsScore(s, h)
           n == Len(s)
           numbers(k) == {s[i].number : i \in 1 .. k}
           Good(k) == /\ IsFiniteSet(numbers(k)) /\ Cardinality(numbers(k)) = k
                      /\ g[1 .. k] = Cardinality(Units(numbers(k)))
           K == {k \in Nat : k <= n => Good(k)}
<1>1. Score(d) = g[DOMAIN s] + (IF n > 10 THEN 10 ELSE 0)
  BY DEF Score, FoldLeft, MapThenFoldSet, IsScore, AddPort, LargeSurface
<1>2. IsScore(s, g)
  BY ScoreExists
<1>3. /\ n \in Nat /\ DOMAIN s = 1 .. n
      /\ \A i \in 1 .. n : s[i].number \in PortNumbers
      /\ \A i, j \in 1 .. n : s[i].number = s[j].number => i = j
  OBVIOUS
<1>4. OpenNumbers(d) = numbers(n)
  <2>1. ToSet(s) = {s[i] : i \in 1 .. n}
    BY <1>3 DEF ToSet
  <2> QED
    BY <2>1 DEF OpenNumbers
<1> HIDE DEF g, n, s
<1>5. g[1 .. 0] = 0
  <2>1. 1 .. 0 = {}
    OBVIOUS
  <2> QED
    BY <1>2, <2>1 DEF IsScore
<1>6. ASSUME NEW k \in Nat, k + 1 <= n
      PROVE  g[1 .. k + 1] = g[1 .. k] + Weight(s[k + 1].number)
  <2>1. /\ 1 .. k + 1 \in SUBSET (1 .. n) /\ 1 .. k + 1 # {}
        /\ Max(1 .. k + 1) = k + 1 /\ (1 .. k + 1) \ {k + 1} = 1 .. k
    BY <1>3, <1>6, LastOfInterval
  <2> DEFINE u == 1 .. k + 1
  <2>2. u \in SUBSET DOMAIN s /\ u # {} /\ Max(u) = k + 1 /\ u \ {Max(u)} = 1 .. k
    BY <1>3, <2>1
  <2> HIDE DEF u
  <2>3. g[u] = AddPort(g[u \ {Max(u)}], s[Max(u)])
    BY <1>2, <2>2 DEF IsScore
  <2>4. PortScore(s[k + 1].number) = Weight(s[k + 1].number)
    <3>1. k + 1 \in 1 .. n
      BY <1>6
    <3> QED
      BY <1>3, <3>1, PortScoreIsWeight
  <2>5. g[u] = g[1 .. k] + PortScore(s[k + 1].number)
    BY <2>2, <2>3 DEF AddPort
  <2> QED
    BY <2>4, <2>5 DEF u
<1>7. K = Nat
  <2>1. K \in SUBSET Nat
    OBVIOUS
  <2>2. 0 \in K
    <3>1. numbers(0) = {}
      OBVIOUS
    <3>2. IsFiniteSet(numbers(0)) /\ Cardinality(numbers(0)) = 0
          /\ Cardinality(Units(numbers(0))) = 0
      BY <3>1, FS_EmptySet, NoUnits
    <3> HIDE DEF numbers
    <3> QED
      BY <1>5, <3>2
  <2>3. ASSUME NEW k \in K
        PROVE  k + 1 \in K
    <3>1. k \in Nat
      <4> HIDE DEF K
      <4> QED
        BY <2>1
    <3>2. ASSUME k + 1 <= n
          PROVE  Good(k + 1)
      <4> DEFINE m == s[k + 1].number
                 N == numbers(k)
      <4>1. k <= n /\ k + 1 \in 1 .. n
        BY <1>3, <3>1, <3>2
      <4>2. Good(k)
        BY <3>1, <4>1
      <4> HIDE DEF K
      <4>3. N \in SUBSET PortNumbers /\ m \in PortNumbers
        BY <1>3, <3>1, <4>1
      <4>4. m \notin N
        <5>1. ASSUME NEW i \in 1 .. k, s[i].number = m
              PROVE  FALSE
          <6>1. i \in 1 .. n /\ i # k + 1
            BY <1>3, <3>1, <4>1
          <6> QED
            BY <1>3, <4>1, <5>1, <6>1
        <5> QED
          BY <5>1
      <4>5. numbers(k + 1) = N \cup {m}
        <5>1. 1 .. k + 1 = (1 .. k) \cup {k + 1}
          BY <3>1
        <5> QED
          BY <5>1
      <4>6. IsFiniteSet(N) /\ Cardinality(N) = k /\ g[1 .. k] = Cardinality(Units(N))
        BY <4>2
      <4>7. g[1 .. k + 1] = g[1 .. k] + Weight(m)
        BY <1>6, <3>1, <3>2
      <4> HIDE DEF N, m, numbers
      <4>8. /\ IsFiniteSet(N \cup {m}) /\ Cardinality(N \cup {m}) = k + 1
            /\ Cardinality(Units(N \cup {m})) = Cardinality(Units(N)) + Weight(m)
        BY <4>3, <4>4, <4>6, FS_AddElement, UnitsAdded
      <4> QED
        BY <4>5, <4>6, <4>7, <4>8
    <3> HIDE DEF Good
    <3> QED
      BY <3>1, <3>2
  <2> HIDE DEF K
  <2> QED
    BY <2>1, <2>2, <2>3, NatSet
<1>8. Good(n)
  <2>1. n \in K /\ n <= n
    <3> HIDE DEF K
    <3> QED
      BY <1>3, <1>7
  <2> HIDE DEF Good
  <2> QED
    BY <2>1
<1>9. numbers(n) \in SUBSET PortNumbers
  BY <1>3
<1> HIDE DEF numbers
<1> QED
  BY <1>1, <1>3, <1>4, <1>8, <1>9

LEMMA LeastOfTwo ==
  ASSUME NEW x \in Nat
  PROVE  Min({100, x}) = Bounded(x)
<1>1. /\ Bounded(x) \in {100, x}
      /\ \A y \in {100, x} : Bounded(x) <= y
  BY DEF Bounded
<1>2. \A z \in {100, x} : (\A y \in {100, x} : z <= y) => z = Bounded(x)
  BY DEF Bounded
<1> QED
  BY <1>1, <1>2 DEF Min

(* RiskEngine::evaluate() gives a device the risk of its set of open ports. *)
LEMMA RiskIsBounded ==
  ASSUME NEW N \in SUBSET PortNumbers, IsFiniteSet(N)
  PROVE  LET x == Cardinality(Units(N)) + (IF Cardinality(N) > 10 THEN 10 ELSE 0)
         IN  x \in Nat /\ RiskOf(N) = Bounded(x)
<1> DEFINE x == Cardinality(Units(N)) + (IF Cardinality(N) > 10 THEN 10 ELSE 0)
<1>1. Cardinality(Units(N)) \in Nat /\ Cardinality(N) \in Nat
  BY UnitsAreFinite, FS_CardinalityType
<1>2. x \in Nat
  BY <1>1
<1>3. RiskOf(N) = Min({100, x})
  BY SumIsUnits DEF RiskOf
<1> HIDE DEF x
<1>4. RiskOf(N) = Bounded(x)
  BY <1>2, <1>3, LeastOfTwo
<1> QED
  BY <1>2, <1>4 DEF x

(* Ports that are left out only lower it. *)
LEMMA RiskIsMonotone ==
  ASSUME NEW T \in SUBSET PortNumbers, IsFiniteSet(T), NEW N \in SUBSET T
  PROVE  RiskOf(N) <= RiskOf(T)
<1> DEFINE x(A) == Cardinality(Units(A)) + (IF Cardinality(A) > 10 THEN 10 ELSE 0)
<1>1. IsFiniteSet(N) /\ Cardinality(N) <= Cardinality(T)
      /\ Cardinality(N) \in Nat /\ Cardinality(T) \in Nat
  BY FS_Subset, FS_CardinalityType
<1>2. /\ Cardinality(Units(N)) \in Nat /\ Cardinality(Units(T)) \in Nat
      /\ Cardinality(Units(N)) <= Cardinality(Units(T))
  BY UnitsMonotone
<1>3. x(N) \in Nat /\ x(T) \in Nat /\ x(N) <= x(T)
  BY <1>1, <1>2
<1>4. RiskOf(N) = Bounded(x(N)) /\ RiskOf(T) = Bounded(x(T))
  BY <1>1, RiskIsBounded
<1> HIDE DEF x
<1> QED
  BY <1>3, <1>4 DEF Bounded

(* levelForScore(): the highest level whose threshold the score reaches.    *)
LEMMA LevelIsHighest ==
  ASSUME NEW score \in Nat
  PROVE  \A i \in DOMAIN Levels :
           Thresholds[i] <= score <=> i <= Severity(LevelForScore(score))
<1>1. DOMAIN Levels = 1 .. 5
  BY DEF Levels
<1>2. /\ Levels[1] = "Info" /\ Levels[2] = "Low" /\ Levels[3] = "Medium"
      /\ Levels[4] = "High" /\ Levels[5] = "Critical"
  BY DEF Levels
<1>3. /\ Thresholds[1] = 0 /\ Thresholds[2] = 10 /\ Thresholds[3] = 30
      /\ Thresholds[4] = 55 /\ Thresholds[5] = 80
  BY DEF Thresholds
<1>4. ASSUME NEW k \in 1 .. 5
      PROVE  Severity(Levels[k]) = k
  <2>1. \A i \in 1 .. 5 : Levels[i] = Levels[k] => i = k
    <3>1. \A i \in 1 .. 5 : i = 1 \/ i = 2 \/ i = 3 \/ i = 4 \/ i = 5
      OBVIOUS
    <3> QED
      BY <1>2, <3>1
  <2> QED
    BY <1>1, <2>1 DEF Severity
<1>5. \A i \in 1 .. 5 : i = 1 \/ i = 2 \/ i = 3 \/ i = 4 \/ i = 5
  OBVIOUS
<1>6. \E k \in 1 .. 5 :
        /\ LevelForScore(score) = Levels[k]
        /\ Thresholds[k] <= score
        /\ \A i \in 1 .. 5 : Thresholds[i] <= score <=> i <= k
  <2>1. CASE score >= 80
    BY <1>2, <1>3, <1>5, <2>1 DEF LevelForScore
  <2>2. CASE score >= 55 /\ score < 80
    <3>1. LevelForScore(score) = Levels[4]
      BY <1>2, <2>2 DEF LevelForScore
    <3>2. \A i \in 1 .. 5 : Thresholds[i] <= score <=> i <= 4
      BY <1>3, <1>5, <2>2
    <3> QED
      BY <3>1, <3>2
  <2>3. CASE score >= 30 /\ score < 55
    <3>1. LevelForScore(score) = Levels[3]
      BY <1>2, <2>3 DEF LevelForScore
    <3>2. \A i \in 1 .. 5 : Thresholds[i] <= score <=> i <= 3
      BY <1>3, <1>5, <2>3
    <3> QED
      BY <3>1, <3>2
  <2>4. CASE score >= 10 /\ score < 30
    <3>1. LevelForScore(score) = Levels[2]
      BY <1>2, <2>4 DEF LevelForScore
    <3>2. \A i \in 1 .. 5 : Thresholds[i] <= score <=> i <= 2
      BY <1>3, <1>5, <2>4
    <3> QED
      BY <3>1, <3>2
  <2>5. CASE score < 10
    <3>1. LevelForScore(score) = Levels[1]
      BY <1>2, <2>5 DEF LevelForScore
    <3>2. \A i \in 1 .. 5 : Thresholds[i] <= score <=> i <= 1
      BY <1>3, <1>5, <2>5
    <3> QED
      BY <3>1, <3>2
  <2> QED
    BY <2>1, <2>2, <2>3, <2>4, <2>5
<1> QED
  BY <1>1, <1>4, <1>6

-----------------------------------------------------------------------------
(* What the port loop has found: the accepting ones of the ports it tried.  *)

PortsOf(h) == {PortOf(n, Network[h].banner[n], config.grabBanners) : n \in PortNumbers}
Accepting(h, numbers) ==
  {n \in numbers \cap DOMAIN Network[h].tcp : Network[h].tcp[n] = "accepts"}
Tried(t) == {config.ports[j] : j \in 1 .. next[t] - 1}
FoundNumbers(t) == {found[t][i].number : i \in DOMAIN found[t]}

NotAsked(t) == pc[t] = <<"task", "idle">> \/ pc[t][1] = "host"
PortLoopInv(t) ==
  /\ found[t] \in Seq(PortsOf(host[t]))
  /\ next[t] \in 1 .. Len(config.ports) + 1
  /\ \A i, j \in DOMAIN found[t] : found[t][i].number = found[t][j].number => i = j
  /\ FoundNumbers(t) = Accepting(host[t], Tried(t))
  /\ pc[t] = <<"task", "report">> => canceled \/ next[t] = Len(config.ports) + 1
TaskPortsInv(t) ==
  /\ NotAsked(t) => ~alive[t].alive
  /\ alive[t].alive => PortLoopInv(t)

PortsInv ==
  /\ config \in Configs
  /\ DOMAIN host = Threads /\ DOMAIN alive = Threads
  /\ DOMAIN found = Threads /\ DOMAIN next = Threads
  /\ \A t \in Threads : TaskPortsInv(t)

LEMMA PortsInit == Init => PortsInv
<1> SUFFICES ASSUME Init
             PROVE  PortsInv
  OBVIOUS
<1>1. ASSUME NEW t \in Threads
      PROVE  TaskPortsInv(t)
  <2>1. ~alive[t].alive
    BY DEF Init, NoReply
  <2> QED
    BY <2>1 DEF TaskPortsInv
<1> QED
  BY <1>1 DEF Init, PortsInv

LEMMA PortsOfOthers ==
  ASSUME PortsInv, NEW u \in Threads, UNCHANGED <<config, canceled>>,
         UNCHANGED <<pc[u], host[u], alive[u], found[u], next[u]>>
  PROVE  TaskPortsInv(u)'
<1>1. TaskPortsInv(u)
  BY DEF PortsInv
<1>2. PortsOf(host[u])' = PortsOf(host[u]) /\ Tried(u)' = Tried(u)
      /\ FoundNumbers(u)' = FoundNumbers(u)
  BY DEF PortsOf, Tried, FoundNumbers
<1>3. NotAsked(u)' = NotAsked(u)
  BY DEF NotAsked
<1>4. Accepting(host[u], Tried(u))' = Accepting(host[u], Tried(u))
  BY <1>2 DEF Accepting
<1> QED
  BY <1>1, <1>2, <1>3, <1>4 DEF TaskPortsInv, PortLoopInv

(* A step that only moves a thread, and not to its report. *)
LEMMA PortsQuiet ==
  ASSUME PortsInv, pc \in [Threads -> Places], NEW t \in Threads, NEW to,
         pc' = [pc EXCEPT ![t] = to], to # <<"task", "report">>,
         to = <<"task", "idle">> \/ to[1] = "host" => NotAsked(t),
         UNCHANGED <<config, canceled, host, alive, found, next>>
  PROVE  PortsInv'
<1>1. pc'[t] = to
  OBVIOUS
<1>2. TaskPortsInv(t)
  BY DEF PortsInv
<1>3. PortsOf(host[t])' = PortsOf(host[t]) /\ Tried(t)' = Tried(t)
      /\ FoundNumbers(t)' = FoundNumbers(t)
  BY DEF PortsOf, Tried, FoundNumbers
<1>4. Accepting(host[t], Tried(t))' = Accepting(host[t], Tried(t))
  BY <1>3 DEF Accepting
<1>5. NotAsked(t)' => NotAsked(t)
  BY <1>1 DEF NotAsked
<1>6. TaskPortsInv(t)'
  BY <1>1, <1>2, <1>3, <1>4, <1>5 DEF TaskPortsInv, PortLoopInv
<1>7. ASSUME NEW u \in Threads \ {t}
      PROVE  TaskPortsInv(u)'
  BY PortsOfOthers
<1> QED
  BY <1>6, <1>7 DEF PortsInv

LEMMA PortsBegin ==
  ASSUME PortsInv, pc \in [Threads -> Places], NEW t \in Threads, BeginTask(t)
  PROVE  PortsInv'
<1>1. /\ pc[t] = <<"task", "idle">>
      /\ \E h : host' = [host EXCEPT ![t] = h]
      /\ pc' = pc \/ pc' = [pc EXCEPT ![t] = <<"host", "test">>]
      /\ UNCHANGED <<config, canceled, alive, found, next>>
  BY DEF BeginTask, Goto
<1>2. ~alive'[t].alive
  BY <1>1 DEF PortsInv, TaskPortsInv, NotAsked
<1>3. TaskPortsInv(t)'
  BY <1>2 DEF TaskPortsInv
<1>4. ASSUME NEW u \in Threads \ {t}
      PROVE  TaskPortsInv(u)'
  BY <1>1, PortsOfOthers DEF PortsInv
<1> QED
  BY <1>1, <1>3, <1>4 DEF PortsInv

LEMMA PortsProbeHost ==
  ASSUME PortsInv, pc \in [Threads -> Places], NEW t \in Threads, ProbeHost(t)
  PROVE  PortsInv'
<1> DEFINE r == ReplyOf(host[t], config.methods)
<1>1. /\ alive' = [alive EXCEPT ![t] = r]
      /\ found' = [found EXCEPT ![t] = <<>>]
      /\ next' = [next EXCEPT ![t] = 1]
      /\ pc' = [pc EXCEPT ![t] = IF ~r.alive THEN <<"task", "report">>
                                 ELSE IF AsksDns THEN <<"name", "wait">>
                                 ELSE <<"port", "test">>]
      /\ UNCHANGED <<config, canceled, host>>
  BY DEF ProbeHost, Goto, AsksDns
<1> HIDE DEF r
<1>2. alive'[t] = r /\ found'[t] = <<>> /\ next'[t] = 1 /\ ~NotAsked(t)'
  BY <1>1 DEF PortsInv, NotAsked
<1>3. ASSUME r.alive
      PROVE  PortLoopInv(t)'
  <2>1. found'[t] \in Seq(PortsOf(host[t])') /\ DOMAIN found'[t] = {}
    BY <1>2
  <2>2. FoundNumbers(t)' = {} /\ Tried(t)' = {}
    BY <1>2, <2>1 DEF FoundNumbers, Tried
  <2>3. Accepting(host[t], Tried(t))' = {}
    BY <2>2 DEF Accepting
  <2>4. pc'[t] # <<"task", "report">>
    BY <1>1, <1>3
  <2>5. next'[t] \in 1 .. Len(config'.ports) + 1
    <3>1. Len(config.ports) \in Nat
      BY ConfigsAssumption DEF PortsInv
    <3> QED
      BY <1>1, <1>2, <3>1
  <2> QED
    BY <2>1, <2>2, <2>3, <2>4, <2>5 DEF PortLoopInv, PortsOf
<1>4. TaskPortsInv(t)'
  BY <1>2, <1>3 DEF TaskPortsInv
<1>5. ASSUME NEW u \in Threads \ {t}
      PROVE  TaskPortsInv(u)'
  BY <1>1, PortsOfOthers DEF PortsInv
<1> QED
  BY <1>1, <1>4, <1>5 DEF PortsInv

LEMMA ConfigPorts ==
  ASSUME config \in Configs
  PROVE  config.ports \in Seq(PortNumbers) /\ IsInjective(config.ports)
BY ConfigsAssumption

LEMMA AcceptingOfTwo ==
  ASSUME NEW h, NEW A, NEW B
  PROVE  Accepting(h, A \cup B) = Accepting(h, A) \cup Accepting(h, B)
BY DEF Accepting

(* A port that was tried is not tried again, so that it is found once.     *)
LEMMA PortsProbePort ==
  ASSUME PortsInv, pc \in [Threads -> Places], NEW t \in Threads, ProbePort(t)
  PROVE  PortsInv'
<1> DEFINE k == next[t]
           n == config.ports[k]
           h == host[t]
           accepts == n \in DOMAIN Network[h].tcp /\ Network[h].tcp[n] = "accepts"
           p == PortOf(n, Network[h].banner[n], config.grabBanners)
           s == found[t]
<1>1. /\ pc[t] = <<"port", "use">> /\ ~canceled /\ next[t] <= Len(config.ports)
      /\ found' = IF accepts THEN [found EXCEPT ![t] = Append(s, p)] ELSE found
      /\ next' = [next EXCEPT ![t] = k + 1]
      /\ UNCHANGED <<config, canceled, pc, host, alive>>
  BY DEF ProbePort, PortsLeft
<1>2. config.ports \in Seq(PortNumbers) /\ IsInjective(config.ports)
  BY ConfigPorts DEF PortsInv
<1>3. p.number = n /\ p.state = "open"
  BY DEF PortOf
<1>4. ASSUME alive[t].alive
      PROVE  PortLoopInv(t)'
  <2>1. PortLoopInv(t)
    BY <1>4 DEF PortsInv, TaskPortsInv
  <2>2. /\ k \in 1 .. Len(config.ports) /\ n \in PortNumbers
        /\ Len(config.ports) \in Nat /\ DOMAIN config.ports = 1 .. Len(config.ports)
    BY <1>1, <1>2, <2>1 DEF PortLoopInv
  <2>3. next'[t] = k + 1 /\ next'[t] \in 1 .. Len(config.ports) + 1
    BY <1>1, <2>2 DEF PortsInv
  <2>4. p \in PortsOf(h)
    BY <2>2 DEF PortsOf
  <2>5. n \notin Tried(t)
    BY <1>2, <2>2 DEF Tried, IsInjective
  <2>6. Tried(t)' = Tried(t) \cup {n}
    <3>1. 1 .. next'[t] - 1 = (1 .. k - 1) \cup {k}
      BY <2>2, <2>3
    <3>2. Tried(t)' = {config.ports[j] : j \in (1 .. k - 1) \cup {k}}
      BY <1>1, <3>1 DEF Tried
    <3> QED
      BY <3>2 DEF Tried
  <2>7. PortsOf(h)' = PortsOf(h) /\ Accepting(h, Tried(t))' = Accepting(h, Tried(t)')
    BY <1>1 DEF PortsOf, Accepting
  <2>8. Accepting(h, Tried(t)') = Accepting(h, Tried(t)) \cup Accepting(h, {n})
    BY <2>6, AcceptingOfTwo
  <2>9. n \notin FoundNumbers(t)
    BY <2>1, <2>5 DEF PortLoopInv, Accepting
  <2>10. s \in Seq(PortsOf(h))
    BY <2>1 DEF PortLoopInv
  <2>11. CASE accepts
    <3>1. Accepting(h, {n}) = {n}
      BY <2>11 DEF Accepting
    <3>2. found'[t] = Append(s, p)
      BY <1>1, <2>11 DEF PortsInv
    <3> HIDE DEF p, s, accepts
    <3>3. /\ found'[t] \in Seq(PortsOf(h)) /\ Len(s) \in Nat
          /\ DOMAIN s = 1 .. Len(s) /\ DOMAIN found'[t] = 1 .. Len(s) + 1
          /\ \A i \in 1 .. Len(s) : found'[t][i] = s[i]
          /\ found'[t][Len(s) + 1] = p
      BY <2>4, <2>10, <3>2
    <3>4. FoundNumbers(t) = {s[i].number : i \in 1 .. Len(s)}
      BY <3>3 DEF FoundNumbers, s
    <3>5. FoundNumbers(t)' = FoundNumbers(t) \cup {n}
      <4>1. 1 .. Len(s) + 1 = (1 .. Len(s)) \cup {Len(s) + 1}
        BY <3>3
      <4>2. FoundNumbers(t)' = {found'[t][i].number : i \in (1 .. Len(s)) \cup {Len(s) + 1}}
        BY <3>3, <4>1 DEF FoundNumbers
      <4> QED
        BY <1>3, <3>3, <3>4, <4>2
    <3>6. \A i, j \in DOMAIN found'[t] : found'[t][i].number = found'[t][j].number => i = j
      <4>1. \A i \in 1 .. Len(s) : s[i].number # n
        BY <2>9, <3>4
      <4>2. \A i, j \in 1 .. Len(s) : s[i].number = s[j].number => i = j
        BY <2>1, <3>3 DEF PortLoopInv, s
      <4>3. \A i \in DOMAIN found'[t] : i \in 1 .. Len(s) \/ i = Len(s) + 1
        BY <3>3
      <4> QED
        BY <1>3, <3>3, <4>1, <4>2, <4>3
    <3>7. FoundNumbers(t)' = Accepting(host[t], Tried(t))'
      <4>1. FoundNumbers(t) = Accepting(h, Tried(t))
        BY <2>1 DEF PortLoopInv
      <4> QED
        BY <1>1, <2>7, <2>8, <3>1, <3>5, <4>1 DEF Accepting
    <3> QED
      BY <1>1, <2>3, <2>7, <3>3, <3>6, <3>7 DEF PortLoopInv
  <2>12. CASE ~accepts
    <3>1. Accepting(h, {n}) = {}
      BY <2>12 DEF Accepting
    <3>2. found' = found
      BY <1>1, <2>12
    <3>3. FoundNumbers(t)' = Accepting(host[t], Tried(t))'
      BY <1>1, <2>1, <2>7, <2>8, <3>1, <3>2 DEF PortLoopInv, FoundNumbers, Accepting
    <3> HIDE DEF k, n, p, accepts
    <3> QED
      BY <1>1, <2>1, <2>3, <2>7, <3>2, <3>3 DEF PortLoopInv
  <2> QED
    BY <2>11, <2>12
<1>5. TaskPortsInv(t)'
  BY <1>1, <1>4 DEF PortsInv, TaskPortsInv, NotAsked
<1>6. ASSUME NEW u \in Threads \ {t}
      PROVE  TaskPortsInv(u)'
  <2> HIDE DEF accepts, p, s, k
  <2>1. UNCHANGED <<found[u], next[u]>>
    BY <1>1 DEF PortsInv
  <2> QED
    BY <1>1, <2>1, PortsOfOthers
<1>7. DOMAIN found' = Threads /\ DOMAIN next' = Threads
  <2> HIDE DEF accepts, p, s, k
  <2> QED
    BY <1>1 DEF PortsInv
<1> QED
  BY <1>1, <1>5, <1>6, <1>7 DEF PortsInv

LEMMA PortsEnd ==
  ASSUME PortsInv, pc \in [Threads -> Places], NEW t \in Threads, EndPortLoop(t)
  PROVE  PortsInv'
<1>1. /\ pc[t] = <<"port", "use">> /\ (canceled \/ ~(next[t] <= Len(config.ports)))
      /\ pc' = [pc EXCEPT ![t] = <<"task", "report">>]
      /\ UNCHANGED <<config, canceled, host, alive, found, next>>
  BY DEF EndPortLoop, Goto, PortsLeft, task
<1>2. ASSUME alive[t].alive
      PROVE  PortLoopInv(t)'
  <2>1. PortLoopInv(t)
    BY <1>2 DEF PortsInv, TaskPortsInv
  <2>2. Len(config.ports) \in Nat
    BY ConfigsAssumption DEF PortsInv
  <2>3. canceled \/ next[t] = Len(config.ports) + 1
    BY <1>1, <2>1, <2>2 DEF PortLoopInv
  <2>4. PortsOf(host[t])' = PortsOf(host[t]) /\ Tried(t)' = Tried(t)
        /\ FoundNumbers(t)' = FoundNumbers(t)
    BY <1>1 DEF PortsOf, Tried, FoundNumbers
  <2>5. Accepting(host[t], Tried(t))' = Accepting(host[t], Tried(t))
    BY <1>1, <2>4 DEF Accepting
  <2> QED
    BY <1>1, <2>1, <2>3, <2>4, <2>5 DEF PortLoopInv
<1>3. TaskPortsInv(t)'
  BY <1>1, <1>2 DEF PortsInv, TaskPortsInv, NotAsked
<1>4. ASSUME NEW u \in Threads \ {t}
      PROVE  TaskPortsInv(u)'
  BY <1>1, PortsOfOthers
<1> QED
  BY <1>1, <1>3, <1>4 DEF PortsInv

LEMMA PortsReport ==
  ASSUME PortsInv, pc \in [Threads -> Places], NEW t \in Threads, Report(t)
  PROVE  PortsInv'
<1>1. /\ alive' = [alive EXCEPT ![t] = NoReply]
      /\ found' = [found EXCEPT ![t] = <<>>]
      /\ host' = [host EXCEPT ![t] = Hosts[1]]
      /\ next' = [next EXCEPT ![t] = 1]
      /\ pc' = [pc EXCEPT ![t] = <<"task", "idle">>]
      /\ UNCHANGED <<config, canceled>>
  BY DEF Report, Goto
<1>2. ~alive'[t].alive
  BY <1>1 DEF PortsInv, NoReply
<1>3. TaskPortsInv(t)'
  BY <1>2 DEF TaskPortsInv
<1>4. ASSUME NEW u \in Threads \ {t}
      PROVE  TaskPortsInv(u)'
  BY <1>1, PortsOfOthers DEF PortsInv
<1> QED
  BY <1>1, <1>3, <1>4 DEF PortsInv

LEMMA PortsCancel ==
  ASSUME PortsInv, RequestCancel
  PROVE  PortsInv'
<1>1. canceled' = TRUE /\ UNCHANGED <<config, pc, host, alive, found, next>>
  BY DEF RequestCancel, task
<1>2. ASSUME NEW t \in Threads
      PROVE  TaskPortsInv(t)'
  <2>1. TaskPortsInv(t)
    BY DEF PortsInv
  <2>2. PortsOf(host[t])' = PortsOf(host[t]) /\ Tried(t)' = Tried(t)
        /\ FoundNumbers(t)' = FoundNumbers(t) /\ NotAsked(t)' = NotAsked(t)
    BY <1>1 DEF PortsOf, Tried, FoundNumbers, NotAsked
  <2>3. Accepting(host[t], Tried(t))' = Accepting(host[t], Tried(t))
    BY <1>1, <2>2 DEF Accepting
  <2> QED
    BY <1>1, <2>1, <2>2, <2>3 DEF TaskPortsInv, PortLoopInv
<1> QED
  BY <1>1, <1>2 DEF PortsInv

LEMMA PortsNext == PortsInv /\ ProbeTypes /\ [Next]_vars => PortsInv'
<1> SUFFICES ASSUME PortsInv, ProbeTypes, [Next]_vars
             PROVE  PortsInv'
  OBVIOUS
<1>p. pc \in [Threads -> Places]
  BY DEF ProbeTypes
<1>kept. ASSUME UNCHANGED <<config, canceled, pc, host, alive, found, next>>
         PROVE  PortsInv'
  BY <1>kept, PortsOfOthers DEF PortsInv
<1>1. ASSUME NEW t \in Threads, NEW s \in Slots,
             TestProbe(t, s) \/ StoreProbe(t, s) \/ CopyProbe(t, s) \/ CountCopy(t, s)
      PROVE  PortsInv'
  <2>1. PICK from \in {"test", "store", "copy", "count"}, step \in {"store", "copy", "count", "use"} :
          /\ pc[t] = <<s, from>> /\ pc' = [pc EXCEPT ![t] = <<s, step>>]
          /\ UNCHANGED <<config, canceled, host, alive, found, next>>
    BY <1>1 DEF TestProbe, StoreProbe, CopyProbe, CountCopy, Goto, task
  <2>2. <<s, step>> # <<"task", "report">> /\ <<s, step>> # <<"task", "idle">>
    BY DEF Slots
  <2>3. <<s, step>>[1] = "host" => NotAsked(t)
    BY <2>1 DEF NotAsked
  <2> QED
    BY <1>p, <2>1, <2>2, <2>3, PortsQuiet
<1>2. ASSUME NEW t \in Threads, LoopReturns(t)
      PROVE  PortsInv'
  <2>1. /\ pc' = [pc EXCEPT ![t] = <<"port", "test">>]
        /\ UNCHANGED <<config, canceled, host, alive, found, next>>
    BY <1>2 DEF LoopReturns, Goto, task
  <2>2. /\ <<"port", "test">> # <<"task", "report">>
        /\ <<"port", "test">> # <<"task", "idle">> /\ <<"port", "test">>[1] # "host"
    OBVIOUS
  <2> QED
    BY <1>p, <2>1, <2>2, PortsQuiet
<1>3. ASSUME NEW t \in Threads, AnswerArrives(t) \/ StaleAnswer(t)
      PROVE  PortsInv'
  BY <1>3, <1>kept DEF AnswerArrives, StaleAnswer, task
<1>4. CASE Stop \/ UNCHANGED vars
  BY <1>4, <1>kept DEF Stop, vars, task
<1> QED
  BY <1>p, <1>1, <1>2, <1>3, <1>4, PortsBegin, PortsProbeHost, PortsProbePort, PortsEnd,
     PortsReport, PortsCancel DEF Next, Step

LEMMA PortIs ==
  ASSUME NEW n, NEW banner, NEW grabBanners
  PROVE  LET p == PortOf(n, banner, grabBanners) IN p.number = n /\ p.state = "open"
BY DEF PortOf

LEMMA PortsAreOpen ==
  ASSUME NEW h, NEW s \in Seq(PortsOf(h)), NEW i \in DOMAIN s
  PROVE  s[i].state = "open" /\ s[i].number \in PortNumbers
<1>1. PICK n \in PortNumbers : s[i] = PortOf(n, Network[h].banner[n], config.grabBanners)
  BY DEF PortsOf
<1> QED
  BY <1>1, PortIs

LEMMA NumbersAreFinite ==
  ASSUME NEW s \in Seq(PortNumbers)
  PROVE  ToSet(s) \in SUBSET PortNumbers /\ IsFiniteSet(ToSet(s))
<1>1. ToSet(s) \in SUBSET PortNumbers
  BY DEF ToSet
<1>2. /\ Len(s) \in Nat /\ DOMAIN s = 1 .. Len(s)
      /\ s \in Surjection(1 .. Len(s), ToSet(s))
  BY DEF ToSet, Surjection
<1>3. IsFiniteSet(1 .. Len(s))
  BY <1>2, FS_Interval
<1>4. IsFiniteSet(ToSet(s))
  BY <1>2, <1>3, FS_Surjection
<1> QED
  BY <1>1, <1>4

LEMMA TriedAreOfAll ==
  ASSUME NEW t, config.ports \in Seq(PortNumbers), next[t] \in 1 .. Len(config.ports) + 1
  PROVE  /\ Tried(t) \in SUBSET ToSet(config.ports)
         /\ next[t] = Len(config.ports) + 1 => Tried(t) = ToSet(config.ports)
<1>1. /\ DOMAIN config.ports = 1 .. Len(config.ports)
      /\ Len(config.ports) \in Nat
  OBVIOUS
<1>2. 1 .. next[t] - 1 \subseteq DOMAIN config.ports
  BY <1>1
<1>3. next[t] = Len(config.ports) + 1 => 1 .. next[t] - 1 = DOMAIN config.ports
  BY <1>1
<1> QED
  BY <1>2, <1>3 DEF Tried, ToSet

LEMMA EvaluateKeepsPorts ==
  ASSUME NEW x, "ports" \in DOMAIN x, "riskScore" \in DOMAIN x, "riskLevel" \in DOMAIN x
  PROVE  /\ Evaluate(x).ports = x.ports
         /\ Evaluate(x).riskScore = Bounded(Score(x))
         /\ Evaluate(x).riskLevel = LevelForScore(Bounded(Score(x)))
BY DEF Evaluate

LEMMA EnrichedPorts ==
  ASSUME NEW t
  PROVE  \E x : /\ x.ports = found[t]
                /\ EnrichHost(t) = Evaluate(x)
                /\ "riskScore" \in DOMAIN x /\ "riskLevel" \in DOMAIN x /\ "ports" \in DOMAIN x
<1> DEFINE h == host[t]
           plain == [ip |-> h, alive |-> TRUE, status |-> "Online", ttl |-> alive[t].ttl,
                discoveryMethod |-> alive[t].method, adapter |-> config.adapterName,
                mac |-> MacByIp(Os, h), vendor |-> Vendor(MacByIp(Os, h)),
                hostname |-> Hostname(t), ports |-> found[t], osGuess |-> Empty,
                type |-> "Unknown", riskScore |-> 0, riskLevel |-> "Info", risks |-> <<>>]
           withOs == [plain EXCEPT !.osGuess = IF config.detectOs THEN GuessOs(plain) ELSE Empty]
           x == [withOs EXCEPT !.type = Classify(withOs, h \in DefaultGateways(Os))]
<1>1. EnrichHost(t) = Evaluate(x)
  BY DEF EnrichHost
<1>2. plain.ports = found[t] /\ {"riskScore", "riskLevel", "ports"} \subseteq DOMAIN plain
  OBVIOUS
<1> HIDE DEF plain
<1>3. withOs.ports = found[t] /\ {"riskScore", "riskLevel", "ports"} \subseteq DOMAIN withOs
  BY <1>2
<1> HIDE DEF withOs
<1>4. x.ports = found[t] /\ {"riskScore", "riskLevel", "ports"} \subseteq DOMAIN x
  BY <1>3
<1> HIDE DEF x
<1> QED
  BY <1>1, <1>4

LEMMA FoundWithFacts ==
  ASSUME NEW t \in Threads, Report(t), host[t] \in Found' \ Found
  PROVE  alive[t].alive /\ reported'[host[t]] = EnrichHost(t)
<1> DEFINE h == host[t]
           d == IF alive[t].alive THEN EnrichHost(t) ELSE Dead(h)
<1>1. reported' = AlsoReported(h, d)
  BY DEF Report
<1>2. h \in DOMAIN reported' /\ reported'[h] = d
  <2> HIDE DEF d, h
  <2> QED
    BY <1>1 DEF AlsoReported
<1>3. reported'[h].alive
  BY DEF Found
<1>4. alive[t].alive
  BY <1>2, <1>3 DEF Dead
<1> QED
  BY <1>2, <1>4

(* What Report(t) makes of a host that answered. *)
LEMMA ReportedRisk ==
  ASSUME PortsInv, NEW t \in Threads, Report(t), host[t] \in Found' \ Found
  PROVE  LET d == reported'[host[t]] IN
         /\ OpenNumbers(d) \subseteq Listening(host[t])
         /\ OpenNumbers(d) = Listening(host[t]) \/ canceled
         /\ d.riskScore = RiskOf(OpenNumbers(d))
         /\ d.riskScore <= RiskOf(Listening(host[t]))
         /\ \A i \in DOMAIN Levels : Thresholds[i] <= d.riskScore <=> i <= Severity(d.riskLevel)
<1> DEFINE h == host[t]
           d == reported'[h]
           all == ToSet(config.ports)
<1>1. alive[t].alive /\ d = EnrichHost(t)
  BY FoundWithFacts
<1>2. /\ PortLoopInv(t)
      /\ config.ports \in Seq(PortNumbers)
      /\ pc[t] = <<"task", "report">>
  BY <1>1, ConfigPorts DEF PortsInv, TaskPortsInv, Report
<1>3. all \in SUBSET PortNumbers /\ IsFiniteSet(all)
  BY <1>2, NumbersAreFinite
<1>4. Listening(h) = Accepting(h, all)
  BY DEF Listening, Accepting
<1>5. Listening(h) \in SUBSET PortNumbers /\ IsFiniteSet(Listening(h))
  <2>1. Listening(h) \in SUBSET all
    BY <1>4 DEF Accepting
  <2> QED
    BY <1>3, <2>1, FS_Subset
<1>6. Tried(t) \in SUBSET all
  BY <1>2, TriedAreOfAll DEF PortLoopInv
<1>7. canceled \/ Tried(t) = all
  BY <1>2, TriedAreOfAll DEF PortLoopInv
<1>8. PICK x : /\ x.ports = found[t]
               /\ d = Evaluate(x)
               /\ "riskScore" \in DOMAIN x /\ "riskLevel" \in DOMAIN x /\ "ports" \in DOMAIN x
  BY <1>1, EnrichedPorts
<1> HIDE DEF d
<1>9. /\ d.ports = found[t] /\ d.riskScore = Bounded(Score(x))
      /\ d.riskLevel = LevelForScore(Bounded(Score(x)))
  BY <1>8, EvaluateKeepsPorts
<1>10. OpenPorts(x) = found[t] /\ OpenPorts(d) = found[t]
  <2>1. /\ found[t] \in Seq(PortsOf(h))
        /\ \A i \in DOMAIN found[t] : found[t][i].state = "open"
    BY <1>2, PortsAreOpen DEF PortLoopInv
  <2> QED
    BY <1>8, <1>9, <2>1, AllPortsAreOpen
<1>11. OpenNumbers(x) = FoundNumbers(t) /\ OpenNumbers(d) = FoundNumbers(t)
  BY <1>10 DEF OpenNumbers, FoundNumbers, ToSet
<1>12. FoundNumbers(t) = Accepting(h, Tried(t))
  BY <1>2 DEF PortLoopInv
<1>13. OpenNumbers(d) \in SUBSET Listening(h)
  BY <1>4, <1>6, <1>11, <1>12 DEF Accepting
<1>14. OpenNumbers(d) = Listening(h) \/ canceled
  BY <1>4, <1>7, <1>11, <1>12
<1>15. /\ OpenNumbers(x) \in SUBSET PortNumbers /\ IsFiniteSet(OpenNumbers(x))
       /\ Score(x) = Cardinality(Units(OpenNumbers(x)))
                       + (IF Cardinality(OpenNumbers(x)) > 10 THEN 10 ELSE 0)
  <2>1. /\ OpenPorts(x) \in Seq(PortsOf(h))
        /\ \A i \in DOMAIN OpenPorts(x) : OpenPorts(x)[i].number \in PortNumbers
        /\ \A i, j \in DOMAIN OpenPorts(x) :
             OpenPorts(x)[i].number = OpenPorts(x)[j].number => i = j
    BY <1>2, <1>10, PortsAreOpen DEF PortLoopInv
  <2> QED
    BY <2>1, ScoreIsUnits
<1>16. Score(x) \in Nat /\ RiskOf(OpenNumbers(d)) = Bounded(Score(x))
  BY <1>11, <1>15, RiskIsBounded
<1>17. d.riskScore = RiskOf(OpenNumbers(d)) /\ d.riskScore \in Nat
  BY <1>9, <1>16 DEF Bounded
<1>18. d.riskScore <= RiskOf(Listening(h))
  BY <1>5, <1>13, <1>17, RiskIsMonotone
<1>19. \A i \in DOMAIN Levels : Thresholds[i] <= d.riskScore <=> i <= Severity(d.riskLevel)
  BY <1>9, <1>17, LevelIsHighest
<1> QED
  BY <1>13, <1>14, <1>17, <1>18, <1>19 DEF d

(* Only a report makes a host found, and only the host it reports.          *)
LEMMA OnlyReportsFind ==
  ASSUME [Next]_vars, NEW h \in Found' \ Found
  PROVE  \E t \in Threads : Report(t) /\ h = host[t]
<1>1. reported' # reported
  BY DEF Found
<1>2. ASSUME NEW t \in Threads, BeginTask(t)
      PROVE  FALSE
  <2>1. \E x : reported' = AlsoReported(x, Dead(x))
    BY <1>1, <1>2 DEF BeginTask
  <2> QED
    BY <2>1 DEF AlsoReported, Dead, Found
<1>3. ASSUME NEW t \in Threads, Report(t)
      PROVE  h = host[t]
  <2>1. \E d : reported' = AlsoReported(host[t], d)
    BY <1>3 DEF Report
  <2> QED
    BY <2>1 DEF AlsoReported, Found
<1>4. ASSUME NEW t \in Threads, Step(t)
      PROVE  Report(t)
  BY <1>1, <1>2, <1>4 DEF Step, TestProbe, StoreProbe, CopyProbe, CountCopy, ProbeHost,
     AnswerArrives, StaleAnswer, LoopReturns, ProbePort, EndPortLoop
<1>5. ~RequestCancel /\ ~Stop /\ ~UNCHANGED vars
  BY <1>1 DEF RequestCancel, Stop, vars
<1> QED
  BY <1>3, <1>4, <1>5 DEF Next

(* A host is reported with all of its open ports and the risk these make,   *)
(* and with the highest level whose threshold the score reaches; only a     *)
(* canceled scan leaves ports out, and then the risk is never overstated.   *)
(* (enrichHost(), RiskEngine::evaluate())                                   *)
THEOREM RiskIsExact == Spec => RiskIsOfOpenPorts
<1>1. PortsInv /\ [Next]_vars =>
        [\A h \in Found' \ Found :
           LET d == reported'[h] IN
           /\ OpenNumbers(d) \subseteq Listening(h)
           /\ OpenNumbers(d) = Listening(h) \/ canceled
           /\ d.riskScore = RiskOf(OpenNumbers(d))
           /\ d.riskScore <= RiskOf(Listening(h))
           /\ \A i \in DOMAIN Levels :
                Thresholds[i] <= d.riskScore <=> i <= Severity(d.riskLevel)]_vars
  <2> SUFFICES ASSUME PortsInv, [Next]_vars, NEW h \in Found' \ Found
               PROVE  LET d == reported'[h] IN
                      /\ OpenNumbers(d) \subseteq Listening(h)
                      /\ OpenNumbers(d) = Listening(h) \/ canceled
                      /\ d.riskScore = RiskOf(OpenNumbers(d))
                      /\ d.riskScore <= RiskOf(Listening(h))
                      /\ \A i \in DOMAIN Levels :
                           Thresholds[i] <= d.riskScore <=> i <= Severity(d.riskLevel)
    OBVIOUS
  <2>1. PICK t \in Threads : Report(t) /\ h = host[t]
    BY OnlyReportsFind
  <2> QED
    BY <2>1, ReportedRisk
<1>2. Init => ProbesInv /\ PortsInv
  BY ProbesInit, PortsInit
<1>3. (ProbesInv /\ PortsInv) /\ [Next]_vars => (ProbesInv /\ PortsInv)'
  BY ProbesNext, PortsNext DEF ProbesInv
<1> QED
  BY <1>1, <1>2, <1>3, PTL DEF Spec, RiskIsOfOpenPorts

-----------------------------------------------------------------------------
(* The lists of ports.  A set is sorted by counting, for each of its        *)
(* members, those that are not greater.                                     *)

LEMMA PortsAreFinite == IsFiniteSet(PortNumbers) /\ PortNumbers \subseteq Nat
<1>1. MaxPort \in Nat
  BY DEF MaxPort
<1> QED
  BY <1>1, FS_Interval DEF PortNumbers

UpTo(A, n) == {m \in A : m <= n}

LEMMA AscendingSorts ==
  ASSUME NEW A \in SUBSET PortNumbers, IsFiniteSet(A)
  PROVE  LET s == Ascending(A) IN
         /\ s \in Seq(PortNumbers) /\ ToSet(s) = A
         /\ \A i, j \in DOMAIN s : i < j => s[i] < s[j]
<1> DEFINE c == Cardinality(A)
           place == [n \in A |-> Cardinality(UpTo(A, n))]
           s == Ascending(A)
<1>1. c \in Nat /\ \A n \in A : n \in Int
  BY PortsAreFinite, FS_CardinalityType
<1>2. ASSUME NEW n \in A
      PROVE  IsFiniteSet(UpTo(A, n)) /\ place[n] = Cardinality(UpTo(A, n)) /\ place[n] \in 1 .. c
  <2>1. UpTo(A, n) \in SUBSET A /\ n \in UpTo(A, n)
    BY <1>1 DEF UpTo
  <2>2. IsFiniteSet(UpTo(A, n)) /\ Cardinality(UpTo(A, n)) <= c
    BY <2>1, FS_Subset
  <2>3. Cardinality(UpTo(A, n)) \in Nat /\ Cardinality(UpTo(A, n)) # 0
    BY <2>1, <2>2, FS_CardinalityType, FS_EmptySet
  <2> HIDE DEF c
  <2> QED
    BY <1>1, <2>2, <2>3
<1>3. ASSUME NEW m \in A, NEW n \in A, m < n
      PROVE  place[m] < place[n]
  <2>1. UpTo(A, m) \in SUBSET UpTo(A, n) /\ n \in UpTo(A, n) /\ n \notin UpTo(A, m)
    BY <1>1, <1>3 DEF UpTo
  <2>2. /\ Cardinality(UpTo(A, m)) <= Cardinality(UpTo(A, n))
        /\ Cardinality(UpTo(A, m)) # Cardinality(UpTo(A, n))
    BY <1>2, <2>1, FS_Subset
  <2> HIDE DEF place
  <2> QED
    BY <1>1, <1>2, <2>2
<1>4. place = [n \in A |-> place[n]]
  OBVIOUS
<1> HIDE DEF c, place, s
<1>5. \A m, n \in A : place[m] = place[n] => m = n
  <2>1. \A m, n \in A : m < n \/ n < m \/ m = n
    BY <1>1
  <2>2. \A n \in A : place[n] \in Int
    BY <1>1, <1>2
  <2> QED
    BY <1>3, <2>1, <2>2
<1>6. place \in Injection(A, 1 .. c)
  BY <1>2, <1>4, <1>5 DEF Injection, IsInjective
<1>7. place \in Surjection(A, 1 .. c)
  <2>1. IsFiniteSet(1 .. c) /\ Cardinality(1 .. c) = c
    BY <1>1, FS_Interval
  <2> QED
    BY <1>6, <2>1, FS_Injection DEF c
<1>8. ASSUME NEW i \in 1 .. c
      PROVE  s[i] \in A /\ place[s[i]] = i
  <2>1. PICK n \in A : place[n] = i
    BY <1>7 DEF Surjection
  <2>2. s[i] = CHOOSE m \in A : Cardinality(UpTo(A, m)) = i
    BY DEF s, c, Ascending, UpTo
  <2>3. Cardinality(UpTo(A, n)) = i
    BY <1>2, <2>1
  <2>4. s[i] \in A /\ Cardinality(UpTo(A, s[i])) = i
    BY <2>2, <2>3
  <2> QED
    BY <1>2, <2>4
<1>9. s \in Seq(A) /\ DOMAIN s = 1 .. c
  <2> DEFINE e(i) == CHOOSE n \in A : Cardinality({m \in A : m <= n}) = i
  <2>a. s = [i \in 1 .. c |-> e(i)]
    BY Zenon DEF s, c, Ascending
  <2> HIDE DEF e
  <2>1. s = [i \in 1 .. c |-> s[i]]
    BY <2>a
  <2> QED
    BY <1>1, <1>8, <2>1
<1>10. \A n \in A : \E i \in 1 .. c : s[i] = n
  <2> SUFFICES ASSUME NEW n \in A
               PROVE  s[place[n]] = n
    BY <1>2
  <2>1. s[place[n]] \in A /\ place[s[place[n]]] = place[n]
    BY <1>2, <1>8
  <2> QED
    BY <1>5, <2>1
<1>11. ToSet(s) = A
  BY <1>8, <1>9, <1>10 DEF ToSet
<1>12. ASSUME NEW i \in 1 .. c, NEW j \in 1 .. c, i < j
       PROVE  s[i] < s[j]
  <2>1. s[i] \in A /\ s[j] \in A /\ place[s[i]] = i /\ place[s[j]] = j
    BY <1>8
  <2>2. s[i] < s[j] \/ s[j] < s[i] \/ s[i] = s[j]
    BY <1>1, <2>1
  <2>3. ~(s[j] < s[i])
    BY <1>1, <1>3, <1>12, <2>1
  <2> QED
    BY <1>12, <2>1, <2>2, <2>3
<1> QED
  BY <1>9, <1>11, <1>12 DEF s

IsPortList(s) == s \in Seq(PortNumbers) /\ IsInjective(s)

LEMMA AscendingIsList ==
  ASSUME NEW A \in SUBSET PortNumbers
  PROVE  IsPortList(Ascending(A)) /\ ToSet(Ascending(A)) = A
<1> DEFINE s == Ascending(A)
<1>1. IsFiniteSet(A)
  BY PortsAreFinite, FS_Subset
<1>2. /\ s \in Seq(PortNumbers) /\ ToSet(s) = A
      /\ \A i, j \in DOMAIN s : i < j => s[i] < s[j]
  BY <1>1, AscendingSorts
<1> HIDE DEF s
<1>3. \A i, j \in DOMAIN s : s[i] = s[j] => i = j
  <2>1. DOMAIN s = 1 .. Len(s) /\ Len(s) \in Nat /\ \A i \in DOMAIN s : s[i] \in PortNumbers
    BY <1>2
  <2>2. \A i \in DOMAIN s : i \in Int
    BY <2>1
  <2>3. \A n \in PortNumbers : n \in Int
    BY PortsAreFinite
  <2>4. \A i \in DOMAIN s : s[i] \in Int
    BY <2>1, <2>3
  <2> QED
    BY <1>2, <2>2, <2>4
<1> QED
  BY <1>2, <1>3 DEF IsPortList, IsInjective, s

LEMMA CountingIsList ==
  ASSUME NEW n \in Nat, n <= MaxPort
  PROVE  1 .. n \subseteq PortNumbers /\ IsPortList([i \in 1 .. n |-> i])
<1>1. 1 .. n \subseteq PortNumbers
  <2>1. MaxPort \in Nat
    BY DEF MaxPort
  <2> QED
    BY <2>1 DEF PortNumbers
<1>2. [i \in 1 .. n |-> i] \in Seq(1 .. n)
  OBVIOUS
<1> QED
  BY <1>1, <1>2 DEF IsPortList, IsInjective

(* What a part of a specification names: the ends of a range in any order.  *)
Names(part, n) ==
  \/ part.kind = "number" /\ n = part.n
  \/ part.kind = "range" /\ (n \in part.a .. part.b \/ n \in part.b .. part.a)
IsPart(part) ==
  /\ part.kind = "number" => part.n \in Int
  /\ part.kind = "range" => part.a \in Int /\ part.b \in Int

LEMMA PartNames ==
  ASSUME NEW part, IsPart(part)
  PROVE  PartPorts(part) = {n \in PortNumbers : Names(part, n)}
<1>m. MaxPort \in Int /\ 1 \in Int
  BY DEF MaxPort
<1>1. CASE part.kind = "number"
  BY <1>1 DEF PartPorts, Names
<1>2. CASE part.kind = "range"
  <2> DEFINE a == part.a
             b == part.b
  <2>1. a \in Int /\ b \in Int
    BY <1>2 DEF IsPart
  <2> HIDE DEF a, b
  <2>2. ASSUME NEW x \in Int, NEW y \in Int
        PROVE  /\ Min({x, y}) = IF x <= y THEN x ELSE y
               /\ Max({x, y}) = IF x <= y THEN y ELSE x
    <3>1. \E z \in {x, y} : \A w \in {x, y} : z <= w
      OBVIOUS
    <3>2. \E z \in {x, y} : \A w \in {x, y} : z >= w
      OBVIOUS
    <3>3. Min({x, y}) \in {x, y} /\ \A w \in {x, y} : Min({x, y}) <= w
      BY <3>1 DEF Min
    <3>4. Max({x, y}) \in {x, y} /\ \A w \in {x, y} : Max({x, y}) >= w
      BY <3>2 DEF Max
    <3> QED
      BY <3>3, <3>4
  <2>3. Min({a, b}) \in Int /\ Max({a, b}) \in Int
    BY <2>1, <2>2
  <2>4. ASSUME NEW n \in Int
        PROVE  n \in PartPorts(part) <=> n \in PortNumbers /\ (n \in a .. b \/ n \in b .. a)
    <3>1. PartPorts(part) = Max({1, Min({a, b})}) .. Min({MaxPort, Max({a, b})})
      BY <1>2 DEF PartPorts, a, b
    <3>2. Max({1, Min({a, b})}) = IF 1 <= Min({a, b}) THEN Min({a, b}) ELSE 1
      BY <1>m, <2>2, <2>3
    <3>3. Min({MaxPort, Max({a, b})}) = IF MaxPort <= Max({a, b}) THEN MaxPort ELSE Max({a, b})
      BY <1>m, <2>2, <2>3
    <3>4. n \in PartPorts(part) <=>
            1 <= n /\ n <= MaxPort /\ Min({a, b}) <= n /\ n <= Max({a, b})
      BY <1>m, <2>3, <3>1, <3>2, <3>3
    <3>5. (Min({a, b}) <= n /\ n <= Max({a, b})) <=> (n \in a .. b \/ n \in b .. a)
      BY <2>1, <2>2
    <3> QED
      BY <1>m, <3>4, <3>5 DEF PortNumbers
  <2>5. PartPorts(part) \subseteq Int
    BY <1>2 DEF PartPorts
  <2> QED
    <3>1. PortNumbers \subseteq Int
      BY PortsAreFinite
    <3>2. \A n \in PortNumbers : Names(part, n) <=> n \in a .. b \/ n \in b .. a
      BY <1>2 DEF Names, a, b
    <3> QED
      BY <2>4, <2>5, <3>1, <3>2
<1>3. CASE part.kind # "number" /\ part.kind # "range"
  BY <1>3 DEF PartPorts, Names
<1> QED
  BY <1>1, <1>2, <1>3

(* Every list of ports that a profile or a specification makes holds ports  *)
(* only, and each once, so that a scan never tries a port twice; and a      *)
(* specification makes exactly the ports its parts name, whatever their     *)
(* order, their overlaps, the ends of their ranges and their size.          *)
(* (portprofiles::forName(), parseSpec())                                   *)
THEOREM PortListsAreExact ==
  ASSUME NEW name, NEW parts, \A part \in ToSet(parts) : IsPart(part)
  PROVE  /\ IsPortList(ForName(name))
         /\ IsPortList(ParseSpec(parts))
         /\ ToSet(ParseSpec(parts)) =
              {n \in PortNumbers : \E part \in ToSet(parts) : Names(part, n)}
<1>1. IsPortList(ForName(name))
  <2>1. IsPortList(Top100) /\ Curated \subseteq PortNumbers
    BY ListsAssumption DEF IsPortList
  <2>2. 1 .. LastWellKnown \subseteq PortNumbers /\ IsPortList([i \in 1 .. LastWellKnown |-> i])
    <3>1. LastWellKnown \in Nat /\ LastWellKnown <= MaxPort
      BY DEF LastWellKnown, MaxPort
    <3> QED
      BY <3>1, CountingIsList
  <2>3. IsPortList([i \in PortNumbers |-> i])
    <3>1. MaxPort \in Nat /\ MaxPort <= MaxPort
      BY DEF MaxPort
    <3> QED
      BY <3>1, CountingIsList DEF PortNumbers
  <2>4. IsPortList(<<>>)
    BY DEF IsPortList, IsInjective
  <2>5. IsPortList(Ascending(1 .. LastWellKnown \cup Curated))
    <3>1. 1 .. LastWellKnown \cup Curated \subseteq PortNumbers
      BY <2>1, <2>2
    <3>2. \A A \in SUBSET PortNumbers : IsPortList(Ascending(A))
      BY AscendingIsList
    <3> QED
      BY <3>1, <3>2
  <2> QED
    BY <2>1, <2>2, <2>3, <2>4, <2>5 DEF ForName
<1>2. IsPortList(ParseSpec(parts)) /\ ToSet(ParseSpec(parts)) =
        {n \in PortNumbers : \E part \in ToSet(parts) : Names(part, n)}
  <2> DEFINE A == UNION {PartPorts(part) : part \in ToSet(parts)}
  <2>1. \A part \in ToSet(parts) : PartPorts(part) = {n \in PortNumbers : Names(part, n)}
    BY PartNames
  <2>2. A = {n \in PortNumbers : \E part \in ToSet(parts) : Names(part, n)}
    BY <2>1
  <2>3. A \in SUBSET PortNumbers
    BY <2>2
  <2>4. ParseSpec(parts) = Ascending(A)
    BY DEF ParseSpec
  <2> HIDE DEF A
  <2> QED
    BY <2>2, <2>3, <2>4, AscendingIsList
<1> QED
  BY <1>1, <1>2

(* The command line's scans try each port once: ConfigsAssumption holds of  *)
(* them.  (src/src/cli/main.cpp)                                            *)
COROLLARY CommandLineListsPortsOnce ==
  ASSUME NEW a, \A part \in ToSet(a.ports) : IsPart(part)
  PROVE  IsPortList(ConfigOf(a).ports)
<1>1. \/ ConfigOf(a).ports = ForName(a.profile)
      \/ ConfigOf(a).ports = ParseSpec(a.ports)
  BY DEF ConfigOf
<1> QED
  BY <1>1, PortListsAreExact

-----------------------------------------------------------------------------
(* A device written as JSON and read again *)

DeviceTypes == OwnName \cup DOMAIN TypeNames \cup {"Unknown"}
IsPort(p) ==
  /\ p = [number |-> p.number, protocol |-> p.protocol, state |-> p.state,
          service |-> p.service, banner |-> p.banner]
  /\ p.number \in PortNumbers /\ p.state \in {"open", "filtered", "closed"}

(* The values of the enumerations of a device and its ports. *)
IsScanned(d) ==
  /\ d.type \in DeviceTypes
  /\ d.status \in {"Online", "Offline", "New", "Lost", "Unknown"}
  /\ d.riskLevel \in ToSet(Levels)
  /\ d.ports = [i \in DOMAIN d.ports |-> d.ports[i]]
  /\ \A i \in DOMAIN d.ports : IsPort(d.ports[i])
IsDevice(d) == d = [k \in DOMAIN Blank |-> d[k]] /\ IsScanned(d)

(* Every enumerator has a name of its own. *)
LEMMA TypeIsRead ==
  ASSUME NEW type \in DeviceTypes
  PROVE  TypeFromName(TypeName(type)) = type
<1>1. /\ DOMAIN TypeNames = {"AccessPoint", "Nas", "MediaPlayer", "IoT", "VirtualMachine"}
      /\ TypeNames["AccessPoint"] = "Access Point" /\ TypeNames["Nas"] = "NAS"
      /\ TypeNames["MediaPlayer"] = "Media Player" /\ TypeNames["IoT"] = "IoT Device"
      /\ TypeNames["VirtualMachine"] = "Virtual Machine"
  BY DEF TypeNames
<1>2. CASE type \in DOMAIN TypeNames
  <2>1. TypeName(type) = TypeNames[type] /\ TypeNames[type] \notin OwnName
    BY <1>1, <1>2 DEF TypeName, OwnName
  <2>2. \A other \in DOMAIN TypeNames : TypeNames[other] = TypeNames[type] => other = type
    BY <1>1, <1>2
  <2>3. (CHOOSE other \in DOMAIN TypeNames : TypeNames[other] = TypeNames[type]) = type
    BY <1>2, <2>2
  <2> QED
    BY <1>2, <2>1, <2>3 DEF TypeFromName
<1>3. CASE type \in OwnName
  <2>1. type \notin DOMAIN TypeNames
    BY <1>1, <1>3 DEF OwnName
  <2> QED
    BY <1>3, <2>1 DEF TypeName, TypeFromName
<1>4. CASE type = "Unknown"
  <2>1. /\ "Unknown" \notin DOMAIN TypeNames /\ "Unknown" \notin OwnName
        /\ \A other \in DOMAIN TypeNames : TypeNames[other] # "Unknown"
    BY <1>1 DEF OwnName
  <2> QED
    BY <1>4, <2>1 DEF TypeName, TypeFromName
<1> QED
  BY <1>2, <1>3, <1>4 DEF DeviceTypes

(* The cast to 16 bits loses nothing of a port. *)
LEMMA PortIsRead ==
  ASSUME NEW p, IsPort(p)
  PROVE  [number |-> p.number % 65536, protocol |-> p.protocol,
          state |-> PortStateFromName(p.state), service |-> p.service,
          banner |-> p.banner] = p
<1>1. p.number % 65536 = p.number
  <2>1. MaxPort \in Int
    BY DEF MaxPort
  <2>2. p.number \in Int /\ 1 <= p.number /\ p.number <= MaxPort
    BY <2>1 DEF IsPort, PortNumbers
  <2> QED
    BY <2>2 DEF MaxPort
<1>2. PortStateFromName(p.state) = p.state
  BY DEF IsPort, PortStateFromName, OneOf
<1> QED
  BY <1>1, <1>2 DEF IsPort

LEMMA DeviceIsRead ==
  ASSUME NEW d, IsDevice(d)
  PROVE  FromJsonObject(ToJsonObject(d)) = [d EXCEPT !.risks = <<>>]
<1> DEFINE o == ToJsonObject(d)
           read == FromJsonObject(o)
           all == {"ip", "mac", "hostname", "vendor", "osGuess", "ports", "type", "riskScore",
                   "riskLevel", "risks", "status", "labels", "favorite", "ttl", "adapter",
                   "discoveryMethod"}
           was == [d EXCEPT !.risks = <<>>]
           ports == [i \in DOMAIN o.ports |->
                       [number |-> o.ports[i].port % 65536, protocol |-> o.ports[i].protocol,
                        state |-> PortStateFromName(o.ports[i].state),
                        service |-> o.ports[i].service, banner |-> o.ports[i].banner]]
<1>1. DOMAIN Blank = all
  BY DEF Blank
<1>2. /\ o.ip = d.ip /\ o.mac = d.mac /\ o.hostname = d.hostname /\ o.vendor = d.vendor
      /\ o.os = d.osGuess /\ o.type = TypeName(d.type) /\ o.status = d.status
      /\ o.riskScore = d.riskScore /\ o.riskLevel = d.riskLevel
      /\ o.favorite = d.favorite /\ o.ttl = d.ttl /\ o.adapter = d.adapter
      /\ o.discoveryMethod = d.discoveryMethod /\ o.labels = d.labels
  BY DEF ToJsonObject
<1>3. /\ DOMAIN o.ports = DOMAIN d.ports
      /\ \A i \in DOMAIN d.ports :
           /\ o.ports[i].port = d.ports[i].number
           /\ o.ports[i].protocol = d.ports[i].protocol
           /\ o.ports[i].state = d.ports[i].state
           /\ o.ports[i].service = d.ports[i].service
           /\ o.ports[i].banner = d.ports[i].banner
  BY DEF ToJsonObject
<1> HIDE DEF o
<1>4. ports = d.ports
  <2>1. \A i \in DOMAIN d.ports : ports[i] = d.ports[i]
    BY <1>3, PortIsRead DEF IsDevice, IsScanned
  <2>2. DOMAIN ports = DOMAIN d.ports
    BY <1>3
  <2>3. ports = [i \in DOMAIN d.ports |-> ports[i]]
    BY <1>3
  <2> HIDE DEF ports
  <2> QED
    BY <2>1, <2>2, <2>3 DEF IsDevice, IsScanned
<1>5. /\ TypeFromName(o.type) = d.type /\ StatusFromName(o.status) = d.status
      /\ RiskFromName(o.riskLevel) = d.riskLevel
  <2>1. TypeFromName(o.type) = d.type
    BY <1>2, TypeIsRead DEF IsDevice, IsScanned
  <2>2. StatusFromName(d.status) = d.status
    BY DEF IsDevice, IsScanned, StatusFromName, OneOf
  <2>3. RiskFromName(d.riskLevel) = d.riskLevel
    BY DEF IsDevice, IsScanned, RiskFromName, OneOf
  <2> QED
    BY <1>2, <2>1, <2>2, <2>3
<1>6. read =
        [ip |-> o.ip, mac |-> o.mac, hostname |-> o.hostname, vendor |-> o.vendor,
         osGuess |-> o.os, type |-> TypeFromName(o.type), status |-> StatusFromName(o.status),
         riskScore |-> o.riskScore, riskLevel |-> RiskFromName(o.riskLevel),
         favorite |-> o.favorite, ttl |-> o.ttl, adapter |-> o.adapter,
         discoveryMethod |-> o.discoveryMethod, labels |-> o.labels, risks |-> <<>>,
         ports |-> ports]
  BY DEF FromJsonObject
<1> HIDE DEF ports
<1>7. /\ read.ip = d.ip /\ read.mac = d.mac /\ read.hostname = d.hostname
      /\ read.vendor = d.vendor /\ read.osGuess = d.osGuess /\ read.ports = d.ports
      /\ read.type = d.type /\ read.riskScore = d.riskScore /\ read.riskLevel = d.riskLevel
      /\ read.risks = <<>> /\ read.status = d.status /\ read.labels = d.labels
      /\ read.favorite = d.favorite /\ read.ttl = d.ttl /\ read.adapter = d.adapter
      /\ read.discoveryMethod = d.discoveryMethod
      /\ read = [k \in all |-> read[k]]
  BY <1>2, <1>4, <1>5, <1>6
<1>8. d = [k \in all |-> d[k]]
  BY <1>1 DEF IsDevice
<1>9. /\ was = [k \in all |-> was[k]] /\ was.risks = <<>>
      /\ \A k \in all \ {"risks"} : was[k] = d[k]
  BY <1>8
<1> HIDE DEF read, was
<1>10. \A k \in all \ {"risks"} : read[k] = d[k]
  BY <1>7
<1>11. \A k \in all : read[k] = was[k]
  <2>1. \A k \in all : k = "risks" \/ k \in all \ {"risks"}
    OBVIOUS
  <2>2. read["risks"] = was["risks"]
    BY <1>7, <1>9
  <2> HIDE DEF all
  <2> QED
    BY <1>9, <1>10, <2>1, <2>2
<1>12. read = was
  BY <1>7, <1>9, <1>11
<1> QED
  BY <1>12 DEF read, was, o

(* What Classify() says is a type, for one of its tests holds. *)
LEMMA ClassifyIsType ==
  ASSUME NEW d, NEW isGateway
  PROVE  Classify(d, isGateway) \in DeviceTypes
<1> DEFINE rules == TypeRules(d, isGateway)
           holding == {i \in DOMAIN rules : rules[i][1]}
<1>1. /\ DOMAIN rules = 1 .. 16
      /\ rules[16][1] = TRUE
  BY DEF TypeRules
<1>2. \A i \in 1 .. 16 : rules[i][2] \in DeviceTypes
  <2>1. /\ rules[1][2] = "Gateway" /\ rules[2][2] = "VirtualMachine" /\ rules[3][2] = "IoT"
        /\ rules[4][2] = "Printer" /\ rules[5][2] = "Router"
        /\ rules[6][2] \in {"Phone", "Computer"} /\ rules[7][2] = "Phone"
        /\ rules[8][2] = "MediaPlayer"
    BY DEF TypeRules
  <2>2. /\ rules[9][2] = "Printer" /\ rules[10][2] = "Camera" /\ rules[11][2] = "Nas"
        /\ rules[12][2] = "MediaPlayer" /\ rules[13][2] = "Computer" /\ rules[14][2] = "Server"
        /\ rules[15][2] = "Computer" /\ rules[16][2] = "Unknown"
    BY DEF TypeRules
  <2>3. {"Gateway", "VirtualMachine", "IoT", "Printer", "Router", "Phone", "Computer",
         "MediaPlayer", "Camera", "Nas", "Server", "Unknown"} \subseteq DeviceTypes
    BY DEF DeviceTypes, OwnName, TypeNames
  <2>4. \A i \in 1 .. 16 : i = 1 \/ i = 2 \/ i = 3 \/ i = 4 \/ i = 5 \/ i = 6 \/ i = 7 \/ i = 8
          \/ i = 9 \/ i = 10 \/ i = 11 \/ i = 12 \/ i = 13 \/ i = 14 \/ i = 15 \/ i = 16
    OBVIOUS
  <2> HIDE DEF rules
  <2> QED
    BY <2>1, <2>2, <2>3, <2>4
<1> HIDE DEF rules
<1>3. holding \in SUBSET (1 .. 16) /\ 16 \in holding
  BY <1>1
<1>4. Classify(d, isGateway) = rules[Min(holding)][2]
  BY DEF Classify, rules
<1> HIDE DEF holding
<1>5. \E n \in holding : \A m \in holding : ~(m < n)
  BY <1>3, LeastNumber
<1>6. \E n \in holding : \A m \in holding : n <= m
  BY <1>3, <1>5
<1>7. Min(holding) \in 1 .. 16
  BY <1>3, <1>6 DEF Min
<1> QED
  BY <1>2, <1>4, <1>7

LEMMA LevelIsNamed ==
  ASSUME NEW score
  PROVE  LevelForScore(score) \in ToSet(Levels)
<1>1. /\ DOMAIN Levels = 1 .. 5 /\ Levels[1] = "Info" /\ Levels[2] = "Low"
      /\ Levels[3] = "Medium" /\ Levels[4] = "High" /\ Levels[5] = "Critical"
  BY DEF Levels
<1>2. \E i \in 1 .. 5 : LevelForScore(score) = Levels[i]
  <2>1. 1 \in 1 .. 5 /\ 2 \in 1 .. 5 /\ 3 \in 1 .. 5 /\ 4 \in 1 .. 5 /\ 5 \in 1 .. 5
    OBVIOUS
  <2>2. LevelForScore(score) \in {"Info", "Low", "Medium", "High", "Critical"}
    BY DEF LevelForScore
  <2> QED
    BY <1>1, <2>1, <2>2
<1> QED
  BY <1>1, <1>2 DEF ToSet

LEMMA EnrichedIsScanned ==
  ASSUME NEW t, found[t] \in Seq(PortsOf(host[t]))
  PROVE  IsScanned(EnrichHost(t))
<1> DEFINE h == host[t]
           plain == [ip |-> h, alive |-> TRUE, status |-> "Online", ttl |-> alive[t].ttl,
                discoveryMethod |-> alive[t].method, adapter |-> config.adapterName,
                mac |-> MacByIp(Os, h), vendor |-> Vendor(MacByIp(Os, h)),
                hostname |-> Hostname(t), ports |-> found[t], osGuess |-> Empty,
                type |-> "Unknown", riskScore |-> 0, riskLevel |-> "Info", risks |-> <<>>]
           withOs == [plain EXCEPT !.osGuess = IF config.detectOs THEN GuessOs(plain) ELSE Empty]
           x == [withOs EXCEPT !.type = Classify(withOs, h \in DefaultGateways(Os))]
           d == EnrichHost(t)
<1>1. d = Evaluate(x)
  BY DEF EnrichHost
<1>2. /\ plain.ports = found[t] /\ plain.status = "Online"
      /\ {"type", "status", "riskLevel", "ports"} \subseteq DOMAIN plain
  OBVIOUS
<1> HIDE DEF plain
<1>3. /\ withOs.ports = found[t] /\ withOs.status = "Online"
      /\ {"type", "status", "riskLevel", "ports"} \subseteq DOMAIN withOs
  BY <1>2
<1> HIDE DEF withOs
<1>4. /\ x.ports = found[t] /\ x.status = "Online" /\ x.type \in DeviceTypes
      /\ {"type", "status", "riskLevel", "ports"} \subseteq DOMAIN x
  BY <1>3, ClassifyIsType
<1> HIDE DEF x, d
<1>5. /\ d.ports = found[t] /\ d.status = "Online" /\ d.type \in DeviceTypes
      /\ d.riskLevel = LevelForScore(Bounded(Score(x)))
  BY <1>1, <1>4 DEF Evaluate
<1>6. ASSUME NEW i \in DOMAIN found[t]
      PROVE  IsPort(found[t][i])
  <2>1. PICK n \in PortNumbers :
          found[t][i] = PortOf(n, Network[h].banner[n], config.grabBanners)
    BY DEF PortsOf
  <2>2. PICK banner, service :
          found[t][i] = [number |-> n, protocol |-> "tcp", state |-> "open", banner |-> banner,
                         service |-> service]
    BY <2>1 DEF PortOf
  <2> QED
    BY <2>2 DEF IsPort
<1>7. found[t] = [i \in DOMAIN found[t] |-> found[t][i]]
  OBVIOUS
<1> QED
  BY <1>5, <1>6, <1>7, LevelIsNamed DEF IsScanned, d

(* What is reported of a host that answered is such a device.               *)
ReportsInv == \A h \in Found : IsScanned(reported[h])

LEMMA ReportsNext == PortsInv /\ ReportsInv /\ [Next]_vars => ReportsInv'
<1> SUFFICES ASSUME PortsInv, ReportsInv, [Next]_vars, NEW h \in Found'
             PROVE  IsScanned(reported'[h])
  BY DEF ReportsInv
<1>1. CASE reported' = reported
  BY <1>1 DEF ReportsInv, Found
<1>2. ASSUME NEW t \in Threads, BeginTask(t), reported' # reported
      PROVE  IsScanned(reported'[h])
  <2>1. PICK x : reported' = AlsoReported(x, Dead(x))
    BY <1>2 DEF BeginTask
  <2>2. h \in Found /\ reported'[h] = reported[h]
    BY <2>1 DEF AlsoReported, Dead, Found
  <2> QED
    BY <2>2 DEF ReportsInv
<1>3. ASSUME NEW t \in Threads, Report(t)
      PROVE  IsScanned(reported'[h])
  <2> DEFINE d == IF alive[t].alive THEN EnrichHost(t) ELSE Dead(host[t])
  <2>1. reported' = AlsoReported(host[t], d)
    BY <1>3 DEF Report
  <2>2. CASE h = host[t]
    <3>1. reported'[h] = d
      <4> HIDE DEF d
      <4> QED
        BY <2>1, <2>2 DEF AlsoReported, Found
    <3>2. d.alive
      BY <3>1 DEF Found
    <3>3. alive[t].alive
      BY <3>2 DEF Dead
    <3>4. IsScanned(EnrichHost(t))
      BY <3>3, EnrichedIsScanned DEF PortsInv, TaskPortsInv, PortLoopInv
    <3> QED
      BY <3>1, <3>3, <3>4
  <2> HIDE DEF d
  <2>3. CASE h # host[t]
    <3>1. h \in Found /\ reported'[h] = reported[h]
      BY <2>1, <2>3 DEF AlsoReported, Found
    <3> QED
      BY <3>1 DEF ReportsInv
  <2> QED
    BY <2>2, <2>3
<1>4. ASSUME NEW t \in Threads, Step(t)
      PROVE  IsScanned(reported'[h])
  BY <1>1, <1>2, <1>3, <1>4 DEF Step, TestProbe, StoreProbe, CopyProbe, CountCopy, ProbeHost,
     AnswerArrives, StaleAnswer, LoopReturns, ProbePort, EndPortLoop
<1>5. CASE RequestCancel \/ Stop \/ UNCHANGED vars
  BY <1>1, <1>5 DEF RequestCancel, Stop, vars
<1> QED
  BY <1>4, <1>5 DEF Next

AddFound(all, h) == IF h \in Found THEN Append(all, DeviceOf(h)) ELSE all
IsListing(g) ==
  g = [u \in SUBSET DOMAIN Hosts |->
         IF u = {} THEN <<>> ELSE LET x == Max(u) IN AddFound(g[u \ {x}], Hosts[x])]
FoundDevices == {DeviceOf(h) : h \in Found \cap Address}

(* The list of a report is made of the hosts that answered. *)
LEMMA ListedAreFound == Listed \in Seq(FoundDevices)
<1> DEFINE n == Len(Hosts)
           V == Seq(FoundDevices)
           step == [p \in (1 .. n) \X V |-> AddFound(p[2], Hosts[p[1]])]
           g == CHOOSE h : IsListing(h)
           K == {k \in Nat : k <= n => g[1 .. k] \in V}
<1>1. n \in Nat /\ DOMAIN Hosts = 1 .. n /\ <<>> \in V /\ \A i \in 1 .. n : Hosts[i] \in Address
  BY HostsAssumption
<1>2. Listed = g[DOMAIN Hosts]
  BY DEF Listed, FoldLeft, MapThenFoldSet, IsListing, AddFound
<1>3. ASSUME NEW x \in Address, NEW all \in V
      PROVE  AddFound(all, x) \in V
  <2>1. CASE x \in Found
    <3>1. DeviceOf(x) \in FoundDevices
      BY <2>1 DEF FoundDevices
    <3> QED
      BY <2>1, <3>1 DEF AddFound
  <2>2. CASE x \notin Found
    BY <2>2 DEF AddFound
  <2> QED
    BY <2>1, <2>2
<1> HIDE DEF n, V
<1>4. IsListing(g)
  <2>1. step \in [(1 .. n) \X V -> V]
    BY <1>1, <1>3
  <2>2. \A i \in 1 .. n, all \in V : step[<<i, all>>] = AddFound(all, Hosts[i])
    OBVIOUS
  <2> HIDE DEF step
  <2>3. PICK f \in [SUBSET (1 .. n) -> V] : IsFold(n, <<>>, step, f)
    BY <1>1, <2>1, FoldExists
  <2>4. ASSUME NEW u \in SUBSET (1 .. n)
        PROVE  f[u] = IF u = {} THEN <<>> ELSE LET x == Max(u) IN AddFound(f[u \ {x}], Hosts[x])
    <3>1. CASE u = {}
      BY <2>3, <3>1 DEF IsFold
    <3>2. CASE u # {}
      <4>1. Max(u) \in 1 .. n /\ u \ {Max(u)} \in SUBSET (1 .. n)
        BY <1>1, <3>2, MaxIs
      <4>2. f[u] = step[<<Max(u), f[u \ {Max(u)}]>>] /\ f[u \ {Max(u)}] \in V
        BY <2>3, <3>2, <4>1 DEF IsFold
      <4> QED
        BY <2>2, <3>2, <4>1, <4>2
    <3> QED
      BY <3>1, <3>2
  <2>5. f = [u \in SUBSET (1 .. n) |->
               IF u = {} THEN <<>> ELSE LET x == Max(u) IN AddFound(f[u \ {x}], Hosts[x])]
    BY <2>3, <2>4
  <2>6. IsListing(f)
    BY <1>1, <2>5 DEF IsListing
  <2> QED
    BY <2>6
<1> HIDE DEF g
<1>5. K = Nat
  <2>1. K \in SUBSET Nat
    OBVIOUS
  <2>2. 0 \in K
    <3>1. 1 .. 0 = {}
      OBVIOUS
    <3>2. g[1 .. 0] = <<>>
      BY <1>4, <3>1 DEF IsListing
    <3> QED
      BY <1>1, <3>2
  <2>3. ASSUME NEW k \in K
        PROVE  k + 1 \in K
    <3>1. k \in Nat /\ (k <= n => g[1 .. k] \in V)
      OBVIOUS
    <3> HIDE DEF K
    <3>2. ASSUME k + 1 <= n
          PROVE  g[1 .. k + 1] \in V
      <4> DEFINE u == 1 .. k + 1
      <4>1. u \in SUBSET (1 .. n) /\ u # {} /\ Max(u) = k + 1 /\ u \ {k + 1} = 1 .. k
        BY <1>1, <3>1, <3>2, LastOfInterval
      <4>2. u \in SUBSET DOMAIN Hosts
        BY <1>1, <4>1
      <4>3. g[1 .. k] \in V
        BY <1>1, <3>1, <3>2
      <4> HIDE DEF u
      <4>4. g[u] = AddFound(g[u \ {Max(u)}], Hosts[Max(u)])
        BY <1>4, <4>1, <4>2 DEF IsListing
      <4>5. g[u] \in V
        BY <1>1, <1>3, <4>1, <4>3, <4>4, <3>2
      <4> QED
        BY <4>5 DEF u
    <3> QED
      BY <3>1, <3>2 DEF K
  <2> HIDE DEF K
  <2> QED
    BY <2>1, <2>2, <2>3, NatSet
<1>6. n \in K
  BY <1>1, <1>5
<1> QED
  BY <1>1, <1>2, <1>6 DEF V

(* A device with another MAC is one all the same.                           *)
LEMMA UpdatedIsScanned ==
  ASSUME NEW h \in Found, IsScanned(reported[h])
  PROVE  IsScanned(Updated(reported[h]))
<1> DEFINE d == reported[h]
           mac == MacByIp(OsAfter, d.ip)
           type == IF IsVirtualMac(mac) THEN "VirtualMachine" ELSE d.type
           e == [d EXCEPT !.mac = mac, !.vendor = Vendor(mac), !.type = type]
<1>1. Updated(d) \in {d, e}
  BY DEF Updated
<1>2. type \in DeviceTypes
  BY DEF IsScanned, DeviceTypes, TypeNames
<1>3. e.type \in {type, d.type} /\ e.status = d.status /\ e.riskLevel = d.riskLevel
      /\ e.ports = d.ports
  <2> HIDE DEF type, mac, d
  <2> QED
    OBVIOUS
<1>4. IsScanned(e)
  <2> HIDE DEF e, type
  <2> QED
    BY <1>2, <1>3 DEF IsScanned
<1> QED
  BY <1>1, <1>4

LEMMA ListedAreDevices ==
  ASSUME ReportsInv, NEW i \in DOMAIN Listed
  PROVE  IsDevice(Listed[i])
<1>1. PICK h \in Found \cap Address : Listed[i] = DeviceOf(h)
  BY ListedAreFound DEF FoundDevices
<1> DEFINE d == DeviceOf(h)
           r == Updated(reported[h])
<1>2. /\ {"type", "status", "riskLevel", "ports"} \subseteq DOMAIN Blank
      /\ {"type", "riskLevel", "ports"} \cap {"labels", "favorite", "status"} = {}
  BY DEF Blank
<1>3. /\ d.type = r.type /\ d.riskLevel = r.riskLevel /\ d.ports = r.ports
      /\ d.status = MarksOf(h).status
  <2> HIDE DEF r
  <2> QED
    BY <1>2 DEF DeviceOf, r
<1>4. d = [k \in DOMAIN Blank |-> d[k]]
  BY DEF DeviceOf
<1> HIDE DEF d, r
<1>5. IsScanned(r)
  BY UpdatedIsScanned DEF ReportsInv, r
<1>6. d.status \in {"Online", "New"}
  BY <1>1, <1>3, MarksAssumption DEF MarksOf
<1>7. IsScanned(d)
  BY <1>3, <1>5, <1>6 DEF IsScanned
<1> QED
  BY <1>1, <1>4, <1>7 DEF IsDevice, d

(* A report in JSON gives back every device of the scan, but its findings.  *)
LEMMA JsonIsRead ==
  ASSUME ReportsInv, NEW written, written = ToJson(Listed, Summary)
  PROVE  ImportJson(written) = [i \in DOMAIN Listed |-> [Listed[i] EXCEPT !.risks = <<>>]]
<1>1. ASSUME NEW i \in DOMAIN Listed
      PROVE  FromJsonObject(written.devices[i]) = [Listed[i] EXCEPT !.risks = <<>>]
  <2>1. written.devices[i] = ToJsonObject(Listed[i])
    BY DEF ToJson
  <2> QED
    BY <2>1, ListedAreDevices, DeviceIsRead
<1>2. written.format = "json" /\ DOMAIN written.devices = DOMAIN Listed
  BY DEF ToJson
<1>3. ImportJson(written) = [i \in DOMAIN written.devices |-> FromJsonObject(written.devices[i])]
  BY <1>2 DEF ImportJson
<1> QED
  BY <1>1, <1>2, <1>3

(* A file is written once, when the scan is over.                           *)
FileInv ==
  file # OldFile => exit # "running" /\ JsonRestores

LEMMA JsonRestoresStays ==
  ASSUME JsonRestores, UNCHANGED <<reported, file, args, updated>>
  PROVE  JsonRestores'
<1>1. Listed' = Listed
  BY DEF Listed, FoldLeft, MapThenFoldSet, Found, DeviceOf, MarksOf, Updated
<1> QED
  BY <1>1 DEF JsonRestores

LEMMA FileNext ==
  ReportsInv /\ FileInv /\ [CliNext]_cvars => FileInv'
<1> SUFFICES ASSUME ReportsInv, FileInv, [CliNext]_cvars, file' # OldFile
             PROVE  exit' # "running" /\ JsonRestores'
  BY DEF FileInv
<1>1. CASE Refuse
  BY <1>1 DEF Refuse, FileInv
<1>2. CASE Scan \/ Cancel \/ EnrichMacsFromArp
  BY <1>2 DEF Scan, Cancel, EnrichMacsFromArp, FileInv, cli
<1>3. CASE Finish
  <2>1. PICK format : file' = ReportIn(format)
    BY <1>3 DEF Finish, WriteAtomic
  <2>2. exit' = "0" /\ UNCHANGED <<reported, args, updated>>
    BY <1>3 DEF Finish, vars
  <2>3. Listed' = Listed
    BY <2>2 DEF Listed, FoldLeft, MapThenFoldSet, Found, DeviceOf, MarksOf, Updated
  <2>4. CASE format = "json"
    <3>1. file' = ToJson(Listed, Summary)
      BY <2>1, <2>4 DEF ReportIn
    <3>2. ImportJson(file') = [i \in DOMAIN Listed |-> [Listed[i] EXCEPT !.risks = <<>>]]
      BY <3>1, JsonIsRead
    <3> QED
      BY <2>2, <2>3, <3>2 DEF JsonRestores
  <2>5. CASE format # "json"
    <3>1. file'.format # "json"
      BY <2>1, <2>5 DEF ReportIn, ToCsv, ToHtml
    <3> QED
      BY <2>2, <3>1 DEF JsonRestores
  <2> QED
    BY <2>4, <2>5
<1>4. CASE Exited \/ UNCHANGED cvars
  <2>1. UNCHANGED <<reported, args, updated, exit, file>>
    BY <1>4 DEF Exited, cvars, vars, cli
  <2> QED
    BY <2>1, JsonRestoresStays DEF FileInv
<1> QED
  BY <1>1, <1>2, <1>3, <1>4 DEF CliNext

-----------------------------------------------------------------------------
(* A scan with its options before it and its report after it, by the command*)
(* line or the window, implements the tasks: what is proved of them holds   *)
(* of it.  (src/src/cli/main.cpp, ScanWorker::run())                        *)
THEOREM CliRunsTasks == CliSpec => Spec
<1>1. CliInit => Init
  BY DEF CliInit
<1>2. [CliNext]_cvars => [Next]_vars
  BY DEF CliNext, Refuse, Scan, Cancel, EnrichMacsFromArp, Finish, Exited, Next, cvars
<1> QED
  BY <1>1, <1>2, PTL DEF CliSpec, Spec

(* The probes are counted, the names explained and the risk that of the open *)
(* ports in such a scan too.                                                *)
COROLLARY TasksOfScan ==
  CliSpec => []ProbesAliveUnlessRaced /\ NamesComeFromGivenUp /\ RiskIsOfOpenPorts
BY CliRunsTasks, UnracedProbesAreCounted, WrongNamesWereGivenUp, RiskIsExact

(* What the scan leaves in a JSON file, of the command line or the window,  *)
(* is, imported again, every device it found, in the order of the table,    *)
(* with everything but its findings, for any labels and favourites the      *)
(* window has given it and whatever MAC the ARP table gave it at the end:   *)
(* the JSON half of FilesRestoreDevices.  (src/src/cli/main.cpp,            *)
(* MainWindow::exportReport(), Device::toJson(), Device::fromJson())        *)
THEOREM JsonFilesRestoreDevices == CliSpec => [](file # OldFile => JsonRestores)
<1> DEFINE Inv == ProbesInv /\ PortsInv /\ ReportsInv /\ FileInv
<1>1. CliInit => Inv
  <2> SUFFICES ASSUME CliInit PROVE Inv
    OBVIOUS
  <2>1. Init /\ file = OldFile
    BY DEF CliInit
  <2>2. Found = {}
    BY <2>1 DEF Init, Found
  <2> QED
    BY <2>1, <2>2, ProbesInit, PortsInit DEF ReportsInv, FileInv
<1>2. Inv /\ [CliNext]_cvars => Inv'
  <2> SUFFICES ASSUME Inv, [CliNext]_cvars PROVE Inv'
    OBVIOUS
  <2>1. [Next]_vars
    BY DEF CliNext, Refuse, Scan, Cancel, EnrichMacsFromArp, Finish, Exited, Next, cvars
  <2>2. ProbesInv' /\ PortsInv' /\ ReportsInv'
    BY <2>1, ProbesNext, PortsNext, ReportsNext DEF ProbesInv
  <2> QED
    BY <2>2, FileNext
<1>3. Inv => (file # OldFile => JsonRestores)
  BY DEF FileInv
<1> QED
  BY <1>1, <1>2, <1>3, PTL DEF CliSpec
=============================================================================
