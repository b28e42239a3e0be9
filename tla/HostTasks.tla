------------------------------ MODULE HostTasks ------------------------------
(***************************************************************************)
(* What the pool's threads do with the hosts of a scan: HostTask::run() and *)
(* ScanWorker::enrichHost() (src/src/core/ScanWorker.cpp), with the probes, *)
(* the factory that makes them and the host name look-up.                  *)
(*                                                                         *)
(* Two things are shared by the threads that nothing guards.  The factory  *)
(* makes a probe when it is first asked and keeps it in a shared_ptr; two  *)
(* threads may do so at once.  And a look-up that was given up is answered *)
(* later, through the event loop of the thread that asked, which runs only *)
(* in its next look-up: the callback then writes through references to a   *)
(* frame that is gone.  Calls of the same depth on the same stack share     *)
(* their addresses, so that what it hits is usually the new call's frame.  *)
(*                                                                         *)
(* ScanWorker models who starts these tasks and what follows their reports; *)
(* here the tasks are waiting, in the order of their addresses.            *)
(***************************************************************************)
EXTENDS HostFacts, PortProfiles, TLC

CONSTANTS
  Threads,    \* of the pool
  Hosts,      \* the addresses of the scan, as a sequence without duplicates
  Configs,    \* the ScanConfigs: methods, ports, hostnameMethods (or {} when
              \* names are not resolved), detectOs, grabBanners, adapterName
  Network,    \* host |-> what is there: see NetworkAssumption
  Os,         \* what the commands and files of the operating system say
  NoProbe     \* a null shared_ptr

Empty == ""     \* an empty QString

Address == ToSet(Hosts)
ASSUME HostsAssumption == Hosts \in Seq(Address)

(* ping: its exit status, TTL and verdict; tcp: port |-> "accepts",        *)
(* "refuses" or (not in the domain) silent; banner: what an accepting port *)
(* says; ptr: the name reverse DNS gives, or the address itself when there *)
(* is none; mdns, netbios: what the platform knows, "" on every platform   *)
(* but the one of the tests.                                               *)
ASSUME NetworkAssumption ==
  \A h \in Address :
    /\ Network[h].ping \in [starts : BOOLEAN, ends : BOOLEAN, exit : {0, 1}, ttl : Int,
                            unreachable : BOOLEAN]
    /\ \A n \in DOMAIN Network[h].tcp : Network[h].tcp[n] \in {"accepts", "refuses"}
    /\ Network[h].ptr # Empty

(* A list of ports names each of them once: see PortProfiles. *)
ASSUME ConfigsAssumption ==
  \A c \in Configs : c.ports \in Seq(PortNumbers) /\ IsInjective(c.ports)

VARIABLES
  config,    \* config_, the same for the whole scan
  canceled,  \* cancel_
  waiting,   \* the tasks the pool has not begun
  pc,        \* thread |-> where it is
  host,      \* thread |-> ip_ of its task
  alive,     \* thread |-> HostProbeResult
  loop,      \* thread |-> [name, answered]: what the callback of reverseDnsBounded()
             \* has written to result, and whether its own answer came
  late,      \* thread |-> the hosts whose look-up it gave up and that are unanswered
  found,     \* thread |-> d.ports
  next,      \* thread |-> the index in config_.ports of the next port
  factory,   \* "host", "port" |-> host_, port_ of DefaultProbeFactory
  refs,      \* probe |-> its use count; 0 when it is destroyed or not made
  held,      \* thread |-> slot |-> its hostProbe, portProbe
  reported,  \* host |-> the Device reported
  gaveUp,    \* history: thread |-> the hosts whose look-up it gave up
  raced      \* history: the slots whose first calls overlapped

lookup == <<loop, late, gaveUp>>
probes == <<factory, refs, held, raced>>
task == <<host, alive, found, next>>
vars == <<config, canceled, waiting, pc, task, lookup, probes, reported>>

Slots == {"host", "port"}
Probes == Slots \X Threads          \* a thread makes at most one of each
ASSUME NoProbeAssumption == NoProbe \notin Probes

NoReply == [alive |-> FALSE, ttl |-> -1, method |-> Empty]
NoLoop == [name |-> Empty, answered |-> FALSE]

Init ==
  /\ config \in Configs
  /\ canceled = FALSE
  /\ waiting = Hosts
  /\ pc = [t \in Threads |-> <<"task", "idle">>]
  /\ host = [t \in Threads |-> Hosts[1]]
  /\ alive = [t \in Threads |-> NoReply]
  /\ loop = [t \in Threads |-> NoLoop]
  /\ late = [t \in Threads |-> {}]
  /\ found = [t \in Threads |-> <<>>]
  /\ next = [t \in Threads |-> 1]
  /\ factory = [s \in Slots |-> NoProbe]
  /\ refs = [o \in Probes |-> 0]
  /\ held = [t \in Threads |-> [s \in Slots |-> NoProbe]]
  /\ reported = <<>>
  /\ gaveUp = [t \in Threads |-> {}]
  /\ raced = {}

Goto(t, place) == pc' = [pc EXCEPT ![t] = place]

-----------------------------------------------------------------------------
(* The beginning of HostTask::run(): a canceled scan reports the host dead. *)

Dead(h) == [ip |-> h, alive |-> FALSE]

(* reportHostFinished() *)
AlsoReported(h, d) ==
  [x \in DOMAIN reported \cup {h} |-> IF x = h THEN d ELSE reported[x]]

BeginTask(t) ==
  /\ pc[t] = <<"task", "idle">>
  /\ waiting # <<>>
  /\ waiting' = Tail(waiting)
  /\ host' = [host EXCEPT ![t] = Head(waiting)]
  /\ IF canceled
     THEN reported' = AlsoReported(Head(waiting), Dead(Head(waiting))) /\ UNCHANGED pc
     ELSE Goto(t, <<"host", "test">>) /\ UNCHANGED reported
  /\ UNCHANGED <<config, canceled, alive, found, next, lookup, probes>>

-----------------------------------------------------------------------------
(* DefaultProbeFactory::hostProbe(), portProbe(): `if (!p_) p_ = make_shared', *)
(* `return p_'.  The copy reads the pointer, then adds to the use count.   *)

(* fault: the copy is not counted. *)
AddRefForgotten(o) == refs
AddRef(o) == [refs EXCEPT ![o] = @ + 1]
DropRef(o) == [refs EXCEPT ![o] = IF @ > 0 THEN @ - 1 ELSE 0]

TestProbe(t, s) ==
  /\ pc[t] = <<s, "test">>
  /\ Goto(t, <<s, IF factory[s] = NoProbe THEN "store" ELSE "copy">>)
  /\ UNCHANGED <<config, canceled, waiting, task, lookup, probes, reported>>

(* The assignment releases what was there: nothing, unless another thread   *)
(* has stored its own since the test.                                       *)
StoreProbe(t, s) ==
  /\ pc[t] = <<s, "store">>
  /\ factory' = [factory EXCEPT ![s] = <<s, t>>]
  /\ IF factory[s] = NoProbe
     THEN refs' = AddRef(<<s, t>>) /\ UNCHANGED raced
     ELSE /\ refs' = [DropRef(factory[s]) EXCEPT ![<<s, t>>] = 1]
          /\ raced' = raced \cup {s}
  /\ Goto(t, <<s, "copy">>)
  /\ UNCHANGED <<config, canceled, waiting, task, lookup, held, reported>>

CopyProbe(t, s) ==
  /\ pc[t] = <<s, "copy">>
  /\ held' = [held EXCEPT ![t][s] = factory[s]]
  /\ Goto(t, <<s, "count">>)
  /\ UNCHANGED <<config, canceled, waiting, task, lookup, factory, refs, raced, reported>>

CountCopy(t, s) ==
  /\ pc[t] = <<s, "count">>
  /\ refs' = AddRef(held[t][s])
  /\ Goto(t, <<s, "use">>)
  /\ UNCHANGED <<config, canceled, waiting, task, lookup, factory, held, raced, reported>>

-----------------------------------------------------------------------------
(* DefaultHostProbe::probe(): ping, then TCP, as the methods say.  With     *)
(* neither, no host is alive, whatever the ARP table knows.                 *)

PingReply(p) ==
  [alive |-> p.starts /\ p.ends /\ (p.exit = 0 \/ p.ttl >= 0) /\ ~p.unreachable,
   ttl |-> p.ttl, method |-> "icmp"]

ProbedPorts == {80, 443, 22, 445, 139, 53}
TcpReply(tcp) ==      \* a refusal proves the host exists
  [alive |-> ProbedPorts \cap DOMAIN tcp # {}, ttl |-> -1, method |-> "tcp"]

ReplyOf(h, methods) ==
  IF "Icmp" \in methods /\ PingReply(Network[h].ping).alive THEN PingReply(Network[h].ping)
  ELSE IF "TcpConnect" \in methods /\ TcpReply(Network[h].tcp).alive
       THEN TcpReply(Network[h].tcp)
  ELSE NoReply

ProbeHost(t) ==
  LET r == ReplyOf(host[t], config.methods) IN
  /\ pc[t] = <<"host", "use">>
  /\ alive' = [alive EXCEPT ![t] = r]
  /\ loop' = [loop EXCEPT ![t] = NoLoop]
  /\ found' = [found EXCEPT ![t] = <<>>]
  /\ next' = [next EXCEPT ![t] = 1]
  /\ Goto(t, IF ~r.alive THEN <<"task", "report">>
             ELSE IF "Dns" \in config.hostnameMethods THEN <<"name", "wait">>
             ELSE <<"port", "test">>)
  /\ UNCHANGED <<config, canceled, waiting, host, late, gaveUp, probes, reported>>

-----------------------------------------------------------------------------
(* HostnameResolver: reverseDnsBounded(), then mDNS and NetBIOS. *)

(* fault: the address itself passes for a name. *)
WriteAnything(t, answer) == answer
(* What the callback writes to the frame it hits: the address this frame    *)
(* asks for is no name.                                                     *)
Write(t, answer) == IF answer = host[t] THEN loop[t].name ELSE answer

AnswerArrives(t) ==
  /\ pc[t] = <<"name", "wait">>
  /\ ~loop[t].answered
  /\ loop' = [loop EXCEPT ![t] = [name |-> Write(t, Network[host[t]].ptr), answered |-> TRUE]]
  /\ UNCHANGED <<config, canceled, waiting, pc, task, late, gaveUp, probes, reported>>

StaleWrites(t, answer) == {loop[t].name, Write(t, answer)}

(* The answer to an earlier look-up of this thread, which runs its callback *)
(* with the references it captured: lost in dead memory, or in this frame.  *)
StaleAnswer(t) ==
  /\ pc[t] = <<"name", "wait">>
  /\ \E g \in late[t] :
       /\ late' = [late EXCEPT ![t] = @ \ {g}]
       /\ \E name \in StaleWrites(t, Network[g].ptr) :
            loop' = [loop EXCEPT ![t].name = name]
  /\ UNCHANGED <<config, canceled, waiting, pc, task, gaveUp, probes, reported>>

(* exec() returns: a callback, its own or a stale one, has called quit(),   *)
(* or the timer has.                                                        *)
LoopReturns(t) ==
  LET unanswered == IF loop[t].answered THEN {} ELSE {host[t]} IN
  /\ pc[t] = <<"name", "wait">>
  /\ late' = [late EXCEPT ![t] = @ \cup unanswered]
  /\ gaveUp' = [gaveUp EXCEPT ![t] = @ \cup unanswered]
  /\ Goto(t, <<"port", "test">>)
  /\ UNCHANGED <<config, canceled, waiting, task, loop, probes, reported>>

FirstName(names) ==
  LET given == {i \in DOMAIN names : names[i] # Empty}
  IN  IF given = {} THEN Empty ELSE names[Min(given)]

Hostname(t) ==
  LET via(method, name) == IF method \in config.hostnameMethods THEN name ELSE Empty
  IN  FirstName(<<loop[t].name, via("Mdns", Network[host[t]].mdns),
                  via("NetBios", Network[host[t]].netbios)>>)

-----------------------------------------------------------------------------
(* The port loop and the end of enrichHost(). *)

(* fault: the loop stops one port early. *)
PortsLeftButOne(t) == next[t] < Len(config.ports)
PortsLeft(t) == next[t] <= Len(config.ports)

ProbePort(t) ==
  /\ pc[t] = <<"port", "use">>
  /\ ~canceled /\ PortsLeft(t)
  /\ LET n == config.ports[next[t]]
         net == Network[host[t]]
     IN  found' = IF n \in DOMAIN net.tcp /\ net.tcp[n] = "accepts"
                  THEN [found EXCEPT ![t] =
                          Append(@, PortOf(n, net.banner[n], config.grabBanners))]
                  ELSE found
  /\ next' = [next EXCEPT ![t] = @ + 1]
  /\ UNCHANGED <<config, canceled, waiting, pc, host, alive, lookup, probes, reported>>

EndPortLoop(t) ==
  /\ pc[t] = <<"port", "use">>
  /\ canceled \/ ~PortsLeft(t)
  /\ Goto(t, <<"task", "report">>)
  /\ UNCHANGED <<config, canceled, waiting, task, lookup, probes, reported>>

(* ScanWorker::run() has read the ARP table and the gateways before the    *)
(* first task.                                                              *)
EnrichHost(t) ==
  LET h == host[t]
      plain == [ip |-> h, alive |-> TRUE, status |-> "Online", ttl |-> alive[t].ttl,
                discoveryMethod |-> alive[t].method, adapter |-> config.adapterName,
                mac |-> MacByIp(Os, h), vendor |-> Vendor(MacByIp(Os, h)),
                hostname |-> Hostname(t), ports |-> found[t], osGuess |-> Empty,
                type |-> "Unknown", riskScore |-> 0, riskLevel |-> "Info", risks |-> <<>>]
      withOs == [plain EXCEPT !.osGuess = IF config.detectOs THEN GuessOs(plain) ELSE Empty]
  IN  Evaluate([withOs EXCEPT !.type = Classify(withOs, h \in DefaultGateways(Os))])

(* The handles go out of scope, and the task with what it knew. *)
ReleaseAll(t) ==
  LET mine == {held[t][s] : s \in Slots} \ {NoProbe}
  IN  [o \in Probes |-> IF o \in mine THEN DropRef(o)[o] ELSE refs[o]]

Report(t) ==
  /\ pc[t] = <<"task", "report">>
  /\ reported' = AlsoReported(host[t], IF alive[t].alive THEN EnrichHost(t) ELSE Dead(host[t]))
  /\ refs' = ReleaseAll(t)
  /\ held' = [held EXCEPT ![t] = [s \in Slots |-> NoProbe]]
  /\ loop' = [loop EXCEPT ![t] = NoLoop]
  /\ alive' = [alive EXCEPT ![t] = NoReply]
  /\ found' = [found EXCEPT ![t] = <<>>]
  /\ host' = [host EXCEPT ![t] = Hosts[1]]
  /\ next' = [next EXCEPT ![t] = 1]
  /\ Goto(t, <<"task", "idle">>)
  /\ UNCHANGED <<config, canceled, waiting, late, gaveUp, factory, raced>>

-----------------------------------------------------------------------------
RequestCancel ==
  /\ ~canceled
  /\ canceled' = TRUE
  /\ UNCHANGED <<config, waiting, pc, task, lookup, probes, reported>>

Done == waiting = <<>> /\ \A t \in Threads : pc[t] = <<"task", "idle">>
Stop == Done /\ UNCHANGED vars     \* waitForDone() returns

Step(t) ==
  \/ BeginTask(t)
  \/ \E s \in Slots : TestProbe(t, s) \/ StoreProbe(t, s) \/ CopyProbe(t, s) \/ CountCopy(t, s)
  \/ ProbeHost(t)
  \/ AnswerArrives(t) \/ StaleAnswer(t) \/ LoopReturns(t)
  \/ ProbePort(t) \/ EndPortLoop(t)
  \/ Report(t)

Next == (\E t \in Threads : Step(t)) \/ RequestCancel \/ Stop
Spec == Init /\ [][Next]_vars

-----------------------------------------------------------------------------
(* Properties *)

Found == {h \in DOMAIN reported : reported[h].alive}
Listening(h) ==
  {n \in ToSet(config.ports) \cap DOMAIN Network[h].tcp : Network[h].tcp[n] = "accepts"}

(* The risk rules stated over the set of open ports: no order, no banner.   *)
Weight(n) ==
  Named(n).score
    + (IF "plaintext" \in Flags(n) THEN 8 ELSE 0) + (IF "db" \in Flags(n) THEN 6 ELSE 0)
    + (IF {"admin", "remote"} \subseteq Flags(n) THEN 6 ELSE 0)
    + (IF {"admin", "web"} \subseteq Flags(n) THEN 8 ELSE 0)
RiskOf(numbers) ==
  Min({100, MapThenSumSet(Weight, numbers) + (IF Cardinality(numbers) > 10 THEN 10 ELSE 0)})
Thresholds == << 0, 10, 30, 55, 80 >>

(* A host is reported with all of its open ports and the risk these make,  *)
(* and the level is the highest whose threshold the score reaches.  Only a *)
(* canceled scan (the port loop breaks, the host is reported all the same) *)
(* may leave ports out, and then the risk is never overstated.             *)
(* (enrichHost(), RiskEngine::evaluate())                                   *)
RiskIsOfOpenPorts ==
  [][\A h \in Found' \ Found :
       LET d == reported'[h] IN
       /\ OpenNumbers(d) \subseteq Listening(h)
       /\ OpenNumbers(d) = Listening(h) \/ canceled
       /\ d.riskScore = RiskOf(OpenNumbers(d))
       /\ d.riskScore <= RiskOf(Listening(h))
       /\ \A i \in DOMAIN Levels : Thresholds[i] <= d.riskScore <=> i <= Severity(d.riskLevel)
    ]_vars

OwnNames(h) ==
  {name \in { IF "Dns" \in config.hostnameMethods /\ Network[h].ptr # h
                THEN Network[h].ptr ELSE Empty,
              IF "Mdns" \in config.hostnameMethods THEN Network[h].mdns ELSE Empty,
              IF "NetBios" \in config.hostnameMethods THEN Network[h].netbios ELSE Empty } :
     name # Empty}

(* A host's name is its own, or what reverse DNS says of a host whose look-up *)
(* the same thread had given up before; a host that has a name stays without *)
(* one only when its own look-up was given up.  With no late answer on a    *)
(* thread its names are right.  (reverseDnsBounded(), resolve())            *)
NamesComeFromGivenUp ==
  [][\A t \in Threads :
       LET h == host[t] IN
       Report(t) /\ h \in Found' \ Found =>
         LET name == reported'[h].hostname IN
         IF name = Empty THEN OwnNames(h) = {} \/ h \in gaveUp[t]
         ELSE \/ name \in OwnNames(h)
              \/ \E g \in gaveUp[t] \ {h} : name = Network[g].ptr]_vars

(* "Resolves a hostname for an address via reverse DNS, mDNS and NetBIOS"   *)
(* (HostnameResolver.h:12): the name reported for a host is a name of it.   *)
NamesAreOwn ==
  \A h \in Found : reported[h].hostname \in OwnNames(h) \cup {Empty}

(* The threads that have copied the probe of t and counted their copy. *)
Holders(s, t) == {u \in Threads : held[u][s] = <<s, t>> /\ pc[u] # <<s, "count">>}

(* A probe lives as long as a thread or the factory holds it, and is counted *)
(* exactly, except where two threads made the first call at once: once one  *)
(* call has stored its probe, no later one can go wrong.                    *)
(* (DefaultProbeFactory::hostProbe(), portProbe())                          *)
ProbesAliveUnlessRaced ==
  \A s \in Slots \ raced, t \in Threads :
    refs[<<s, t>>] = Cardinality(Holders(s, t)) + (IF factory[s] = <<s, t>> THEN 1 ELSE 0)
=============================================================================
