------------------------------ MODULE HostFacts ------------------------------
(***************************************************************************)
(* What the scanner concludes about one host: the pure heuristics of        *)
(* src/src/core (ServiceDetector, OsFingerprinter, DeviceClassifier,       *)
(* RiskEngine, VendorLookup) and the tables the platform layer reads.      *)
(*                                                                         *)
(* A port number is a number, because the rules name them.  A banner is    *)
(* what the rules can tell about its text: the prefix they look for, what  *)
(* follows "server:", the words that give an operating system away, and    *)
(* `text', the part of it a service name is made of.  A vendor is the      *)
(* keyword of the classifier its name contains.                            *)
(***************************************************************************)
EXTENDS Integers, Sequences, FiniteSets, FiniteSetsExt, SequencesExt

CONSTANTS
  Services,  \* the rows of services.txt: port |-> [name, flags]
  Vendors    \* the rows of oui.txt: MAC |-> vendor, for the MACs that have one

ASSUME ServicesAssumption ==
  \A n \in DOMAIN Services :
    n \in 0 .. 65535 /\ Services[n].name # "" /\ IsFiniteSet(Services[n].flags)

NoBanner == [prefix |-> "none", server |-> "", words |-> {}, text |-> ""]

-----------------------------------------------------------------------------
(* ServiceDetector and VendorLookup *)

ServiceName(n) == IF n \in DOMAIN Services THEN Services[n].name ELSE ""
Flags(n) == IF n \in DOMAIN Services THEN Services[n].flags ELSE {}

(* A banner wins over the table where it says more: an SSH version, what    *)
(* follows "Server:" (to the end, for TcpPortProbe has replaced the line    *)
(* breaks), the greeting of a mail or FTP server, or any text of a port the *)
(* table does not know.  (An "http/1." line changes nothing: the table wins.) *)
RefineFromBanner(n, b) ==
  IF b = NoBanner THEN ServiceName(n)
  ELSE IF b.prefix = "ssh-" THEN b.text
  ELSE IF b.server # "" THEN b.server
  ELSE IF b.prefix = "220" /\ n \in {21, 25, 587} THEN b.text
  ELSE IF ServiceName(n) # "" THEN ServiceName(n) ELSE b.text

PortOf(n, b, grabBanners) ==
  LET said == IF grabBanners THEN RefineFromBanner(n, b) ELSE ServiceName(n)
  IN  [number |-> n, protocol |-> "tcp", state |-> "open", banner |-> b,
       service |-> IF said = "" THEN ServiceName(n) ELSE said]

Vendor(mac) == IF mac \in DOMAIN Vendors THEN Vendors[mac] ELSE ""
VirtualVendors == {"vmware", "virtualbox", "qemu", "xen", "parallels", "hyper-v"}
IsVirtualMac(mac) == Vendor(mac) \in VirtualVendors

-----------------------------------------------------------------------------
(* Device::openPorts(), Device::serviceNames() *)

OpenPorts(d) ==
  FoldLeft(LAMBDA open, p : IF p.state = "open" THEN Append(open, p) ELSE open, <<>>, d.ports)
OpenNumbers(d) == {p.number : p \in ToSet(OpenPorts(d))}
ServiceNames(d) == {p.service : p \in ToSet(OpenPorts(d))} \ {""}

-----------------------------------------------------------------------------
(* OsFingerprinter *)

FromTtl(ttl) ==
  IF ttl <= 0 THEN "" ELSE IF ttl <= 64 THEN "Linux/Unix"
  ELSE IF ttl <= 128 THEN "Windows" ELSE "Network device"

OsOfWords(words) ==
  IF words \cap {"windows", "microsoft"} # {} THEN "Windows"
  ELSE IF words \cap {"ubuntu", "debian", "linux"} # {} THEN "Linux"
  ELSE IF {"openssh", "freebsd"} \subseteq words THEN "FreeBSD"
  ELSE IF words \cap {"mikrotik", "routeros"} # {} THEN "MikroTik RouterOS"
  ELSE ""

GuessOs(d) ==
  LET telling == SelectSeq(d.ports, LAMBDA p : OsOfWords(p.banner.words) # "") IN
  IF telling # <<>> THEN OsOfWords(Head(telling).banner.words)
  ELSE IF ServiceNames(d) \cap {"microsoft-ds", "ms-wbt-rdp", "netbios-ssn"} # {}
       THEN "Windows"
  ELSE FromTtl(d.ttl)

-----------------------------------------------------------------------------
(* DeviceClassifier *)

(* The tests in the order in which they are made; the first that holds     *)
(* decides.                                                                 *)
TypeRules(d, isGateway) ==
  LET numbers == OpenNumbers(d)
      services == ServiceNames(d)
      has(some) == numbers \cap some # {}
      serves(some) == services \cap some # {}
      open == Len(OpenPorts(d))
  IN << <<isGateway, "Gateway">>,
        <<d.vendor \in VirtualVendors, "VirtualMachine">>,
        <<d.vendor \in {"raspberry", "espressif"}, "IoT">>,
        <<d.vendor \in {"hewlett", "epson", "canon", "brother"} /\ has({9100, 631, 515}),
          "Printer">>,
        <<d.vendor \in {"ubiquiti", "mikrotik", "netgear", "tp-link", "d-link", "asus"},
          "Router">>,
        <<d.vendor = "apple", IF has({62078}) THEN "Phone" ELSE "Computer">>,
        <<d.vendor \in {"samsung", "huawei", "xiaomi"}, "Phone">>,
        <<d.vendor \in {"roku", "amazon", "sony"}, "MediaPlayer">>,
        <<has({9100, 631}) \/ serves({"ipp", "jetdirect"}), "Printer">>,
        <<has({554, 8554}) \/ serves({"rtsp"}), "Camera">>,
        <<(has({445, 2049, 548}) \/ serves({"afp"})) /\ open <= 6, "Nas">>,
        <<has({32400}) \/ serves({"plex", "upnp"}), "MediaPlayer">>,
        <<serves({"ms-wbt-rdp", "microsoft-ds"}), "Computer">>,
        <<open >= 6, "Server">>,
        <<open >= 1, "Computer">>,
        <<TRUE, "Unknown">> >>

Classify(d, isGateway) ==
  LET rules == TypeRules(d, isGateway)
  IN  rules[Min({i \in DOMAIN rules : rules[i][1]})][2]

-----------------------------------------------------------------------------
(* RiskEngine *)

Levels == <<"Info", "Low", "Medium", "High", "Critical">>
Severity(level) == CHOOSE i \in DOMAIN Levels : Levels[i] = level

LevelForScore(score) ==
  IF score >= 80 THEN "Critical" ELSE IF score >= 55 THEN "High"
  ELSE IF score >= 30 THEN "Medium" ELSE IF score >= 10 THEN "Low" ELSE "Info"

(* The services the engine names: what they add and the finding they make. *)
Named(n) ==
  CASE n = 23 -> [score |-> 30, finding |-> <<"Critical", "Telnet exposed">>]
    [] n = 21 -> [score |-> 18, finding |-> <<"High", "FTP exposed">>]
    [] n = 5900 -> [score |-> 22, finding |-> <<"High", "VNC exposed">>]
    [] n = 3389 -> [score |-> 16, finding |-> <<"High", "RDP exposed">>]
    [] n \in {445, 139} -> [score |-> 12, finding |-> <<"Medium", "SMB file sharing">>]
    [] n = 161 -> [score |-> 15, finding |-> <<"High", "SNMP exposed">>]
    [] n \in {6379, 11211, 27017, 9200} ->
         [score |-> 18, finding |-> <<"High", "Database reachable">>]
    [] OTHER -> [score |-> 0, finding |-> <<>>]

FlagRules(n) ==
  LET f == Flags(n) IN
  << <<"plaintext" \in f, 8, <<"Medium", "Plaintext service">> >>,
     <<"db" \in f, 6, <<>> >>,
     <<{"admin", "remote"} \subseteq f, 6, <<>> >>,
     <<{"web", "admin"} \subseteq f, 8, <<"Medium", "Admin web panel">> >> >>

PortScore(n) ==
  FoldLeft(LAMBDA sum, r : IF r[1] THEN sum + r[2] ELSE sum, Named(n).score, FlagRules(n))

PortFindings(n) ==
  SelectSeq(<<Named(n).finding>> \o [i \in 1 .. 4 |-> IF FlagRules(n)[i][1]
                                                      THEN FlagRules(n)[i][3] ELSE <<>>],
            LAMBDA f : f # <<>>)

LargeSurface == 10

Score(d) ==
  FoldLeft(LAMBDA sum, p : sum + PortScore(p.number), 0, OpenPorts(d))
    + (IF Len(OpenPorts(d)) > LargeSurface THEN 10 ELSE 0)

Findings(d) ==
  FoldLeft(LAMBDA all, p : all \o PortFindings(p.number), <<>>, OpenPorts(d))
    \o (IF Len(OpenPorts(d)) > LargeSurface THEN << <<"Low", "Large attack surface">> >>
        ELSE <<>>)
    \o (IF OpenPorts(d) = <<>> /\ d.status = "Online"
        THEN << <<"Info", "No open ports found">> >> ELSE <<>>)

Bounded(score) == IF score > 100 THEN 100 ELSE score

Evaluate(d) ==
  [d EXCEPT !.riskScore = Bounded(Score(d)),
            !.riskLevel = LevelForScore(Bounded(Score(d))),
            !.risks = Findings(d)]

-----------------------------------------------------------------------------
(* What the platform layer reads: the ARP table and the default gateways.  *)

NoMac == ""
ZeroMac == "00:00:00:00:00:00"

(* Lines that give no MAC, or the zero one, are passed over.  /proc/net/arp *)
(* is used when it yields an entry; otherwise `ip neigh', and `arp -a' when *)
(* that prints nothing.                                                     *)
ArpTable(os) ==
  LET entries(lines) == SelectSeq(lines, LAMBDA e : e.mac \notin {NoMac, ZeroMac})
  IN  IF entries(os.procArp) # <<>> THEN entries(os.procArp)
      ELSE entries(IF os.ipNeigh # <<>> THEN os.ipNeigh ELSE os.arp)

(* QHash::insert: the last entry of an address counts. *)
MacByIp(os, ip) ==
  LET mine == SelectSeq(ArpTable(os), LAMBDA e : e.ip = ip)
  IN  IF mine = <<>> THEN NoMac ELSE Last(mine).mac

DefaultGateways(os) ==
  LET lines == IF os.ipRoute # <<>> THEN os.ipRoute
               ELSE IF os.route # <<>> THEN os.route ELSE os.netstat
  IN  {l.ip : l \in {l \in ToSet(lines) : l.default /\ l.ip # ""}}
=============================================================================
