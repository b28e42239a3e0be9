---------------------------- MODULE CommandLine ----------------------------
(***************************************************************************)
(* A scan from its options to the file with its report: src/src/cli/main.cpp *)
(* around HostTasks, the second reading of the ARP table that follows them, *)
(* and, for the window, what it adds to a report: labels, favourites and    *)
(* which devices are new.  The command line has no way to cancel a scan.    *)
(***************************************************************************)
EXTENDS HostTasks, Reports

CONSTANTS
  Calls,      \* command lines: targets, ports, methods, hostnames, banners, output
  WindowScan, \* the call that stands for a scan of the window
  Marks,      \* host |-> [labels, favorite, status] as the window knows them
  OsAfter,    \* what the operating system says when the probes are over
  OldFile     \* what the output file held before

ASSUME MarksAssumption == \A h \in Address : Marks[h].status \in {"Online", "New"}

VARIABLES
  args,     \* the call
  updated,  \* enrichMacsFromArp() was called, its deviceUpdated heard
  exit,     \* "running", then the exit code
  file      \* the output file

cli == <<args, updated, exit, file>>
cvars == <<vars, cli>>

-----------------------------------------------------------------------------
(* parseMethods(): unknown names are passed over; without one, TCP and ICMP. *)
MethodOf == [arp |-> "Arp", icmp |-> "Icmp", tcp |-> "TcpConnect", raw |-> "Raw"]
ParseMethods(names) ==
  LET known == {MethodOf[n] : n \in names \cap DOMAIN MethodOf}
  IN  IF known = {} THEN {"TcpConnect", "Icmp"} ELSE known

(* A profile by its name, where "Custom" has no ports, or a specification.  *)
ConfigOf(a) ==
  [methods |-> ParseMethods(a.methods),
   ports |-> IF a.profile \in ProfileNames THEN ForName(a.profile) ELSE ParseSpec(a.ports),
   hostnameMethods |-> IF a.hostnames THEN {"Dns"} ELSE {},
   detectOs |-> TRUE, grabBanners |-> a.banners, adapterName |-> ""]

CliInit ==
  /\ Init
  /\ args \in Calls \cup {WindowScan}
  /\ args # WindowScan => config = ConfigOf(args)
  /\ updated = FALSE
  /\ exit = "running"
  /\ file = OldFile

(* No target, or none that IpRange::parseList() takes. *)
HasTargets == args \in {WindowScan} \cup {a \in Calls : a.targets = "valid"}
Refuse ==
  /\ exit = "running"
  /\ ~HasTargets
  /\ exit' = "2"
  /\ UNCHANGED <<vars, args, updated, file>>

Scan ==
  /\ exit = "running" /\ HasTargets
  /\ \E t \in Threads : Step(t)
  /\ UNCHANGED cli

Cancel ==
  /\ exit = "running" /\ args = WindowScan
  /\ RequestCancel
  /\ UNCHANGED cli

(* The probes have filled the ARP table: it is read again. *)
EnrichMacsFromArp ==
  /\ exit = "running" /\ HasTargets
  /\ Done /\ ~canceled /\ ~updated
  /\ updated' = TRUE
  /\ UNCHANGED <<vars, args, exit, file>>

-----------------------------------------------------------------------------
(* The report *)

(* The format option wins over the extension; whatever is neither CSV nor   *)
(* JSON is HTML.                                                            *)
FormatOf(output) ==
  LET said == IF output.format # "" THEN output.format ELSE output.extension
  IN  IF said \in {"csv", "json"} THEN said ELSE "html"

(* A device whose MAC is another now: score and level are not made again.   *)
Updated(d) ==
  LET mac == MacByIp(OsAfter, d.ip)
      type == IF IsVirtualMac(mac) THEN "VirtualMachine" ELSE d.type
  IN  IF updated /\ mac \notin {NoMac, d.mac}
      THEN [d EXCEPT !.mac = mac, !.vendor = Vendor(mac), !.type = type] ELSE d

MarksOf(h) ==
  IF args = WindowScan THEN Marks[h]
  ELSE [labels |-> <<>>, favorite |-> FALSE, status |-> "Online"]
DeviceOf(h) ==
  [k \in DOMAIN Blank |->
     IF k \in {"labels", "favorite", "status"} THEN MarksOf(h)[k] ELSE Updated(reported[h])[k]]
Listed ==      \* by address
  FoldLeft(LAMBDA all, h : IF h \in Found THEN Append(all, DeviceOf(h)) ELSE all, <<>>, Hosts)

Summary ==
  [scanned |-> Cardinality(DOMAIN reported), hostsUp |-> Cardinality(Found),
   risky |-> Cardinality({h \in Found : reported[h].riskLevel \in {"High", "Critical"}})]

ReportIn(format) ==
  IF format = "csv" THEN ToCsv(Listed)
  ELSE IF format = "json" THEN ToJson(Listed, Summary) ELSE ToHtml(Listed, Summary)

(* writeAtomic(): all of the file or nothing of it. *)
WriteAtomic(content) == file' \in {content, OldFile}

(* The exit code is 0 also when the report could not be written. *)
Finish ==
  /\ exit = "running" /\ HasTargets
  /\ Done /\ (updated \/ canceled)
  /\ exit' = "0"
  /\ \E output \in IF args = WindowScan
                   THEN [format : {"csv", "json", "html"}] ELSE args.outputs :
       WriteAtomic(ReportIn(FormatOf(output)))
  /\ UNCHANGED <<vars, args, updated>>

Exited == exit # "running" /\ UNCHANGED cvars

CliNext == Refuse \/ Scan \/ Cancel \/ EnrichMacsFromArp \/ Finish \/ Exited
CliSpec == CliInit /\ [][CliNext]_cvars

-----------------------------------------------------------------------------
(* Properties *)

(* What a CSV file keeps of a device: the address, MAC, name, vendor, OS,   *)
(* score, the numbers of the open ports, and the labels, one with the       *)
(* separator as two.                                                        *)
CsvKeeps(d) ==
  LET split == FlattenSeq([i \in DOMAIN d.labels |-> SplitAt(Chars(d.labels[i]), {"|"})])
  IN [Blank EXCEPT
        !.ip = d.ip, !.mac = d.mac, !.hostname = d.hostname, !.vendor = d.vendor,
        !.osGuess = d.osGuess, !.riskScore = d.riskScore,
        !.ports = [i \in DOMAIN OpenPorts(d) |->
                     [OpenPorts(d)[i] EXCEPT !.service = "", !.banner = NoBanner]],
        !.labels = [i \in DOMAIN split |-> ValueOf(split[i])]]

JsonRestores ==
  LET devices == Listed IN
  file.format = "json" =>
    ImportJson(file) = [i \in DOMAIN devices |-> [devices[i] EXCEPT !.risks = <<>>]]
CsvRestores ==
  LET devices == Listed IN
  file.format = "csv" => ImportCsv(file) = [i \in DOMAIN devices |-> CsvKeeps(devices[i])]

(* A report that is imported again gives back every device, in the order of *)
(* the table: from JSON with everything but its findings, from CSV with the *)
(* columns that are read, whatever separators and quotes its names hold.    *)
(* (toCsv(), importCsv(), Device::toJson(), Device::fromJson())             *)
FilesRestoreDevices == file # OldFile => JsonRestores /\ CsvRestores
=============================================================================
