------------------------------ MODULE Reports ------------------------------
(***************************************************************************)
(* The files devices are written to and read from: Device::toJson() and     *)
(* fromJson() (src/src/core/Device.cpp) and src/src/reporting.             *)
(*                                                                         *)
(* A JSON document keeps values as they are, so it is a record here.  A CSV *)
(* file is text: a sequence of lines, each a sequence of characters, where  *)
(* a run of characters the format does not tell apart is one of them.       *)
(* Spelling gives the characters of the values that are more than one run.  *)
(* The times a device was seen are left out.                                *)
(***************************************************************************)
EXTENDS HostFacts, TLC

CONSTANTS
  Spelling,  \* value |-> its characters
  Numbers    \* the numbers a file may hold

ASSUME SpellingAssumption == Numbers \subseteq 0 .. 65535 /\ \A v, w \in DOMAIN Spelling :
  Len(Spelling[v]) > 1 /\ (Spelling[v] = Spelling[w] => v = w)

Chars(v) ==
  IF v = "" THEN <<>> ELSE IF v \in DOMAIN Spelling THEN Spelling[v] ELSE <<v>>
Garbled == "?"     \* stands for every text that is none of the values
ValueOf(chars) ==
  LET values == {v \in DOMAIN Spelling : Spelling[v] = chars}
  IN  IF chars = <<>> THEN "" ELSE IF Len(chars) = 1 THEN chars[1]
      ELSE IF values = {} THEN Garbled ELSE CHOOSE v \in values : TRUE
NumbersOf(chars) == {n \in Numbers : <<ToString(n)>> = chars}
NumberOf(chars) == IF NumbersOf(chars) = {} THEN 0 ELSE CHOOSE n \in NumbersOf(chars) : TRUE

JoinWith(texts, sep) ==
  FlattenSeq([i \in DOMAIN texts |-> (IF i = 1 THEN <<>> ELSE <<sep>>) \o texts[i]])

(* Qt::SkipEmptyParts *)
SplitAt(text, seps) ==
  SelectSeq(FoldLeft(LAMBDA parts, c :
                       IF c \in seps THEN Append(parts, <<>>)
                       ELSE [parts EXCEPT ![Len(parts)] = Append(@, c)],
                     << <<>> >>, text),
            LAMBDA part : part # <<>>)

-----------------------------------------------------------------------------
(* Types.h: the names of the device types; those not listed are their own.  *)

TypeNames ==
  [AccessPoint |-> "Access Point", Nas |-> "NAS", MediaPlayer |-> "Media Player",
   IoT |-> "IoT Device", VirtualMachine |-> "Virtual Machine"]
OwnName == {"Gateway", "Router", "Switch", "Server", "Computer", "Laptop", "Phone",
            "Tablet", "Printer", "Camera"}
TypeName(type) == IF type \in DOMAIN TypeNames THEN TypeNames[type] ELSE type
TypeFromName(name) ==
  IF name \in OwnName THEN name
  ELSE IF \E type \in DOMAIN TypeNames : TypeNames[type] = name
       THEN CHOOSE type \in DOMAIN TypeNames : TypeNames[type] = name ELSE "Unknown"

OneOf(name, known, otherwise) == IF name \in known THEN name ELSE otherwise
StatusFromName(name) == OneOf(name, {"Online", "Offline", "New", "Lost"}, "Unknown")
RiskFromName(name) == OneOf(name, ToSet(Levels), "Info")
PortStateFromName(name) == OneOf(name, {"open", "filtered"}, "closed")

(* What a Device is before anything is known of it. *)
Blank ==
  [ip |-> "", mac |-> NoMac, hostname |-> "", vendor |-> "", osGuess |-> "", ports |-> <<>>,
   type |-> "Unknown", riskScore |-> 0, riskLevel |-> "Info", risks |-> <<>>,
   status |-> "Unknown", labels |-> <<>>, favorite |-> FALSE, ttl |-> -1, adapter |-> "",
   discoveryMethod |-> ""]

-----------------------------------------------------------------------------
(* JSON *)

ToJsonObject(d) ==
  [ip |-> d.ip, mac |-> d.mac, hostname |-> d.hostname, vendor |-> d.vendor, os |-> d.osGuess,
   type |-> TypeName(d.type), status |-> d.status, riskScore |-> d.riskScore,
   riskLevel |-> d.riskLevel, favorite |-> d.favorite, ttl |-> d.ttl, adapter |-> d.adapter,
   discoveryMethod |-> d.discoveryMethod, labels |-> d.labels, risks |-> d.risks,
   ports |-> [i \in DOMAIN d.ports |->
                [port |-> d.ports[i].number, protocol |-> d.ports[i].protocol,
                 state |-> d.ports[i].state, service |-> d.ports[i].service,
                 banner |-> d.ports[i].banner]]]

(* The findings are written and not read; the number of a port is cast to    *)
(* 16 bits.                                                                  *)
FromJsonObject(o) ==
  [ip |-> o.ip, mac |-> o.mac, hostname |-> o.hostname, vendor |-> o.vendor, osGuess |-> o.os,
   type |-> TypeFromName(o.type), status |-> StatusFromName(o.status),
   riskScore |-> o.riskScore, riskLevel |-> RiskFromName(o.riskLevel),
   favorite |-> o.favorite, ttl |-> o.ttl, adapter |-> o.adapter,
   discoveryMethod |-> o.discoveryMethod, labels |-> o.labels, risks |-> <<>>,
   ports |-> [i \in DOMAIN o.ports |->
                [number |-> o.ports[i].port % 65536, protocol |-> o.ports[i].protocol,
                 state |-> PortStateFromName(o.ports[i].state),
                 service |-> o.ports[i].service, banner |-> o.ports[i].banner]]]

ToJson(devices, summary) ==
  [format |-> "json", summary |-> summary,
   devices |-> [i \in DOMAIN devices |-> ToJsonObject(devices[i])]]
ImportJson(file) ==
  IF file.format # "json" THEN <<>>       \* QJsonParseError
  ELSE [i \in DOMAIN file.devices |-> FromJsonObject(file.devices[i])]

-----------------------------------------------------------------------------
(* CSV *)

Special == {",", "\"", "\n"}
Doubled(chars) ==
  FlattenSeq([i \in DOMAIN chars |-> IF chars[i] = "\"" THEN <<"\"", "\"">>
                                     ELSE <<chars[i]>>])
(* fault: a field is quoted, its quotes are not doubled. *)
CsvFieldUndoubled(chars) ==
  IF ToSet(chars) \cap Special = {} THEN chars ELSE <<"\"">> \o chars \o <<"\"">>
CsvField(chars) ==
  IF ToSet(chars) \cap Special = {} THEN chars ELSE <<"\"">> \o Doubled(chars) \o <<"\"">>

Columns == <<"ip", "mac", "hostname", "vendor", "os", "type", "status", "risk",
             "risklevel", "openports", "services", "labels">>

NumberTexts(ports) == [i \in DOMAIN ports |-> <<ToString(ports[i].number)>>]
ServiceTexts(ports) ==     \* each once, in the order of the ports
  FoldLeft(LAMBDA all, p : IF p.service = "" \/ Contains(all, Chars(p.service)) THEN all
                           ELSE Append(all, Chars(p.service)), <<>>, ports)

CsvLine(d) ==
  LET fields ==
        << Chars(d.ip), Chars(d.mac), Chars(d.hostname), Chars(d.vendor), Chars(d.osGuess),
           Chars(TypeName(d.type)), Chars(d.status), <<ToString(d.riskScore)>>,
           Chars(d.riskLevel), JoinWith(NumberTexts(OpenPorts(d)), " "),
           JoinWith(ServiceTexts(OpenPorts(d)), " "),
           JoinWith([i \in DOMAIN d.labels |-> Chars(d.labels[i])], "|") >>
  IN  JoinWith([i \in DOMAIN fields |-> CsvField(fields[i])], ",")

ToCsv(devices) ==
  [format |-> "csv",
   text |-> JoinWith(<<JoinWith([i \in DOMAIN Columns |-> <<Columns[i]>>], ",")>>
                       \o [i \in DOMAIN devices |-> CsvLine(devices[i])], "\n")]

(* parseCsvLine(): a quote in quotes is the end of them, or one half of a    *)
(* quote that was doubled.                                                   *)
ReadChar(s, c) ==
  LET add == [s EXCEPT !.fields[Len(s.fields)] = Append(@, c)] IN
  IF s.mode = "quoted"
  THEN IF c = "\"" THEN [s EXCEPT !.mode = "quote"] ELSE add
  ELSE IF c = "\"" THEN [IF s.mode = "quote" THEN add ELSE s EXCEPT !.mode = "quoted"]
  ELSE IF c = "," THEN [fields |-> Append(s.fields, <<>>), mode |-> "plain"]
  ELSE [add EXCEPT !.mode = "plain"]
ParseCsvLine(line) ==
  FoldLeft(ReadChar, [fields |-> << <<>> >>, mode |-> "plain"], line).fields

(* The columns are found by their names, so the address, MAC, name, vendor,  *)
(* OS, score, open ports and labels; nothing else is read.                   *)
FromCsvFields(header, fields) ==
  LET at(column) ==
        LET i == {i \in DOMAIN header \cap DOMAIN fields : header[i] = <<column>>}
        IN  IF i = {} THEN <<>> ELSE fields[Max(i)]
      ports == SelectSeq(SplitAt(at("openports"), {" ", ","}),
                         LAMBDA part : NumbersOf(part) # {})
      labels == SplitAt(at("labels"), {"|"})
  IN [Blank EXCEPT
        !.ip = ValueOf(at("ip")), !.mac = ValueOf(at("mac")),
        !.hostname = ValueOf(at("hostname")), !.vendor = ValueOf(at("vendor")),
        !.osGuess = ValueOf(at("os")), !.riskScore = NumberOf(at("risk")),
        !.ports = [i \in DOMAIN ports |->
                     [number |-> NumberOf(ports[i]), protocol |-> "tcp", state |-> "open",
                      service |-> "", banner |-> NoBanner]],
        !.labels = [i \in DOMAIN labels |-> ValueOf(labels[i])]]

(* The text is cut at every line break, one in quotes too. *)
ImportCsv(file) ==
  LET lines == SplitAt(file.text, {"\n"})
      header == ParseCsvLine(Head(lines))
      read == [i \in 1 .. Len(lines) - 1 |-> FromCsvFields(header, ParseCsvLine(lines[i + 1]))]
  IN  IF file.format # "csv" THEN <<>> ELSE SelectSeq(read, LAMBDA d : d.ip # "")

-----------------------------------------------------------------------------
(* HTML: a row a device, and a section of those with a finding of note.      *)

Meaningful(d) == \E i \in DOMAIN d.risks : Severity(d.risks[i][1]) >= Severity("Medium")

ToHtml(devices, summary) ==
  [format |-> "html", summary |-> summary,
   rows |-> [i \in DOMAIN devices |->
               [k \in {"ip", "mac", "hostname", "vendor", "osGuess", "type", "riskLevel",
                       "status"} |-> devices[i][k]]
               @@ [ports |-> NumberTexts(OpenPorts(devices[i])),
                   services |-> ServiceTexts(OpenPorts(devices[i]))]],
   riskSection |-> LET risky == SelectSeq(devices, Meaningful)
                   IN  [i \in DOMAIN risky |-> [ip |-> risky[i].ip, risks |-> risky[i].risks]]]
=============================================================================
