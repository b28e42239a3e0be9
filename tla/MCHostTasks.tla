----------------------------- MODULE MCHostTasks -----------------------------
(***************************************************************************)
(* Three hosts that answer, so that one thread can meet a late answer twice, *)
(* and one that does not.  The scores pass every threshold, and 100; one    *)
(* host has more than ten ports open.                                      *)
(***************************************************************************)
EXTENDS CommandLine

Row(name, flags) == [name |-> name, flags |-> flags]
MCServices ==
  (21 :> Row("ftp", {"plaintext", "remote"})) @@ (22 :> Row("ssh", {"admin", "remote"}))
  @@ (23 :> Row("telnet", {"plaintext", "admin", "remote"}))
  @@ (445 :> Row("microsoft-ds", {"share", "admin"})) @@ (10000 :> Row("webmin", {"web", "admin"}))
  @@ (5900 :> Row("vnc", {"admin", "remote", "plaintext"}))
MCVendors == ("AC:DE:48" :> "apple") @@ ("00:50:56" :> "vmware")

Says(prefix, words, text) ==
  [prefix |-> prefix, server |-> "", words |-> words, text |-> text]
Up(ttl) == [starts |-> TRUE, ends |-> TRUE, exit |-> 0, ttl |-> ttl, unreachable |-> FALSE]
Silent == [starts |-> TRUE, ends |-> TRUE, exit |-> 1, ttl |-> -1, unreachable |-> FALSE]
Box(ping, tcp, banner, ptr, netbios) ==
  [ping |-> ping, tcp |-> tcp, ptr |-> ptr, mdns |-> "", netbios |-> netbios,
   banner |-> [n \in DOMAIN tcp |-> IF n \in DOMAIN banner THEN banner[n] ELSE NoBanner]]
All == [n \in {21, 22, 23, 80, 443, 445, 515, 554, 5900, 8080, 10000} |-> "accepts"]

MCHosts == <<"10.0.0.1", "10.0.0.2", "10.0.0.3", "10.0.0.4">>
MCNetwork ==
  ("10.0.0.1" :> Box(Up(64), (22 :> "accepts") @@ (5900 :> "accepts"),
                     22 :> Says("ssh-", {"openssh", "ubuntu"}, "SSH-2.0"), "router", ""))
  @@ ("10.0.0.2" :> Box(Silent, (80 :> "refuses") @@ (445 :> "accepts"), <<>>,
                        "10.0.0.2", "DESKTOP"))
  @@ ("10.0.0.3" :> Box(Silent, <<>>, <<>>, "gone", ""))
  @@ ("10.0.0.4" :> Box(Up(128), All, <<>>, "trap", ""))

Entry(ip, mac) == [ip |-> ip, mac |-> mac]
MCOs ==
  [procArp |-> <<Entry("10.0.0.2", ZeroMac), Entry("10.0.0.1", "AC:DE:48")>>,
   ipNeigh |-> <<>>, arp |-> <<>>, ipRoute |-> <<[default |-> TRUE, ip |-> "10.0.0.1"]>>,
   route |-> <<>>, netstat |-> <<>>]
(* The probes brought a MAC, and the first host has another one. *)
MCOsAfter ==
  [MCOs EXCEPT !.procArp = <<Entry("10.0.0.2", "00:50:56"), Entry("10.0.0.1", "02:00:5E")>>]

Default ==
  [methods |-> {"TcpConnect", "Icmp", "Arp"}, ports |-> <<22, 445>>,
   hostnameMethods |-> {"Dns", "NetBios"}, detectOs |-> TRUE, grabBanners |-> TRUE,
   adapterName |-> "eth0"]

(* Command lines: the second scans all ports that are open somewhere, by    *)
(* swapped and overlapping ranges.                                          *)
Call(targets, methods, ports, names, outputs) ==
  [targets |-> targets, profile |-> "", ports |-> ports, methods |-> methods,
   hostnames |-> names, banners |-> names, outputs |-> outputs]
Number(n) == [kind |-> "number", n |-> n]
Span(a, b) == [kind |-> "range", a |-> a, b |-> b]
MCCalls ==
  { Call("none", {"icmp"}, <<>>, TRUE, {}),
    Call("valid", {"icmp", "ping"},
         <<Span(23, 21), Number(80), Number(0), Span(443, 446), Number(445), Number(515),
           Number(554), [kind |-> "other"], Number(5900), Number(8080), Number(10000)>>,
         FALSE, {[format |-> "", extension |-> "json"]}) }
MCConfigs == {Default} \cup {ConfigOf(a) : a \in MCCalls}
MCMarks ==
  [h \in ToSet(MCHosts) |->
     IF h = "10.0.0.1" THEN [labels |-> <<"the \"old\" one", "hall, left">>, favorite |-> TRUE,
                               status |-> "New"]
     ELSE IF h = "10.0.0.2"
     THEN [labels |-> <<"a|b">>, favorite |-> FALSE, status |-> "Online"]
     ELSE [labels |-> <<>>, favorite |-> FALSE, status |-> "Online"]]
MCSpelling ==
  ("the \"old\" one" :> <<"the ", "\"", "old", "\"", " one">>)
  @@ ("hall, left" :> <<"hall", ",", " left">>) @@ ("a|b" :> <<"a", "|", "b">>)
MCNumbers == 0 .. 100 \cup DOMAIN All

NoPorts == <<>>

ThreadSymmetry == Permutations(Threads)
=============================================================================
