---- MODULE MCConsole ----
(***************************************************************************
 The console on a small server: two rows to a list, two guests, one container on
 the first of two hosts, five nodes of a topology of which one comes later, and
 three events, of which the first two share their places.
 ***************************************************************************)
EXTENDS Console, TLC

MCPolicies ==
  {[mode |-> m, on |-> t[1], off |-> t[2]] : m \in {"auto", "max"},
     t \in {<<60, 50>>, <<70, 65>>, <<60, 65>>, <<70, 50>>}}

MCContainers == {[host |-> "h1", name |-> "c1"]}
MCNodes == {"wan", "cloudflare", "firewall", "pve", "vm"}
MCLinks == {<<"wan", "cloudflare">>, <<"cloudflare", "firewall">>, <<"wan", "firewall">>,
            <<"firewall", "pve">>, <<"pve", "vm">>}

MCEvent == [source |-> "A", target |-> "B", from |-> 2, to |-> 5, type |-> "Malware",
            kind |-> "local_sensor", at |-> 1, local |-> FALSE]
MCShape ==
  <<MCEvent,
    [MCEvent EXCEPT !.to = 0, !.type = "Phishing", !.at = 2],
    [MCEvent EXCEPT !.source = "C", !.from = 0, !.target = "none", !.type = "Phishing",
                    !.kind = "global_threat_feed", !.at = 3]>>
MCViews == {[low |-> 0, high |-> 6], [low |-> 4, high |-> 6]}
====
