--------------------------- MODULE MCRouteSelect ----------------------------
(***************************************************************************)
(* RouteSelect on the rule tables of the source-policy contract            *)
(* (ARCHITECTURE.md, "Inbound source policy contract"): the fail-closed    *)
(* pair alone, before a broader rule, behind one, behind route-options,    *)
(* and tables with inverted rules, two rule-sets, and configuration        *)
(* errors.                                                                 *)
(***************************************************************************)
EXTENDS RouteSelect

Rule(inbounds, sources, hosts, ruleSets, invert, action, arg) ==
    [inbounds |-> inbounds, sources |-> sources, hosts |-> hosts, sets |-> ruleSets,
     invert |-> invert, action |-> action, arg |-> arg]

Allow == Rule({"protected"}, {}, {}, <<"whitelist">>, FALSE, "route", "direct")
Deny == Rule({"protected"}, {}, {}, << >>, FALSE, "reject", "drop")
Broad == Rule({}, {}, {"h2"}, << >>, FALSE, "route", "proxy")
Override == Rule({}, {}, {"h1"}, << >>, FALSE, "route-options", "h2")
BySource == Rule({}, {"a"}, {}, << >>, FALSE, "route", "proxy")
Either == Rule({}, {}, {}, <<"whitelist", "blocklist">>, FALSE, "route", "proxy")
Unlisted == Rule({"protected"}, {}, {}, <<"whitelist">>, TRUE, "reject", "default")
NoCondition == Rule({}, {}, {}, << >>, FALSE, "route", "direct")
NoOutbound == Rule({"open"}, {}, {}, << >>, FALSE, "route", "nowhere")
NoSet == Rule({"open"}, {}, {}, <<"unknown">>, FALSE, "route", "direct")
NoOption == Rule({"open"}, {}, {}, << >>, FALSE, "route-options", "")

MCConfigs ==
    [rules : {<< >>, <<Allow, Deny>>, <<Allow, Deny, Broad>>, <<Override, Allow, Deny>>,
              <<Override, Broad, Allow, Deny>>, <<BySource, Deny>>, <<Either, Deny>>,
              <<Unlisted, Broad>>, <<Override, Either>>, <<Broad, Override, Broad>>},
     final : {"", "proxy"}]
    \cup [rules : {<<Allow, NoCondition>>, <<NoOutbound, Deny>>, <<NoSet>>, <<NoOption>>},
          final : {""}]
    \cup {[rules |-> <<Allow, Deny>>, final |-> "nowhere"]}

MCSessions ==
    [inbound : {"protected", "open"},
     source : [ip : {"a", "b"}, mapped : BOOLEAN] \cup {[ip |-> "none", mapped |-> FALSE]},
     host : {"h1", "h3"}]

MCContents == {{}, {"a"}, {"h2"}}
-----------------------------------------------------------------------------
(* The reference: what the documentation says select() computes from one   *)
(* state of the rule-sets for a client, with the addresses compared as     *)
(* IPv4.                                                                   *)
Listed(snapshot, client, host) == {host, client.source.ip} \cap snapshot # {}

Hits(rule, client, snapshots, host) ==
    (/\ rule.inbounds # {} => client.inbound \in rule.inbounds
     /\ rule.sources # {} => client.source.ip \in rule.sources
     /\ rule.hosts # {} => host \in rule.hosts
     /\ rule.sets # << >> =>
          \E m \in 1..Len(rule.sets) : Listed(snapshots[rule.sets[m]], client, host))
    # rule.invert

Hosts(table, client) == {client.host} \cup {table[k].arg : k \in 1..Len(table)}

(* A client comes past the rules before k with the destinations h. *)
Walk(table, client, snapshots, k, h) ==
    /\ h[1] = client.host
    /\ \A j \in 1..(k - 1) :
         IF Hits(table[j], client, snapshots, h[j])
         THEN table[j].action = "route-options" /\ h[j + 1] = table[j].arg
         ELSE h[j + 1] = h[j]

(* The rule the walk ends at decides, or the final outbound; there is only *)
(* one such walk.                                                          *)
Documented(section, client, snapshots, result) ==
    LET table == section.rules IN
    \E k \in 1..(Len(table) + 1) : \E h \in [1..k -> Hosts(table, client)] :
        /\ Walk(table, client, snapshots, k, h)
        /\ \/ k > Len(table) /\ result = FinalOf(section)
           \/ /\ k <= Len(table) /\ Hits(table[k], client, snapshots, h[k])
              /\ \/ table[k].action = "route" /\ result = table[k].arg
                 \/ table[k].action = "reject" /\ result = Rejected

(* The table reads a rule-set at most once: there is one moment at which   *)
(* the whole evaluation could have happened.                               *)
ReadsOnce ==
    \A i, j \in 1..Len(rules) :
        \A k \in 1..Len(rules[i].sets), m \in 1..Len(rules[j].sets) : i = j /\ k = m

(* With at most one rule-set read, routing a session by Router::select is  *)
(* atomic although snapshots are swapped under it: the outcome is the      *)
(* documented one for a state of the rule-sets that was in force during    *)
(* the evaluation.                                                         *)
RoutingIsAtomic ==
    pc = "routed" /\ ReadsOnce => \E k \in 1..Len(span) : Documented(config, given, span[k], outcome)

(* The required fail-closed shape: wherever the reject rule stands in the  *)
(* table, Router::select never takes a protected session past it, to a     *)
(* later rule or to the final outbound, whatever the updates do.           *)
FailClosed ==
    \A i \in 1..Len(rules) :
        rules[i] = Deny /\ given.inbound = "protected" => index <= i

(* A protected session gets through the allow/reject pair at the head of a *)
(* table only if the whitelist had its transport address or destination at *)
(* some moment of the evaluation, and is turned away only if it had        *)
(* neither at some moment; a mapped address counts as the IPv4 address it  *)
(* maps.                                                                   *)
WhitelistDecides ==
    /\ pc = "routed" /\ given.inbound = "protected"
    /\ Len(rules) >= 2 /\ rules[1] = Allow /\ rules[2] = Deny
    => LET listed == {k \in 1..Len(span) : Listed(span[k]["whitelist"], given, given.host)}
       IN  \/ outcome = "direct" /\ listed # {}
           \/ outcome = Rejected /\ listed # 1..Len(span)

(* Router::select decides as the documentation says, although rule-sets    *)
(* are replaced while it runs, and keeps the source-policy contract of     *)
(* ARCHITECTURE.md.                                                        *)
RoutingIsSound == RoutingIsAtomic /\ FailClosed /\ WhitelistDecides
=============================================================================
