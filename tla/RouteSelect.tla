---------------------------- MODULE RouteSelect -----------------------------
(***************************************************************************)
(* Router::build's checks of the rule table, and Router::select for one    *)
(* session: rules in order, route-options rewriting the destination and    *)
(* going on, route and reject ending the evaluation, the final outbound    *)
(* for the rest.  Every rule-set a rule names is read under its own lock,  *)
(* and its snapshot may be replaced between two such reads.                *)
(*                                                                         *)
(* The conditions of a rule are reduced to the three that differ in kind:  *)
(* the inbound tag, the source address (which may be absent, and may be an *)
(* IPv4-mapped IPv6 address), and the destination (which route-options     *)
(* changes).  A snapshot is the set of source addresses and destinations   *)
(* its rules match.                                                        *)
(***************************************************************************)
EXTENDS Naturals, Sequences, FiniteSets

CONSTANTS Configs,          \* route sections considered: [rules, final]
          Sessions,         \* what an inbound hands to the router
          SetTags,          \* configured rule-sets
          Contents,         \* snapshots a rule-set may have
          Outbounds,        \* tags known to the outbound manager
          DefaultOutbound,  \* tag of the first outbound of the configuration
          MaxReplace        \* snapshots replaced while one session is routed

Actions == {"route", "route-options", "reject"}

ASSUME DefaultAssumption == DefaultOutbound \in Outbounds
ASSUME MaxReplaceAssumption == MaxReplace \in Nat
ASSUME ConfigsAssumption ==
    Configs \subseteq
        [rules : Seq([inbounds : SUBSET STRING, sources : SUBSET STRING, hosts : SUBSET STRING,
                      sets : Seq(STRING), invert : BOOLEAN, action : Actions, arg : STRING]),
         final : STRING]
ASSUME SessionsAssumption ==
    Sessions \subseteq
        [inbound : STRING, source : [ip : STRING, mapped : BOOLEAN], host : STRING]

Rejected == "rejected"

(* Mutant: a mapped address is left alone. *)
NormalizeNothing(source) == source

(* normalize_socket_addr: an IPv4-mapped IPv6 source is that IPv4 address. *)
Normalize(source) == [source EXCEPT !.mapped = FALSE]

(* The address conditions compare with. *)
SourceIs(session, ip) == Normalize(session.source) = [ip |-> ip, mapped |-> FALSE]

FinalOf(config) == IF config.final = "" THEN DefaultOutbound ELSE config.final

(* !RuleMatcher::is_empty() *)
HasConditions(rule) ==
    rule.inbounds # {} \/ rule.sources # {} \/ rule.hosts # {} \/ rule.sets # << >>

(* The checks of CompiledRule::compile on the action.  The argument stands *)
(* for what the action needs: the outbound, the overriding destination, or *)
(* the method (drop together with no_drop is not one of the three).        *)
ActionComplete(rule) ==
    \/ rule.action = "route" /\ rule.arg # ""
    \/ rule.action = "route-options" /\ rule.arg # ""
    \/ rule.action = "reject" /\ rule.arg \in {"", "default", "drop", "reply"}

(* Router::build: the final outbound, and every rule with what it names. *)
Builds(config) ==
    /\ FinalOf(config) \in Outbounds
    /\ \A i \in 1..Len(config.rules) :
         LET rule == config.rules[i]
         IN  /\ HasConditions(rule)
             /\ ActionComplete(rule)
             /\ \A k \in 1..Len(rule.sets) : rule.sets[k] \in SetTags
             /\ rule.action = "route" => rule.arg \in Outbounds

(* RuleMatcher::matches_base: every condition that is present must hold. *)
MatchesBase(rule, session) ==
    /\ rule.inbounds = {} \/ session.inbound \in rule.inbounds
    /\ rule.sources = {} \/ \E ip \in rule.sources : SourceIs(session, ip)
    /\ rule.hosts = {} \/ session.host \in rule.hosts

(* CompiledRuleSet::matches against one snapshot. *)
SetMatches(content, session) ==
    \/ session.host \in content
    \/ \E ip \in content : SourceIs(session, ip)

VARIABLES
    config, session,
    sets,       \* the active snapshots
    pc,         \* "build" | "idle" | "rule" | "sets" | "act" | "routed" | "refused"
    index,      \* current rule
    base,       \* result of matches_base for it
    next,       \* next rule-set of the rule to read
    hit,        \* some rule-set read so far matched
    outcome,    \* outbound tag, Rejected or "none"
    given,      \* history: the session as the inbound handed it over
    span        \* history: the snapshots in force since select() began

vars == <<config, session, sets, pc, index, base, next, hit, outcome, given, span>>

rules == config.rules

Init ==
    /\ config \in Configs
    /\ session \in Sessions
    /\ sets \in [SetTags -> Contents]
    /\ pc = "build"
    /\ index = 1
    /\ base = FALSE
    /\ next = 1
    /\ hit = FALSE
    /\ outcome = "none"
    /\ given = session
    /\ span = << >>
-----------------------------------------------------------------------------
(* Router::build *)
Build ==
    /\ pc = "build"
    /\ pc' = IF Builds(config) THEN "idle" ELSE "refused"
    /\ UNCHANGED <<config, session, sets, index, base, next, hit, outcome, given, span>>

(* CompiledRuleSet::replace by a watcher or an updater (RuleSetLocal,      *)
(* RuleSetRemote).                                                         *)
Replace(tag, content) ==
    /\ pc \in {"rule", "sets", "act"}
    /\ Len(span) <= MaxReplace
    /\ content # sets[tag]
    /\ sets' = [sets EXCEPT ![tag] = content]
    /\ span' = Append(span, sets')
    /\ UNCHANGED <<config, session, pc, index, base, next, hit, outcome, given>>

(* select(): the source is normalized before the first rule. *)
Select ==
    /\ pc = "idle"
    /\ session' = [session EXCEPT !.source = Normalize(@)]
    /\ span' = <<sets>>
    /\ pc' = "rule"
    /\ UNCHANGED <<config, sets, index, base, next, hit, outcome, given>>

(* RuleMatcher::matches, first half. *)
EvalBase ==
    /\ pc = "rule"
    /\ index <= Len(rules)
    /\ base' = MatchesBase(rules[index], session)
    /\ next' = 1
    /\ hit' = FALSE
    /\ pc' = "sets"
    /\ UNCHANGED <<config, session, sets, index, outcome, given, span>>

(* rule_sets.iter().any(...): one read lock per rule-set, until one hits.  *)
(* The sets are read whether or not the base conditions matched.           *)
ReadSet ==
    /\ pc = "sets"
    /\ ~hit
    /\ next <= Len(rules[index].sets)
    /\ hit' = SetMatches(sets[rules[index].sets[next]], session)
    /\ next' = next + 1
    /\ UNCHANGED <<config, session, sets, pc, index, base, outcome, given, span>>

(* Mutants: conditions and rule-sets are alternatives; a rule without      *)
(* rule-sets is taken for one whose rule-sets did not match.               *)
MatchedEither(rule) == (base \/ hit) # rule.invert
MatchedNeedsSet(rule) == (base /\ hit) # rule.invert

(* matched != self.invert *)
Matched(rule) == (base /\ (rule.sets = << >> \/ hit)) # rule.invert

(* ... and the loop of select() acts on the rule or goes on to the next.   *)
Decide ==
    /\ pc = "sets"
    /\ hit \/ next > Len(rules[index].sets)
    /\ \/ Matched(rules[index]) /\ pc' = "act" /\ UNCHANGED index
       \/ ~Matched(rules[index]) /\ pc' = "rule" /\ index' = index + 1
    /\ UNCHANGED <<config, session, sets, base, next, hit, outcome, given, span>>

RouteOptions ==
    /\ pc = "act"
    /\ rules[index].action = "route-options"
    /\ session' = [session EXCEPT !.host = rules[index].arg]
    /\ index' = index + 1
    /\ pc' = "rule"
    /\ UNCHANGED <<config, sets, base, next, hit, outcome, given, span>>

Terminate ==
    /\ pc = "act"
    /\ rules[index].action \in {"route", "reject"}
    /\ outcome' = IF rules[index].action = "route" THEN rules[index].arg ELSE Rejected
    /\ pc' = "routed"
    /\ UNCHANGED <<config, session, sets, index, base, next, hit, given, span>>

UseFinal ==
    /\ pc = "rule"
    /\ index > Len(rules)
    /\ outcome' = FinalOf(config)
    /\ pc' = "routed"
    /\ UNCHANGED <<config, session, sets, index, base, next, hit, given, span>>

Over ==
    /\ pc \in {"routed", "refused"}
    /\ UNCHANGED vars

Evaluate == EvalBase \/ ReadSet \/ Decide \/ RouteOptions \/ Terminate \/ UseFinal

Next ==
    \/ Build \/ Select \/ Evaluate
    \/ \E tag \in SetTags, content \in Contents : Replace(tag, content)
    \/ Over

Spec == Init /\ [][Next]_vars

-----------------------------------------------------------------------------
(* In particular the outcome is an outbound the manager knows: what        *)
(* Router::connect looks up after select() is there.                       *)
TypeOK ==
    /\ config \in Configs
    /\ sets \in [SetTags -> Contents]
    /\ pc \in {"build", "idle", "rule", "sets", "act", "routed", "refused"}
    /\ index \in 1..(Len(rules) + 1)
    /\ base \in BOOLEAN /\ hit \in BOOLEAN
    /\ next \in Nat
    /\ outcome \in Outbounds \cup {Rejected, "none"}
    /\ span \in Seq([SetTags -> Contents])
=============================================================================
