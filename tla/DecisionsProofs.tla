--------------------------- MODULE DecisionsProofs ---------------------------
(***************************************************************************)
(* The decisions taken while something else changes underneath: routing a  *)
(* session under changing rule-sets, for any rule table, and answering a   *)
(* request from a directory under change, for any number of releases, and  *)
(* an HTTP exchange of any redirect limit with a server that changes.      *)
(***************************************************************************)
EXTENDS MCRouteSelect, MasqueradeFiles, HttpExchange, SeqFacts
-----------------------------------------------------------------------------
(* The inductive invariant of routing.                                     *)
Evaluating == {"rule", "sets", "act"}

RuleType == [inbounds : SUBSET STRING, sources : SUBSET STRING, hosts : SUBSET STRING,
             sets : Seq(STRING), invert : BOOLEAN, action : Actions, arg : STRING]
ClientType == [inbound : STRING, source : [ip : STRING, mapped : BOOLEAN], host : STRING]

RouteTypes ==
    /\ config \in [rules : Seq(RuleType), final : STRING]
    /\ session \in ClientType /\ given \in ClientType
    /\ pc \in {"build", "idle", "routed", "refused"} \cup Evaluating
    /\ index \in Nat \ {0} /\ next \in Nat \ {0} /\ hit \in BOOLEAN
    /\ index <= Len(rules) + 1
    /\ Len(span) \in Nat /\ span \in Seq([SetTags -> Contents]) /\ sets \in [SetTags -> Contents]
    /\ session.inbound = given.inbound

(* What select() starts with, and that the last snapshots are in force. *)
Begun ==
    /\ pc \in {"build", "idle"} => session = given /\ index = 1 /\ span = << >>
    /\ pc \in Evaluating =>
        /\ session.source = Normalize(given.source)
        /\ span # << >> /\ span[Len(span)] = sets
    /\ pc = "refused" => index = 1

(* How far the rule at hand has been evaluated. *)
AtHand ==
    /\ pc \in {"sets", "act"} => index <= Len(rules)
    /\ pc = "sets" =>
        /\ base = MatchesBase(rules[index], session)
        /\ next <= Len(rules[index].sets) + 1
        /\ next = 1 => ~hit

(* A reading was true when it was made. *)
Seen(k) == Listed(span[k][rules[index].sets[next - 1]], given, session.host)
LastReading ==
    pc = "sets" /\ next > 1 =>
        \E k \in 1..Len(span) : hit <=> Seen(k)

(* No rule-set has been read yet, so that any moment will do. *)
Unread ==
    /\ \A k \in 1..(index - 1) : rules[k].sets = << >>
    /\ pc = "sets" => next = 1
    /\ pc = "act" => rules[index].sets = << >>

(* The evaluation so far is that of moment k. *)
Fits(k, h) ==
    /\ Walk(rules, given, span[k], index, h)
    /\ pc = "sets" /\ next > 1 => (hit <=> Seen(k))
    /\ pc = "act" => Hits(rules[index], given, span[k], session.host)

OneMoment ==
    ReadsOnce =>
        /\ pc \in Evaluating =>
             \E h \in [1..index -> Hosts(rules, given)] :
                 /\ h[index] = session.host
                 /\ \E k \in 1..Len(span) : Fits(k, h)
                 /\ Unread => \A k \in 1..Len(span) : Fits(k, h)
        /\ pc = "routed" => \E k \in 1..Len(span) : Documented(config, given, span[k], outcome)

(* The allow/reject pair at the head of a table. *)
Guarded ==
    /\ given.inbound = "protected"
    /\ Len(rules) >= 2 /\ rules[1] = Allow /\ rules[2] = Deny
InWhitelist(k) == Listed(span[k]["whitelist"], given, given.host)

PairSoFar ==
    Guarded =>
        /\ pc \in Evaluating => session.host = given.host
        /\ pc = "act" /\ index = 1 => \E k \in 1..Len(span) : InWhitelist(k)
        /\ pc \in Evaluating /\ index = 2 => \E k \in 1..Len(span) : ~InWhitelist(k)
        /\ pc = "routed" =>
             \/ outcome = "direct" /\ \E k \in 1..Len(span) : InWhitelist(k)
             \/ outcome = Rejected /\ \E k \in 1..Len(span) : ~InWhitelist(k)

RouteInv ==
    /\ RouteTypes /\ Begun /\ AtHand /\ LastReading /\ FailClosed /\ PairSoFar /\ OneMoment
-----------------------------------------------------------------------------
(* The conditions of a rule compare with the address the client came from. *)
LEMMA SourceFacts ==
  ASSUME RouteTypes, Begun, pc \in Evaluating
  PROVE  \A ip : SourceIs(session, ip) <=> given.source.ip = ip
<1> TAKE ip
<1>0. given.source \in [ip : STRING, mapped : BOOLEAN]  BY DEF RouteTypes, ClientType
<1>1. PICK a \in STRING : a = given.source.ip  BY <1>0
<1>2. session.source = [ip |-> a, mapped |-> FALSE]
  <2>1. session.source = [given.source EXCEPT !.mapped = FALSE]  BY DEF Begun, Normalize
  <2> QED  BY <1>0, <1>1, <2>1
<1>3. Normalize(session.source) = [ip |-> a, mapped |-> FALSE]
  <2>1. session.source \in [ip : STRING, mapped : BOOLEAN]  BY DEF RouteTypes, ClientType
  <2>2. a = session.source.ip  BY <1>2
  <2>3. PICK n : n = [session.source EXCEPT !.mapped = FALSE]  OBVIOUS
  <2>4. n = [ip |-> a, mapped |-> FALSE]  BY <2>1, <2>2, <2>3
  <2> QED  BY <2>3, <2>4 DEF Normalize
<1>4. [ip |-> a, mapped |-> FALSE] = [ip |-> ip, mapped |-> FALSE] <=> a = ip
  <2>1. [ip |-> a, mapped |-> FALSE].ip = a /\ [ip |-> ip, mapped |-> FALSE].ip = ip  OBVIOUS
  <2> QED  BY <2>1, Zenon
<1> QED  BY <1>1, <1>3, <1>4 DEF SourceIs

LEMMA MatchFacts ==
  ASSUME RouteTypes, Begun, pc \in Evaluating
  PROVE  /\ \A rule \in RuleType :
              MatchesBase(rule, session) <=>
                /\ rule.inbounds # {} => given.inbound \in rule.inbounds
                /\ rule.sources # {} => given.source.ip \in rule.sources
                /\ rule.hosts # {} => session.host \in rule.hosts
         /\ \A content : SetMatches(content, session) <=> Listed(content, given, session.host)
<1>1. ASSUME NEW rule \in RuleType
      PROVE  MatchesBase(rule, session) <=>
                /\ rule.inbounds # {} => given.inbound \in rule.inbounds
                /\ rule.sources # {} => given.source.ip \in rule.sources
                /\ rule.hosts # {} => session.host \in rule.hosts
  <2>1. (\E ip \in rule.sources : SourceIs(session, ip)) <=> given.source.ip \in rule.sources
    BY SourceFacts
  <2>2. session.inbound = given.inbound  BY DEF RouteTypes
  <2> QED  BY <2>1, <2>2 DEF MatchesBase
<1>2. ASSUME NEW content  PROVE SetMatches(content, session) <=> Listed(content, given, session.host)
  <2>1. (\E ip \in content : SourceIs(session, ip)) <=> given.source.ip \in content  BY SourceFacts
  <2> QED  BY <2>1 DEF SetMatches, Listed
<1> QED  BY <1>1, <1>2

(* Without rule-sets a rule does not depend on the moment.                 *)
LEMMA HitsAnyMoment ==
  ASSUME NEW rule, rule.sets = << >>, NEW client, NEW s, NEW t, NEW host
  PROVE  Hits(rule, client, s, host) = Hits(rule, client, t, host)
BY DEF Hits

(* One rule further.                                                       *)
LEMMA WalkFurther ==
  ASSUME NEW table, NEW client, NEW s, NEW k \in Nat \ {0}, NEW Names, NEW h \in [1..k -> Names],
         Walk(table, client, s, k, h), NEW host \in Names,
         Hits(table[k], client, s, h[k]) => table[k].action = "route-options" /\ host = table[k].arg,
         ~Hits(table[k], client, s, h[k]) => host = h[k],
         NEW further, further = [j \in 1..(k + 1) |-> IF j <= k THEN h[j] ELSE host]
  PROVE  /\ further \in [1..(k + 1) -> Names] /\ further[k + 1] = host
         /\ Walk(table, client, s, k + 1, further)
<1>1. k \in Nat \ {0} /\ \A j \in 1..(k + 1) : j <= k \/ j = k + 1  OBVIOUS
<1>2. further \in [1..(k + 1) -> Names]  BY <1>1
<1>3. k + 1 \in 1..(k + 1) /\ ~(k + 1 <= k) /\ 1 \in 1..(k + 1) /\ 1 <= k  OBVIOUS
<1>4. further[k + 1] = host /\ further[1] = h[1]  BY <1>3
<1>5. ASSUME NEW j \in 1..((k + 1) - 1)
      PROVE  IF Hits(table[j], client, s, further[j])
             THEN table[j].action = "route-options" /\ further[j + 1] = table[j].arg
             ELSE further[j + 1] = further[j]
  <2>1. CASE j = k
    <3>1. further[k] = h[k]  OBVIOUS
    <3> QED  BY <1>4, <2>1, <3>1
  <2>2. CASE j # k
    <3>1. j \in 1..(k - 1) /\ j <= k /\ j + 1 <= k /\ j \in 1..(k + 1) /\ j + 1 \in 1..(k + 1)  BY <2>2
    <3>2. further[j] = h[j] /\ further[j + 1] = h[j + 1]  BY <3>1
    <3> QED  BY <3>1, <3>2 DEF Walk
  <2> QED  BY <2>1, <2>2
<1>6. further[1] = client.host  BY <1>4 DEF Walk
<1> QED  BY <1>2, <1>4, <1>5, <1>6 DEF Walk
-----------------------------------------------------------------------------
LEMMA RouteInitInv == Init => RouteInv
<1> SUFFICES ASSUME Init  PROVE RouteInv  OBVIOUS
<1>1. config \in [rules : Seq(RuleType), final : STRING] /\ session \in ClientType /\ given = session
  BY ConfigsAssumption, SessionsAssumption DEF Init, RuleType, ClientType
<1>2. << >> \in Seq([SetTags -> Contents]) /\ Len(<< >>) = 0  BY EmptySeq
<1>3. rules \in Seq(RuleType) /\ Len(rules) \in Nat  BY <1>1 DEF rules
<1>4. RouteTypes
  <2>1. /\ sets \in [SetTags -> Contents] /\ pc = "build" /\ index = 1 /\ next = 1 /\ hit = FALSE
        /\ span = << >>
    BY DEF Init
  <2>2. /\ session.inbound = given.inbound /\ index <= Len(rules) + 1
        /\ index \in Nat \ {0} /\ next \in Nat \ {0}
        /\ pc \in {"build", "idle", "routed", "refused"} \cup Evaluating
    BY <1>1, <1>3, <2>1
  <2>4. hit \in BOOLEAN  BY <2>1
  <2>3. Len(span) \in Nat /\ span \in Seq([SetTags -> Contents])  BY <1>2, <2>1
  <2> QED  BY <1>1, <1>2, <1>3, <2>1, <2>2, <2>3, <2>4 DEF RouteTypes
<1>5. pc = "build" /\ index = 1 /\ span = << >>  BY DEF Init
<1>6. \A i \in 1..Len(rules) : index <= i  BY <1>5
<1> QED
  BY <1>1, <1>4, <1>5, <1>6
  DEF RouteInv, Begun, AtHand, LastReading, FailClosed, PairSoFar, OneMoment, Evaluating

LEMMA RuleFacts ==
  ASSUME RouteTypes
  PROVE  /\ rules \in Seq(RuleType) /\ Len(rules) \in Nat
         /\ \A i \in 1..Len(rules) :
              /\ rules[i] \in RuleType
              /\ rules[i].sets \in Seq(STRING) /\ Len(rules[i].sets) \in Nat
              /\ rules[i].sets = << >> <=> Len(rules[i].sets) = 0
<1>1. rules \in Seq(RuleType)  BY DEF RouteTypes, rules
<1>2. \A i \in 1..Len(rules) : rules[i] \in RuleType  BY <1>1
<1>3. \A i \in 1..Len(rules) : rules[i].sets \in Seq(STRING)  BY <1>2 DEF RuleType
<1> QED  BY <1>1, <1>2, <1>3, EmptySeq

(* The steps that change neither the snapshots nor the rule at hand.       *)
LEMMA BuildInv == RouteInv /\ Build => RouteInv'
<1> SUFFICES ASSUME RouteInv, Build  PROVE RouteInv'  OBVIOUS
<1>1. /\ pc = "build" /\ pc' \in {"idle", "refused"}
      /\ session' = given' /\ index' = 1 /\ span' = << >> /\ rules' = rules
  BY DEF Build, RouteInv, Begun, rules
<1>2. RouteTypes'  BY <1>1 DEF Build, RouteInv, RouteTypes, rules
<1> QED
  BY <1>1, <1>2, \A i \in 1..Len(rules) : 1 <= i
  DEF RouteInv, Begun, AtHand, LastReading, FailClosed, PairSoFar, OneMoment, Evaluating

LEMMA SelectInv == RouteInv /\ Select => RouteInv'
<1> SUFFICES ASSUME RouteInv, Select  PROVE RouteInv'  OBVIOUS
<1>1. RouteTypes  BY DEF RouteInv
<1>2. /\ pc = "idle" /\ pc' = "rule" /\ session = given /\ index = 1 /\ index' = 1
      /\ rules' = rules /\ given' = given /\ sets' = sets /\ config' = config
      /\ hit' = hit /\ next' = next /\ span' = <<sets>>
  BY DEF Select, RouteInv, Begun, rules
<1>3. /\ session' \in ClientType /\ session'.source = Normalize(given.source)
      /\ session'.host = given.host /\ session'.inbound = given.inbound
  <2>1. PICK source : source = Normalize(session.source)  OBVIOUS
  <2>2. source \in [ip : STRING, mapped : BOOLEAN]
    <3>1. session.source \in [ip : STRING, mapped : BOOLEAN]  BY <1>1 DEF RouteTypes, ClientType
    <3>2. source = [session.source EXCEPT !.mapped = FALSE]  BY <2>1 DEF Normalize
    <3> QED  BY <3>1, <3>2
  <2>3. session' = [session EXCEPT !.source = source]  BY <2>1 DEF Select
  <2> QED  BY <1>1, <1>2, <2>1, <2>2, <2>3 DEF RouteTypes, ClientType
<1>4. span' \in Seq([SetTags -> Contents]) /\ Len(span') = 1 /\ span'[1] = sets /\ span' # << >>
  BY <1>1, <1>2, EmptySeq DEF RouteTypes
<1>5. RouteTypes'  BY <1>1, <1>2, <1>3, <1>4 DEF RouteTypes, rules, Evaluating
<1>6. Begun' /\ AtHand' /\ LastReading'
  BY <1>2, <1>3, <1>4 DEF Begun, AtHand, LastReading, Evaluating
<1>7. FailClosed' /\ PairSoFar'
  BY <1>2, <1>3, \A i \in 1..Len(rules) : 1 <= i DEF FailClosed, PairSoFar
<1>8. OneMoment'
  <2>0. PICK h : h = [j \in 1..1 |-> given.host]  OBVIOUS
  <2>1. h \in [1..1 -> Hosts(rules, given)] /\ h[1] = given.host  BY <2>0 DEF Hosts
  <2>2. \A s : Walk(rules, given, s, 1, h)  BY <2>1 DEF Walk
  <2>3. \A k \in 1..Len(span') : Fits(k, h)'  BY <1>2, <2>2 DEF Fits
  <2>4. h[index'] = session'.host /\ h \in [1..index' -> Hosts(rules', given')]
    BY <1>2, <1>3, <2>1
  <2>5. \E k \in 1..Len(span') : Fits(k, h)'  BY <1>4, <2>3
  <2> QED  BY <1>2, <2>3, <2>4, <2>5 DEF OneMoment
<1> QED  BY <1>5, <1>6, <1>7, <1>8 DEF RouteInv

LEMMA EvalBaseInv == RouteInv /\ EvalBase => RouteInv'
<1> SUFFICES ASSUME RouteInv, EvalBase  PROVE RouteInv'  OBVIOUS
<1>1. RouteTypes  BY DEF RouteInv
<1>2. /\ pc = "rule" /\ pc' = "sets" /\ index' = index /\ index <= Len(rules)
      /\ rules' = rules /\ given' = given /\ sets' = sets /\ config' = config
      /\ session' = session /\ span' = span
      /\ next' = 1 /\ base' = MatchesBase(rules[index], session) /\ hit' = FALSE
  BY DEF EvalBase, rules
<1>3. RouteTypes'
  <2>1. hit' \in BOOLEAN  BY <1>2
  <2> QED  BY <1>1, <1>2, <2>1 DEF RouteTypes, Evaluating
<1>4. Begun'  BY <1>2 DEF RouteInv, Begun, Evaluating
<1>5. AtHand'
  <2>1. base' = MatchesBase(rules[index], session)'  BY <1>2 DEF MatchesBase, SourceIs
  <2>2. Len(rules[index].sets) \in Nat  BY <1>1, <1>2, RuleFacts DEF RouteTypes
  <2>3. (next <= Len(rules[index].sets) + 1)'  BY <1>2, <2>2
  <2> QED  BY <1>2, <2>1, <2>3 DEF AtHand
<1>6. LastReading'  BY <1>2 DEF LastReading
<1>7. FailClosed'  BY <1>2 DEF RouteInv, FailClosed
<1>8. PairSoFar'  BY <1>2 DEF RouteInv, PairSoFar, Guarded, InWhitelist, Evaluating
<1>9. OneMoment'
  <2>1. SUFFICES ASSUME ReadsOnce'
        PROVE  \E h \in [1..index -> Hosts(rules, given)] :
                 /\ h[index] = session.host
                 /\ \E k \in 1..Len(span) : Fits(k, h)'
                 /\ Unread' => \A k \in 1..Len(span) : Fits(k, h)'
    BY <1>2 DEF OneMoment
  <2>2. ReadsOnce  BY <1>2, <2>1 DEF ReadsOnce
  <2>3. PICK h \in [1..index -> Hosts(rules, given)] :
                 /\ h[index] = session.host
                 /\ \E k \in 1..Len(span) : Fits(k, h)
                 /\ Unread => \A k \in 1..Len(span) : Fits(k, h)
    BY <1>2, <2>2 DEF RouteInv, OneMoment, Evaluating
  <2>4. \A k : Fits(k, h) => Fits(k, h)'  BY <1>2 DEF Fits
  <2>5. Unread' => Unread  BY <1>2 DEF Unread
  <2> QED  BY <2>3, <2>4, <2>5
<1> QED  BY <1>3, <1>4, <1>5, <1>6, <1>7, <1>8, <1>9 DEF RouteInv

(* A table that reads one rule-set reads its first moment at that reading. *)
LEMMA ReadSetInv == RouteInv /\ ReadSet => RouteInv'
<1> SUFFICES ASSUME RouteInv, ReadSet  PROVE RouteInv'  OBVIOUS
<1>1. RouteTypes /\ Begun /\ AtHand  BY DEF RouteInv
<1>2. /\ pc = "sets" /\ pc' = "sets" /\ ~hit /\ next <= Len(rules[index].sets) /\ next' = next + 1
      /\ index' = index /\ rules' = rules /\ given' = given /\ sets' = sets /\ config' = config
      /\ session' = session /\ span' = span /\ base' = base
      /\ hit' = SetMatches(sets[rules[index].sets[next]], session)
  BY DEF ReadSet, rules
<1>3. pc \in Evaluating /\ pc' \in Evaluating  BY <1>2 DEF Evaluating
<1>4. index \in 1..Len(rules) /\ next \in Nat \ {0} /\ index \in Nat \ {0}
  BY <1>1, <1>2, RuleFacts DEF RouteTypes, AtHand
<1>5. Len(rules[index].sets) \in Nat /\ next \in 1..Len(rules[index].sets)
  BY <1>1, <1>2, <1>4, RuleFacts
<1>6. PICK last \in 1..Len(span) : span[last] = sets
  BY <1>1, <1>3, EmptySeq DEF Begun, RouteTypes
<1>7. hit' <=> Seen(last)'
  <2>1. hit' <=> Listed(sets[rules[index].sets[next]], given, session.host)
    BY <1>1, <1>2, <1>3, MatchFacts
  <2>2. next' - 1 = next  BY <1>2, <1>4
  <2> QED  BY <1>2, <1>6, <2>1, <2>2 DEF Seen
<1>8. RouteTypes'
  <2>1. hit' \in BOOLEAN  BY <1>2 DEF SetMatches
  <2>2. next' \in Nat \ {0}  BY <1>2, <1>4
  <2> QED  BY <1>1, <1>2, <2>1, <2>2 DEF RouteTypes
<1>9. Begun'  BY <1>1, <1>2 DEF Begun, Evaluating
<1>10. AtHand'
  <2>1. base' = MatchesBase(rules[index], session)'
    BY <1>1, <1>2 DEF AtHand, MatchesBase, SourceIs
  <2>2. next' <= Len(rules[index].sets) + 1 /\ next' # 1  BY <1>2, <1>4, <1>5
  <2>3. (next <= Len(rules[index].sets) + 1)'  BY <1>2, <2>2
  <2> QED  BY <1>1, <1>2, <2>1, <2>2, <2>3 DEF AtHand
<1>11. LastReading'  BY <1>2, <1>6, <1>7 DEF LastReading
<1>12. FailClosed'  BY <1>2 DEF RouteInv, FailClosed
<1>13. PairSoFar'  BY <1>2 DEF RouteInv, PairSoFar, Guarded, InWhitelist
<1>14. OneMoment'
  <2>1. SUFFICES ASSUME ReadsOnce'
        PROVE  \E h \in [1..index -> Hosts(rules, given)] :
                 /\ h[index] = session.host
                 /\ \E k \in 1..Len(span) : Fits(k, h)'
                 /\ Unread' => \A k \in 1..Len(span) : Fits(k, h)'
    BY <1>2 DEF OneMoment
  <2>2. ReadsOnce  BY <1>2, <2>1 DEF ReadsOnce
  <2>3. PICK h \in [1..index -> Hosts(rules, given)] :
                 /\ h[index] = session.host
                 /\ Unread => \A k \in 1..Len(span) : Fits(k, h)
    BY <1>3, <2>2 DEF RouteInv, OneMoment
  <2>4. next = 1
    <3>1. 1 \in 1..Len(rules[index].sets)  BY <1>5
    <3> QED  BY <1>4, <1>5, <2>2, <3>1 DEF ReadsOnce
  <2>5. Unread
    <3>1. ASSUME NEW k \in 1..(index - 1)  PROVE rules[k].sets = << >>
      <4>1. k \in 1..Len(rules) /\ k # index  BY <1>1, <1>4, RuleFacts
      <4>2. ASSUME NEW m \in 1..Len(rules[k].sets)  PROVE FALSE
        BY <1>4, <1>5, <2>2, <4>1 DEF ReadsOnce
      <4>3. Len(rules[k].sets) \in Nat  BY <1>1, <4>1, RuleFacts
      <4>4. Len(rules[k].sets) = 0  BY <4>2, <4>3
      <4> QED  BY <1>1, <4>1, <4>4, RuleFacts
    <3> QED  BY <1>2, <2>4, <3>1 DEF Unread
  <2>6. Fits(last, h)'
    <3>1. Fits(last, h)  BY <1>6, <2>3, <2>5
    <3> QED  BY <1>2, <1>7, <3>1 DEF Fits
  <2>7. ~Unread'  BY <1>2, <1>4 DEF Unread
  <2> QED  BY <1>6, <2>3, <2>6, <2>7
<1> QED  BY <1>8, <1>9, <1>10, <1>11, <1>12, <1>13, <1>14 DEF RouteInv

(* New snapshots are one more moment, at which what has been read so far   *)
(* still holds as long as no rule-set has been read.                       *)
LEMMA ReplaceInv ==
  ASSUME NEW tag \in SetTags, NEW content \in Contents
  PROVE  RouteInv /\ Replace(tag, content) => RouteInv'
<1> SUFFICES ASSUME RouteInv, Replace(tag, content)  PROVE RouteInv'  OBVIOUS
<1>1. RouteTypes /\ Begun /\ AtHand  BY DEF RouteInv
<1>2. /\ pc \in Evaluating /\ pc' = pc /\ next' = next /\ hit' = hit /\ base' = base
      /\ index' = index /\ rules' = rules /\ given' = given /\ config' = config
      /\ session' = session /\ sets' = [sets EXCEPT ![tag] = content] /\ span' = Append(span, sets')
  BY DEF Replace, rules, Evaluating
<1>3. sets' \in [SetTags -> Contents] /\ span \in Seq([SetTags -> Contents]) /\ Len(span) \in Nat
  BY <1>1, <1>2 DEF RouteTypes
<1>4. /\ span' \in Seq([SetTags -> Contents]) /\ Len(span') = Len(span) + 1
      /\ \A k \in 1..Len(span) : k \in 1..Len(span') /\ span'[k] = span[k]
      /\ span'[Len(span')] = sets' /\ span' # << >> /\ Len(span') \in 1..Len(span')
  BY <1>2, <1>3, EmptySeq
<1>5. RouteTypes'  BY <1>1, <1>2, <1>3, <1>4 DEF RouteTypes
<1>6. Begun'  BY <1>1, <1>2, <1>4 DEF Begun, Evaluating
<1>7. AtHand'
  <2>1. MatchesBase(rules[index], session)' = MatchesBase(rules[index], session)
    BY <1>2 DEF MatchesBase, SourceIs
  <2> QED  BY <1>1, <1>2, <2>1 DEF AtHand
<1>8. LastReading'
  <2> SUFFICES ASSUME pc = "sets", next > 1  PROVE \E k \in 1..Len(span') : hit' <=> Seen(k)'
    BY <1>2 DEF LastReading
  <2>1. PICK k \in 1..Len(span) : hit <=> Seen(k)  BY DEF RouteInv, LastReading
  <2> QED  BY <1>2, <1>4, <2>1 DEF Seen
<1>9. FailClosed'  BY <1>2 DEF RouteInv, FailClosed
<1>10. PairSoFar'
  <2>1. Guarded' = Guarded  BY <1>2 DEF Guarded
  <2>2. \A k \in 1..Len(span) : InWhitelist(k)' = InWhitelist(k)  BY <1>2, <1>4 DEF InWhitelist
  <2> QED  BY <1>2, <1>4, <2>1, <2>2 DEF RouteInv, PairSoFar, Evaluating
<1>11. OneMoment'
  <2>1. SUFFICES ASSUME ReadsOnce'
        PROVE  \E h \in [1..index -> Hosts(rules, given)] :
                 /\ h[index] = session.host
                 /\ \E k \in 1..Len(span') : Fits(k, h)'
                 /\ Unread' => \A k \in 1..Len(span') : Fits(k, h)'
    BY <1>2 DEF OneMoment, Evaluating
  <2>2. ReadsOnce  BY <1>2, <2>1 DEF ReadsOnce
  <2>3. PICK h \in [1..index -> Hosts(rules, given)] :
                 /\ h[index] = session.host
                 /\ \E k \in 1..Len(span) : Fits(k, h)
                 /\ Unread => \A k \in 1..Len(span) : Fits(k, h)
    BY <1>2, <2>2 DEF RouteInv, OneMoment
  <2>4. \A k \in 1..Len(span) : Fits(k, h)' = Fits(k, h)  BY <1>2, <1>4 DEF Fits, Seen
  <2>5. ASSUME Unread', NEW last \in 1..Len(span'), last = Len(span')  PROVE Fits(last, h)'
    <3>1. Unread  BY <1>2, <2>5 DEF Unread
    <3>2. PICK k \in 1..Len(span) : Fits(k, h)  BY <2>3
    <3>3. ~(pc = "sets" /\ next > 1)  BY <1>1, <3>1 DEF Unread, RouteTypes
    <3>4. Walk(rules, given, sets', index, h)
      <4>1. \A j \in 1..(index - 1) :
              Hits(rules[j], given, sets', h[j]) = Hits(rules[j], given, span[k], h[j])
        BY <3>1, HitsAnyMoment DEF Unread
      <4>2. Walk(rules, given, span[k], index, h)  BY <3>2 DEF Fits
      <4> QED  BY <4>1, <4>2 DEF Walk
    <3>5. pc = "act" => Hits(rules[index], given, sets', session.host)
      <4>1. pc = "act" => Hits(rules[index], given, span[k], session.host)  BY <3>2 DEF Fits
      <4> QED  BY <3>1, <4>1, HitsAnyMoment DEF Unread
    <3> QED  BY <1>2, <1>4, <2>5, <3>3, <3>4, <3>5 DEF Fits
  <2>6. Unread' => Unread  BY <1>2 DEF Unread
  <2>7. \A k \in 1..Len(span') : k \in 1..Len(span) \/ k = Len(span')  BY <1>3, <1>4
  <2> QED  BY <1>4, <2>3, <2>4, <2>5, <2>6, <2>7
<1> QED  BY <1>5, <1>6, <1>7, <1>8, <1>9, <1>10, <1>11 DEF RouteInv

(* What Decide makes of a rule with at most one rule-set is what the       *)
(* reference says of the moment that rule-set was read at.                 *)
LEMMA DecideFacts ==
  ASSUME RouteInv, pc = "sets", hit \/ next > Len(rules[index].sets), Len(rules[index].sets) <= 1,
         NEW k, next > 1 => (hit <=> Seen(k))
  PROVE  Matched(rules[index]) <=> Hits(rules[index], given, span[k], session.host)
<1>1. RouteTypes /\ Begun /\ AtHand /\ pc \in Evaluating  BY DEF RouteInv, Evaluating
<1>2. index \in 1..Len(rules) /\ next \in Nat \ {0}
  BY <1>1, RuleFacts DEF RouteTypes, AtHand
<1>3. /\ rules[index] \in RuleType /\ Len(rules[index].sets) \in Nat
      /\ rules[index].sets = << >> <=> Len(rules[index].sets) = 0
  BY <1>1, <1>2, RuleFacts
<1>9. Len(rules[index].sets) = 0 \/ Len(rules[index].sets) = 1
  <2>1. PICK n \in Nat : n = Len(rules[index].sets)  BY <1>3
  <2>2. n <= 1  BY <2>1
  <2>3. n = 0 \/ n = 1  BY <2>2
  <2> QED  BY <2>1, <2>3
<1> DEFINE rule == rules[index]
           basics == /\ rule.inbounds # {} => given.inbound \in rule.inbounds
                     /\ rule.sources # {} => given.source.ip \in rule.sources
                     /\ rule.hosts # {} => session.host \in rule.hosts
           onList == rule.sets # << >> =>
                       \E m \in 1..Len(rule.sets) :
                          Listed(span[k][rule.sets[m]], given, session.host)
<1>4. base <=> basics  BY <1>1, <1>3, MatchFacts DEF AtHand
<1>5. (rule.sets = << >> \/ hit) <=> onList
  <2>1. CASE Len(rule.sets) = 0
    <3>1. rule.sets = << >>  BY <1>3, <2>1
    <3> QED  BY <3>1, Zenon
  <2>2. CASE Len(rule.sets) # 0
    <3>0. Len(rule.sets) = 1  BY <1>9, <2>2
    <3>1. Len(rule.sets) = 1 /\ 1..Len(rule.sets) = {1}  BY <3>0
    <3>2. next = 2 /\ next > 1 /\ next - 1 = 1  BY <1>1, <1>2, <3>1 DEF AtHand
    <3>3. hit <=> Listed(span[k][rule.sets[1]], given, session.host)  BY <3>2 DEF Seen
    <3> QED  BY <1>3, <3>1, <3>3
  <2> QED  BY <2>1, <2>2
<1> HIDE DEF rule
<1>6. base \in BOOLEAN /\ rule.invert \in BOOLEAN
  BY <1>1, <1>3 DEF AtHand, MatchesBase, RuleType, rule
<1>7. Matched(rule) <=> ((basics /\ onList) # rule.invert)
  <2>1. (base /\ (rule.sets = << >> \/ hit)) <=> (basics /\ onList)  BY <1>4, <1>5
  <2> HIDE DEF basics, onList
  <2> QED  BY <1>6, <2>1 DEF Matched
<1>8. Hits(rule, given, span[k], session.host) <=> ((basics /\ onList) # rule.invert)
  BY DEF Hits
<1> QED  BY <1>7, <1>8 DEF rule

(* The pair that keeps the source policy, as the evaluation finds it.      *)
LEMMA PairFacts ==
  ASSUME RouteInv, pc = "sets", given.inbound = "protected"
  PROVE  /\ rules[index] = Deny => Matched(rules[index])
         /\ rules[index] = Allow => (Matched(rules[index]) <=> hit)
<1>1. RouteTypes /\ Begun /\ AtHand /\ pc \in Evaluating  BY DEF RouteInv, Evaluating
<1>2. index \in 1..Len(rules) /\ rules[index] \in RuleType
  BY <1>1, RuleFacts DEF RouteTypes, AtHand
<1>3. base <=>
        /\ rules[index].inbounds # {} => given.inbound \in rules[index].inbounds
        /\ rules[index].sources # {} => given.source.ip \in rules[index].sources
        /\ rules[index].hosts # {} => session.host \in rules[index].hosts
  BY <1>1, <1>2, MatchFacts DEF AtHand
<1>4. hit \in BOOLEAN  BY <1>1 DEF RouteTypes
<1>5. ASSUME rules[index] = Deny  PROVE Matched(rules[index])
  <2>1. /\ rules[index].inbounds = {"protected"} /\ rules[index].sources = {}
        /\ rules[index].hosts = {} /\ rules[index].sets = << >> /\ rules[index].invert = FALSE
    BY <1>5 DEF Deny, Rule
  <2>2. base  BY <1>3, <2>1
  <2> QED  BY <2>1, <2>2 DEF Matched
<1>6. ASSUME rules[index] = Allow  PROVE Matched(rules[index]) <=> hit
  <2>1. /\ rules[index].inbounds = {"protected"} /\ rules[index].sources = {}
        /\ rules[index].hosts = {} /\ rules[index].sets # << >> /\ rules[index].invert = FALSE
    BY <1>6, EmptySeq DEF Allow, Rule
  <2>2. base  BY <1>3, <2>1
  <2> QED  BY <1>4, <2>1, <2>2 DEF Matched
<1> QED  BY <1>5, <1>6

LEMMA DecideInv == RouteInv /\ Decide => RouteInv'
<1> SUFFICES ASSUME RouteInv, Decide  PROVE RouteInv'  OBVIOUS
<1>1. RouteTypes /\ Begun /\ AtHand  BY DEF RouteInv
<1>2. /\ pc = "sets" /\ (hit \/ next > Len(rules[index].sets)) /\ next' = next /\ hit' = hit
      /\ base' = base /\ rules' = rules /\ given' = given /\ sets' = sets /\ config' = config
      /\ session' = session /\ span' = span
      /\ \/ Matched(rules[index]) /\ pc' = "act" /\ index' = index
         \/ ~Matched(rules[index]) /\ pc' = "rule" /\ index' = index + 1
  BY DEF Decide, rules
<1>3. pc \in Evaluating /\ pc' \in Evaluating  BY <1>2 DEF Evaluating
<1>4. index \in 1..Len(rules) /\ next \in Nat \ {0} /\ index \in Nat \ {0} /\ Len(rules) \in Nat
  BY <1>1, <1>2, RuleFacts DEF RouteTypes, AtHand
<1>5. RouteTypes'
  <2>1. index' \in Nat \ {0} /\ index' <= Len(rules) + 1  BY <1>2, <1>4
  <2> QED  BY <1>1, <1>2, <1>3, <2>1 DEF RouteTypes
<1>6. Begun'  BY <1>1, <1>2, <1>3 DEF Begun, Evaluating
<1>7. AtHand' /\ LastReading'  BY <1>2, <1>4 DEF AtHand, LastReading
<1>8. FailClosed'
  <2> SUFFICES ASSUME NEW i \in 1..Len(rules), rules[i] = Deny, given.inbound = "protected"
               PROVE  index' <= i
    BY <1>2 DEF FailClosed
  <2>1. index <= i  BY DEF RouteInv, FailClosed
  <2>2. index = i => index' = index  BY <1>2, PairFacts
  <2> QED  BY <1>2, <1>4, <2>1, <2>2
<1>9. PairSoFar'
  <2> SUFFICES ASSUME Guarded
               PROVE  /\ session.host = given.host
                      /\ pc' = "act" /\ index' = 1 => \E k \in 1..Len(span) : InWhitelist(k)
                      /\ index' = 2 => \E k \in 1..Len(span) : ~InWhitelist(k)
    BY <1>2 DEF PairSoFar, Guarded, InWhitelist, Evaluating
  <2>1. /\ session.host = given.host
        /\ index = 2 => \E k \in 1..Len(span) : ~InWhitelist(k)
    BY <1>3 DEF RouteInv, PairSoFar
  <2>2. ASSUME index = 1  PROVE \E k \in 1..Len(span) : Matched(rules[index]) <=> InWhitelist(k)
    <3>1. rules[1] = Allow /\ rules[index].sets = <<"whitelist">> /\ Len(rules[index].sets) = 1
      BY <2>2 DEF Guarded, Allow, Rule
    <3>2. Matched(rules[index]) <=> hit  BY <1>2, <2>2, <3>1, PairFacts DEF Guarded
    <3>3. next = 2 /\ next > 1 /\ next - 1 = 1  BY <1>1, <1>2, <1>4, <3>1 DEF AtHand
    <3>4. PICK k \in 1..Len(span) : hit <=> Seen(k)  BY <1>2, <3>3 DEF RouteInv, LastReading
    <3>5. rules[index].sets[next - 1] = "whitelist"  BY <3>1, <3>3
    <3>6. Seen(k) <=> InWhitelist(k)  BY <2>1, <3>5 DEF Seen, InWhitelist
    <3> QED  BY <3>2, <3>4, <3>6
  <2> QED  BY <1>2, <1>4, <2>1, <2>2
<1>10. OneMoment'
  <2>1. SUFFICES ASSUME ReadsOnce'
        PROVE  \E h \in [1..index' -> Hosts(rules, given)] :
                 /\ h[index'] = session.host
                 /\ \E k \in 1..Len(span) : Fits(k, h)'
                 /\ Unread' => \A k \in 1..Len(span) : Fits(k, h)'
    BY <1>2 DEF OneMoment, Evaluating
  <2>2. ReadsOnce  BY <1>2, <2>1 DEF ReadsOnce
  <2>3. PICK h \in [1..index -> Hosts(rules, given)] :
                 /\ h[index] = session.host
                 /\ \E k \in 1..Len(span) : Fits(k, h)
                 /\ Unread => \A k \in 1..Len(span) : Fits(k, h)
    BY <1>3, <2>2 DEF RouteInv, OneMoment
  <2>4. Len(rules[index].sets) <= 1
    <3>1. Len(rules[index].sets) \in Nat  BY <1>1, <1>4, RuleFacts
    <3> SUFFICES ASSUME Len(rules[index].sets) > 1  PROVE FALSE  BY <3>1
    <3>2. 1 \in 1..Len(rules[index].sets) /\ 2 \in 1..Len(rules[index].sets)  BY <3>1
    <3> QED  BY <1>4, <2>2, <3>2 DEF ReadsOnce
  <2>5. ASSUME NEW k, Fits(k, h)
        PROVE  Matched(rules[index]) <=> Hits(rules[index], given, span[k], session.host)
    <3>1. next > 1 => (hit <=> Seen(k))  BY <1>2, <2>5 DEF Fits
    <3> QED  BY <1>2, <2>4, <3>1, DecideFacts
  <2>6. CASE Matched(rules[index]) /\ pc' = "act" /\ index' = index
    <3>1. ASSUME NEW k, Fits(k, h)  PROVE Fits(k, h)'
      BY <1>2, <2>5, <2>6, <3>1 DEF Fits
    <3>2. Unread' => Unread
      <4> SUFFICES ASSUME Unread'  PROVE next = 1  BY <1>2, <2>6 DEF Unread
      <4>1. rules[index].sets = << >>  BY <1>2, <2>6 DEF Unread
      <4>2. Len(rules[index].sets) = 0  BY <1>1, <1>4, <4>1, RuleFacts
      <4> QED  BY <1>1, <1>2, <1>4, <4>2 DEF AtHand
    <3> QED  BY <2>3, <2>6, <3>1, <3>2
  <2>7. CASE ~Matched(rules[index]) /\ pc' = "rule" /\ index' = index + 1
    <3>1. PICK further : further = [j \in 1..(index + 1) |-> IF j <= index THEN h[j] ELSE session.host]
      OBVIOUS
    <3>2. session.host \in Hosts(rules, given)
      <4>1. index \in 1..index  BY <1>4
      <4> QED  BY <2>3, <4>1
    <3>3. ASSUME NEW k, Fits(k, h)
          PROVE  /\ further \in [1..(index + 1) -> Hosts(rules, given)]
                 /\ further[index + 1] = session.host
                 /\ Walk(rules, given, span[k], index + 1, further)
      <4>1. ~Hits(rules[index], given, span[k], h[index])  BY <2>3, <2>5, <2>7, <3>3
      <4>2. Walk(rules, given, span[k], index, h)  BY <3>3 DEF Fits
      <4>3. session.host = h[index]  BY <2>3
      <4>4. index \in Nat \ {0} /\ h \in [1..index -> Hosts(rules, given)]  BY <1>4
      <4> QED  BY SMTT(30), <3>1, <3>2, <4>1, <4>2, <4>3, <4>4, WalkFurther
    <3>4. ASSUME NEW k, Fits(k, h)  PROVE Fits(k, further)'
      BY <1>2, <2>7, <3>3, <3>4 DEF Fits
    <3>5. Unread' => Unread
      <4> SUFFICES ASSUME Unread'  PROVE Unread  OBVIOUS
      <4>1. \A j \in 1..index : rules[j].sets = << >>  BY <1>2, <1>4, <2>7 DEF Unread
      <4>2. Len(rules[index].sets) = 0  BY <1>1, <1>4, <4>1, RuleFacts
      <4>3. next = 1  BY <1>1, <1>2, <1>4, <4>2 DEF AtHand
      <4> QED  BY <1>2, <1>4, <4>1, <4>3 DEF Unread
    <3> QED  BY <2>3, <2>7, <3>3, <3>4, <3>5
  <2> QED  BY <1>2, <2>6, <2>7
<1> QED  BY <1>5, <1>6, <1>7, <1>8, <1>9, <1>10 DEF RouteInv

LEMMA RouteOptionsInv == RouteInv /\ RouteOptions => RouteInv'
<1> SUFFICES ASSUME RouteInv, RouteOptions  PROVE RouteInv'  OBVIOUS
<1>1. RouteTypes /\ Begun /\ AtHand  BY DEF RouteInv
<1>2. /\ pc = "act" /\ pc' = "rule" /\ rules[index].action = "route-options"
      /\ index' = index + 1 /\ session' = [session EXCEPT !.host = rules[index].arg]
      /\ rules' = rules /\ given' = given /\ sets' = sets /\ config' = config /\ span' = span
      /\ next' = next /\ hit' = hit
  BY DEF RouteOptions, rules
<1>3. pc \in Evaluating /\ pc' \in Evaluating  BY <1>2 DEF Evaluating
<1>4. index \in 1..Len(rules) /\ index \in Nat \ {0} /\ Len(rules) \in Nat
  BY <1>1, <1>2, RuleFacts DEF RouteTypes, AtHand
<1>5. rules[index] \in RuleType /\ rules[index].arg \in STRING
  BY <1>1, <1>4, RuleFacts DEF RuleType
<1>6. /\ session' \in ClientType /\ session'.host = rules[index].arg
      /\ session'.source = session.source /\ session'.inbound = session.inbound
  BY <1>1, <1>2, <1>5 DEF RouteTypes, ClientType
<1>7. RouteTypes'
  <2>1. index' \in Nat \ {0} /\ index' <= Len(rules) + 1  BY <1>2, <1>4
  <2> QED  BY <1>1, <1>2, <1>3, <1>6, <2>1 DEF RouteTypes
<1>8. Begun'  BY <1>1, <1>2, <1>3, <1>6 DEF Begun, Evaluating
<1>9. AtHand' /\ LastReading'  BY <1>2 DEF AtHand, LastReading
<1>10. rules[index] # Allow /\ rules[index] # Deny
  <2>1. Allow.action = "route" /\ Deny.action = "reject"  BY DEF Allow, Deny, Rule
  <2> QED  BY <1>2, <2>1
<1>11. FailClosed'
  <2> SUFFICES ASSUME NEW i \in 1..Len(rules), rules[i] = Deny, given.inbound = "protected"
               PROVE  index' <= i
    BY <1>2 DEF FailClosed
  <2>1. index <= i  BY DEF RouteInv, FailClosed
  <2> QED  BY <1>2, <1>4, <1>10, <2>1
<1>12. PairSoFar'
  <2> SUFFICES ASSUME Guarded  PROVE FALSE  BY <1>2 DEF PairSoFar, Guarded
  <2>1. 2 \in 1..Len(rules) /\ rules[2] = Deny  BY <1>4 DEF Guarded
  <2>2. index <= 2  BY <2>1 DEF RouteInv, FailClosed, Guarded
  <2> QED  BY <1>4, <1>10, <2>2 DEF Guarded
<1>13. OneMoment'
  <2>1. SUFFICES ASSUME ReadsOnce'
        PROVE  \E h \in [1..index' -> Hosts(rules, given)] :
                 /\ h[index'] = session'.host
                 /\ \E k \in 1..Len(span) : Fits(k, h)'
                 /\ Unread' => \A k \in 1..Len(span) : Fits(k, h)'
    BY <1>2 DEF OneMoment, Evaluating
  <2>2. ReadsOnce  BY <1>2, <2>1 DEF ReadsOnce
  <2>3. PICK h \in [1..index -> Hosts(rules, given)] :
                 /\ h[index] = session.host
                 /\ \E k \in 1..Len(span) : Fits(k, h)
                 /\ Unread => \A k \in 1..Len(span) : Fits(k, h)
    BY <1>3, <2>2 DEF RouteInv, OneMoment
  <2>4. PICK host : host = rules[index].arg  OBVIOUS
  <2>5. PICK further : further = [j \in 1..(index + 1) |-> IF j <= index THEN h[j] ELSE host]
    OBVIOUS
  <2>6. host \in Hosts(rules, given)  BY <1>4, <2>4 DEF Hosts
  <2>7. ASSUME NEW k, Fits(k, h)
        PROVE  /\ further \in [1..(index + 1) -> Hosts(rules, given)]
               /\ further[index + 1] = host
               /\ Walk(rules, given, span[k], index + 1, further)
    <3>1. Hits(rules[index], given, span[k], h[index])  BY <1>2, <2>3, <2>7 DEF Fits
    <3>2. Walk(rules, given, span[k], index, h)  BY <2>7 DEF Fits
    <3>3. index \in Nat \ {0} /\ h \in [1..index -> Hosts(rules, given)]  BY <1>4
    <3>4. rules[index].action = "route-options" /\ host = rules[index].arg  BY <1>2, <2>4
    <3> QED  BY <2>5, <2>6, <3>1, <3>2, <3>3, <3>4, WalkFurther
  <2>8. ASSUME NEW k, Fits(k, h)  PROVE Fits(k, further)'
    BY <1>2, <2>7, <2>8 DEF Fits
  <2>9. Unread' => Unread
    <3> SUFFICES ASSUME Unread'  PROVE Unread  OBVIOUS
    <3>1. \A j \in 1..index : rules[j].sets = << >>  BY <1>2, <1>4 DEF Unread
    <3> QED  BY <1>2, <1>4, <3>1 DEF Unread
  <2> QED  BY <1>2, <1>6, <2>3, <2>4, <2>7, <2>8, <2>9
<1> QED  BY <1>7, <1>8, <1>9, <1>11, <1>12, <1>13 DEF RouteInv

(* The outcome is that of the moment the evaluation fits.                  *)
LEMMA TerminateInv == RouteInv /\ Terminate => RouteInv'
<1> SUFFICES ASSUME RouteInv, Terminate  PROVE RouteInv'  OBVIOUS
<1>1. RouteTypes /\ Begun /\ AtHand  BY DEF RouteInv
<1>2. /\ pc = "act" /\ pc' = "routed" /\ rules[index].action \in {"route", "reject"}
      /\ outcome' = (IF rules[index].action = "route" THEN rules[index].arg ELSE Rejected)
      /\ rules' = rules /\ given' = given /\ sets' = sets /\ config' = config /\ span' = span
      /\ next' = next /\ hit' = hit /\ session' = session /\ index' = index
  BY DEF Terminate, rules
<1>3. pc \in Evaluating /\ pc' \notin Evaluating  BY <1>2 DEF Evaluating
<1>4. index \in 1..Len(rules) /\ index \in Nat \ {0} /\ Len(rules) \in Nat
  BY <1>1, <1>2, RuleFacts DEF RouteTypes, AtHand
<1>5. RouteTypes'  BY <1>1, <1>2 DEF RouteTypes
<1>6. Begun' /\ AtHand' /\ LastReading'
  BY <1>2, <1>3 DEF Begun, AtHand, LastReading
<1>7. FailClosed'  BY <1>2 DEF RouteInv, FailClosed
<1>8. PairSoFar'
  <2> SUFFICES ASSUME Guarded
               PROVE  \/ outcome' = "direct" /\ \E k \in 1..Len(span) : InWhitelist(k)
                      \/ outcome' = Rejected /\ \E k \in 1..Len(span) : ~InWhitelist(k)
    BY <1>2, <1>3 DEF PairSoFar, Guarded, InWhitelist
  <2>1. 2 \in 1..Len(rules) /\ rules[1] = Allow /\ rules[2] = Deny  BY <1>4 DEF Guarded
  <2>2. index = 1 \/ index = 2
    <3>1. index <= 2  BY <2>1 DEF RouteInv, FailClosed, Guarded
    <3> QED  BY <1>4, <3>1
  <2>3. /\ Allow.action = "route" /\ Allow.arg = "direct" /\ Deny.action = "reject"
    BY DEF Allow, Deny, Rule
  <2>4. CASE index = 1
    <3>1. outcome' = "direct"  BY <1>2, <2>1, <2>3, <2>4
    <3> QED  BY <1>2, <2>4, <3>1 DEF RouteInv, PairSoFar
  <2>5. CASE index = 2
    <3>1. outcome' = Rejected  BY <1>2, <2>1, <2>3, <2>5
    <3> QED  BY <1>3, <2>5, <3>1 DEF RouteInv, PairSoFar
  <2> QED  BY <2>2, <2>4, <2>5
<1>9. OneMoment'
  <2>1. SUFFICES ASSUME ReadsOnce'
        PROVE  \E k \in 1..Len(span) : Documented(config, given, span[k], outcome')
    BY <1>2, <1>3 DEF OneMoment
  <2>2. ReadsOnce  BY <1>2, <2>1 DEF ReadsOnce
  <2>3. PICK h \in [1..index -> Hosts(rules, given)], k \in 1..Len(span) :
             h[index] = session.host /\ Fits(k, h)
    BY <1>3, <2>2 DEF RouteInv, OneMoment
  <2>4. /\ Walk(rules, given, span[k], index, h)
        /\ Hits(rules[index], given, span[k], h[index])
    BY <1>2, <2>3 DEF Fits
  <2>5. /\ index \in 1..(Len(rules) + 1) /\ index <= Len(rules)
        /\ \/ rules[index].action = "route" /\ outcome' = rules[index].arg
           \/ rules[index].action = "reject" /\ outcome' = Rejected
    BY <1>2, <1>4
  <2>6. Documented(config, given, span[k], outcome')  BY <2>4, <2>5 DEF Documented, rules
  <2> QED  BY <2>6
<1> QED  BY <1>5, <1>6, <1>7, <1>8, <1>9 DEF RouteInv

LEMMA UseFinalInv == RouteInv /\ UseFinal => RouteInv'
<1> SUFFICES ASSUME RouteInv, UseFinal  PROVE RouteInv'  OBVIOUS
<1>1. RouteTypes /\ Begun /\ AtHand  BY DEF RouteInv
<1>2. /\ pc = "rule" /\ pc' = "routed" /\ index > Len(rules) /\ outcome' = FinalOf(config)
      /\ rules' = rules /\ given' = given /\ sets' = sets /\ config' = config /\ span' = span
      /\ next' = next /\ hit' = hit /\ session' = session /\ index' = index
  BY DEF UseFinal, rules
<1>3. pc \in Evaluating /\ pc' \notin Evaluating  BY <1>2 DEF Evaluating
<1>4. index = Len(rules) + 1 /\ index \in Nat \ {0} /\ Len(rules) \in Nat
  BY <1>1, <1>2, RuleFacts DEF RouteTypes
<1>5. RouteTypes'  BY <1>1, <1>2 DEF RouteTypes
<1>6. Begun' /\ AtHand' /\ LastReading'
  BY <1>2, <1>3 DEF Begun, AtHand, LastReading
<1>7. FailClosed'  BY <1>2 DEF RouteInv, FailClosed
<1>8. PairSoFar'
  <2> SUFFICES ASSUME Guarded  PROVE FALSE  BY <1>2 DEF PairSoFar, Guarded
  <2>1. 2 \in 1..Len(rules) /\ rules[2] = Deny  BY <1>4 DEF Guarded
  <2>2. index <= 2  BY <2>1 DEF RouteInv, FailClosed, Guarded
  <2> QED  BY <1>4, <2>1, <2>2
<1>9. OneMoment'
  <2>1. SUFFICES ASSUME ReadsOnce'
        PROVE  \E k \in 1..Len(span) : Documented(config, given, span[k], outcome')
    BY <1>2, <1>3 DEF OneMoment
  <2>2. ReadsOnce  BY <1>2, <2>1 DEF ReadsOnce
  <2>3. PICK h \in [1..index -> Hosts(rules, given)], k \in 1..Len(span) : Fits(k, h)
    BY <1>3, <2>2 DEF RouteInv, OneMoment
  <2>4. Walk(rules, given, span[k], index, h)  BY <2>3 DEF Fits
  <2>5. index \in 1..(Len(rules) + 1) /\ index > Len(rules) /\ outcome' = FinalOf(config)
    BY <1>2, <1>4
  <2>6. Documented(config, given, span[k], outcome')  BY <2>4, <2>5 DEF Documented, rules
  <2> QED  BY <2>6
<1> QED  BY <1>5, <1>6, <1>7, <1>8, <1>9 DEF RouteInv

LEMMA RouteNextInv == RouteInv /\ [Next]_vars => RouteInv'
<1> SUFFICES ASSUME RouteInv, [Next]_vars  PROVE RouteInv'  OBVIOUS
<1>1. CASE UNCHANGED vars
  <2>1. /\ config' = config /\ session' = session /\ sets' = sets /\ pc' = pc /\ index' = index
        /\ base' = base /\ next' = next /\ hit' = hit /\ outcome' = outcome /\ given' = given
        /\ span' = span /\ rules' = rules
    BY <1>1 DEF vars, rules
  <2>2. (RouteTypes /\ Begun /\ FailClosed)'
    BY <2>1 DEF RouteInv, RouteTypes, Begun, FailClosed
  <2>3. AtHand'
    <3>1. MatchesBase(rules[index], session)' = MatchesBase(rules[index], session)
      BY <2>1 DEF MatchesBase, SourceIs
    <3> QED  BY <2>1, <3>1 DEF RouteInv, AtHand
  <2>4. LastReading' /\ PairSoFar'
    BY <2>1 DEF RouteInv, LastReading, Seen, PairSoFar, Guarded, InWhitelist
  <2>5. OneMoment'
    <3>1. \A k, h : Fits(k, h)' = Fits(k, h)  BY <2>1 DEF Fits, Seen
    <3>2. Unread' = Unread /\ ReadsOnce' = ReadsOnce  BY <2>1 DEF Unread, ReadsOnce
    <3> QED  BY <2>1, <3>1, <3>2 DEF RouteInv, OneMoment
  <2> QED  BY <2>2, <2>3, <2>4, <2>5 DEF RouteInv
<1>2. CASE Next
  <2>1. CASE Build  BY <2>1, BuildInv
  <2>2. CASE Select  BY <2>2, SelectInv
  <2>3. CASE Evaluate
    BY <2>3, EvalBaseInv, ReadSetInv, DecideInv, RouteOptionsInv, TerminateInv, UseFinalInv DEF Evaluate
  <2>4. CASE \E tag \in SetTags, content \in Contents : Replace(tag, content)  BY <2>4, ReplaceInv
  <2>5. CASE Over  BY <1>1, <2>5 DEF Over
  <2> QED  BY <1>2, <2>1, <2>2, <2>3, <2>4, <2>5 DEF Next
<1> QED  BY <1>1, <1>2

LEMMA RouteInvSound == RouteInv => RoutingIsSound
<1> SUFFICES ASSUME RouteInv  PROVE RoutingIsSound  OBVIOUS
<1>1. RoutingIsAtomic  BY DEF RouteInv, OneMoment, RoutingIsAtomic
<1>2. WhitelistDecides
  <2> SUFFICES ASSUME pc = "routed", Guarded
               PROVE  LET listed == {k \in 1..Len(span) : Listed(span[k]["whitelist"], given, given.host)}
                      IN  \/ outcome = "direct" /\ listed # {}
                          \/ outcome = Rejected /\ listed # 1..Len(span)
    BY DEF WhitelistDecides, Guarded
  <2>1. \/ outcome = "direct" /\ \E k \in 1..Len(span) : InWhitelist(k)
        \/ outcome = Rejected /\ \E k \in 1..Len(span) : ~InWhitelist(k)
    BY DEF RouteInv, PairSoFar
  <2> QED  BY <2>1 DEF InWhitelist
<1> QED  BY <1>1, <1>2 DEF RoutingIsSound, RouteInv

(* Whatever the rule table, however long, and however often the rule-sets  *)
(* are replaced while Router::select evaluates it: a table that reads at   *)
(* most one rule-set decides as it would at one moment of the evaluation,  *)
(* a protected session never passes a reject rule of its inbound, and the  *)
(* allow/reject pair goes by an address or destination the whitelist had   *)
(* or lacked at some moment.                                               *)
THEOREM RoutingAlwaysSound == Spec => []RoutingIsSound
<1>1. Spec => []RouteInv  BY RouteInitInv, RouteNextInv, PTL DEF Spec
<1> QED  BY <1>1, RouteInvSound, PTL
-----------------------------------------------------------------------------
(* The inductive invariant of the masquerade's file handler.               *)
Serving == {"root", "path", "kind", "index", "list", "entries", "size", "read"}
Resolved == Serving \ {"root", "path"}

FilesTypes ==
    /\ root \in Releases \cup {"none"} /\ canonical \in Releases \cup {"none"}
    /\ tree \in [Releases -> Trees]
    /\ files \in {"idle"} \cup Serving
    /\ asked \in Requests
    /\ listing \in [ahead : SUBSET Paths, names : SUBSET Paths, size : Nat]

(* The directory was found when canonical_root was set; what is asked for  *)
(* was found in it afterwards, and is looked at by that path, or by its    *)
(* index's.                                                                *)
Found ==
    /\ files \in Serving => <<root, tree>> \in moments /\ asked.path \in Paths
    /\ files \in Serving \ {"root"} => canonical \in Releases
    /\ files \in Resolved =>
        /\ \E m \in moments : m[1] = canonical /\ m[2] \in [Releases -> Trees]
                              /\ m[2][canonical][asked.path] # Missing
        /\ \/ path = <<canonical, asked.path>>
           \/ /\ files \in {"size", "read"} /\ path = <<canonical, Index>>
              /\ asked.path = Folder /\ asked.slash

(* A directory is only listed with its slash and without an index, and     *)
(* only files are read.                                                    *)
Looked ==
    /\ files \in {"index", "list", "entries"} => asked.slash /\ asked.path \in {Top, Folder}
    /\ files \in {"list", "entries"} /\ asked.path = Folder =>
          \E m \in moments : m[2][canonical][Index] = Missing
    /\ files \in {"size", "read"} => path[2] \in {File, Index}

(* Names that came or went: read_dir may have given one of them twice.     *)
Changed(p) == \E q \in Nameable(p), m \in moments : m[2][canonical][q] = Missing

(* The names of an open listing were all there, and their size is that of  *)
(* a set of names as long as none came or went.                            *)
Counted ==
    files = "entries" =>
      /\ listing.ahead \cup listing.names \subseteq Nameable(asked.path)
      /\ \E m \in moments : m[2][canonical][asked.path] = Dir
      /\ \/ Changed(asked.path)
         \/ listing.size = SizeOf(listing.names) /\ listing.ahead \cap listing.names = {}

FilesInv == FilesTypes /\ Found /\ Looked /\ Counted /\ AnswersAreGrounded
-----------------------------------------------------------------------------
LEMMA PathsDiffer ==
  /\ Top # File /\ Top # Folder /\ Top # Index
  /\ File # Folder /\ File # Index /\ Folder # Index
<1>1. Len(Top) = 0 /\ Len(File) = 1 /\ Len(Folder) = 1 /\ Len(Index) = 2
  BY EmptySeq DEF Top, File, Folder, Index
<1>2. File[1] = "a" /\ Folder[1] = "d"  BY DEF File, Folder
<1>3. File # Folder  BY <1>2
<1> QED  BY <1>1, <1>3

LEMMA TreeFacts ==
  ASSUME NEW t \in Trees
  PROVE  /\ t[Top] = Dir
         /\ t[File] = Missing \/ t[File] \in Nat \ {0}
         /\ t[Folder] = Missing \/ t[Folder] = Dir
         /\ t[Index] = Missing \/ t[Index] = 1
<1>1. /\ t \in [Paths -> {Missing, Dir} \cup Sizes]
      /\ t[Top] = Dir /\ t[File] # Dir /\ t[Folder] < 0 /\ t[Index] \in {Missing, 1}
  BY DEF Trees
<1>2. t[File] \in {Missing, Dir} \cup Sizes /\ t[Folder] \in {Missing, Dir} \cup Sizes
  BY <1>1 DEF Paths
<1>3. \A n \in Sizes : n \in Nat \ {0} /\ ~(n < 0)  BY MaxSizeAssumption DEF Sizes
<1> QED  BY <1>1, <1>2, <1>3

LEMMA StatusFacts ==
  \A code : Status(code).status = code /\ Status(code).body = 0
BY DEF Status, NoAnswer

LEMMA RequestFacts ==
  \A r \in Requests :
      /\ r.method # "GET" => r.method = "POST"
      /\ r.path \in Paths \/ r.path = Escape
<1>1. \A r \in Requests : r.method \in {"GET", "POST"}
  BY DEF Requests
<1>2. \A r \in Requests : r.path \in Paths \/ r.path = Escape
  BY DEF Requests, Paths
<1> QED  BY <1>1, <1>2

LEMMA ChildFacts ==
  ASSUME NEW p \in {Top, Folder}
  PROVE  Children(p) \subseteq {File, Folder, Index}
<1>1. Len(Top) = 0 /\ Len(p) \in Nat  BY EmptySeq DEF Top, Folder
<1>2. \A q \in Children(p) : q \in Paths /\ Len(q) = Len(p) + 1  BY DEF Children
<1>3. \A q \in Children(p) : q # Top  BY <1>1, <1>2
<1> QED  BY <1>2, <1>3 DEF Paths

(* The size of the names of a directory grows with each of them.           *)
LEMMA SizeFacts ==
  /\ \A q : NameSize(q) \in Nat
  /\ \A names : SizeOf(names) \in Nat
  /\ SizeOf({}) = 0
  /\ \A names, more : names \subseteq more => SizeOf(names) <= SizeOf(more)
  /\ \A names : \A q \in {File, Folder, Index} \ names :
        SizeOf(names \cup {q}) = SizeOf(names) + NameSize(q)
<1>1. \A q : NameSize(q) \in Nat  BY MaxSizeAssumption DEF NameSize
<1>2. NameSize(File) \in Nat /\ NameSize(Folder) \in Nat /\ NameSize(Index) \in Nat  BY <1>1
<1>3. \A names : SizeOf(names) \in Nat  BY <1>2 DEF SizeOf
<1>4. SizeOf({}) = 0  BY DEF SizeOf
<1>5. ASSUME NEW names, NEW more, names \subseteq more  PROVE SizeOf(names) <= SizeOf(more)
  BY <1>2, <1>5 DEF SizeOf
<1>6. ASSUME NEW names, NEW q \in {File, Folder, Index} \ names
      PROVE  SizeOf(names \cup {q}) = SizeOf(names) + NameSize(q)
  <2>1. CASE q = File  BY <1>2, <2>1, PathsDiffer DEF SizeOf
  <2>2. CASE q = Folder  BY <1>2, <2>2, PathsDiffer DEF SizeOf
  <2>3. CASE q = Index  BY <1>2, <2>3, PathsDiffer DEF SizeOf
  <2> QED  BY <2>1, <2>2, <2>3
<1> QED  BY <1>1, <1>3, <1>4, <1>5, <1>6

LEMMA FilesInitInv == FilesInit("idle") => FilesInv
<1> SUFFICES ASSUME FilesInit("idle")  PROVE FilesInv  OBVIOUS
<1>1. Published \in Trees
  <2>1. Published \in [Paths -> {Missing, Dir} \cup Sizes]  BY DEF Published, Sizes
  <2>2. Published[Top] = Dir /\ Published[Folder] = Dir /\ Published[File] = 1 /\ Published[Index] = 1
    BY PathsDiffer DEF Published, Paths
  <2>3. Dir < 0 /\ 1 # Dir  BY DEF Dir
  <2> QED  BY <2>1, <2>2, <2>3 DEF Trees
<1>2. FilesTypes  BY <1>1 DEF FilesInit, FilesTypes, Closed
<1>3. files = "idle" /\ answer.status = 0  BY DEF FilesInit, NoAnswer
<1> QED  BY <1>2, <1>3 DEF FilesInv, Found, Looked, Counted, AnswersAreGrounded, Serving, Resolved

LEMMA RequestInv == ASSUME NEW r \in Requests  PROVE FilesInv /\ Request(r) => FilesInv'
<1> SUFFICES ASSUME FilesInv, Request(r)  PROVE FilesInv'  OBVIOUS
<1>1. /\ asked' = r /\ moments' = {<<root, tree>>} /\ root' = root /\ tree' = tree
      /\ canonical' = canonical /\ path' = path /\ listing' = listing
      /\ \/ r.method \notin {"GET", "HEAD"} /\ answer' = Status(405) /\ files' = "idle"
         \/ ~Safe(r.path) /\ answer' = Status(404) /\ files' = "idle"
         \/ Safe(r.path) /\ files' = "root"
  BY DEF Request, Now, Answer
<1>2. files' \in {"idle", "root"}  BY <1>1
<1>3. FilesTypes'  BY <1>1, <1>2 DEF FilesInv, FilesTypes, Serving
<1>4. Found'
  <2>1. files' = "root" => r.path \in Paths  BY <1>1, RequestFacts DEF Safe
  <2> QED  BY <1>1, <1>2, <2>1 DEF Found, Serving, Resolved
<1>5. Looked' /\ Counted'  BY <1>2 DEF Looked, Counted
<1>6. AnswersAreGrounded'
  <2>1. CASE r.method \notin {"GET", "HEAD"} /\ answer' = Status(405)
    <3>1. answer'.status = 405 /\ r.method = "POST"  BY <2>1, StatusFacts, RequestFacts
    <3> QED  BY <1>1, <3>1 DEF AnswersAreGrounded
  <2>2. CASE ~Safe(r.path) /\ answer' = Status(404)
    <3>1. answer'.status = 404 /\ r.path = Escape  BY <2>2, StatusFacts DEF Safe
    <3> QED  BY <1>1, <3>1 DEF AnswersAreGrounded
  <2>3. CASE files' = "root"  BY <2>3 DEF AnswersAreGrounded
  <2> QED  BY <1>1, <2>1, <2>2, <2>3
<1> QED  BY <1>3, <1>4, <1>5, <1>6 DEF FilesInv

(* An answer 404 is grounded when the directory has not what was asked for *)
(* or is not where it was first found.                                     *)
LEMMA NotFoundGrounded ==
  ASSUME answer' = Status(404), asked' = asked, moments' = moments, <<root, tree>> \in moments,
         \/ root # canonical' /\ canonical' \in Releases
         \/ At(<<root, tree>>, asked.path) = Missing
         \/ At(<<root, tree>>, Index) = Missing /\ asked.path = Folder
  PROVE  AnswersAreGrounded'
<1>1. answer'.status = 404  BY StatusFacts
<1>2. \/ \E m \in moments : At(m, asked.path) = Missing
      \/ asked.path = Folder /\ \E m \in moments : At(m, Index) = Missing
      \/ canonical' \in Releases /\ \E m \in moments : m[1] # canonical'
  <2>1. <<root, tree>>[1] = root  OBVIOUS
  <2> QED  BY <2>1
<1> QED  BY <1>1, <1>2 DEF AnswersAreGrounded, At

LEMMA CanonicalRootInv == FilesInv /\ CanonicalRoot => FilesInv'
<1> SUFFICES ASSUME FilesInv, CanonicalRoot  PROVE FilesInv'  OBVIOUS
<1>1. /\ files = "root" /\ asked' = asked /\ moments' = moments /\ root' = root /\ tree' = tree
      /\ canonical' = (IF canonical = "none" THEN root ELSE canonical) /\ path' = path
      /\ listing' = listing
      /\ \/ canonical' \in Releases /\ files' = "path"
         \/ canonical' \notin Releases /\ answer' = Status(404) /\ files' = "idle"
  BY DEF CanonicalRoot, InitRoot, Answer
<1>2. files' \in {"idle", "path"}  BY <1>1
<1>3. FilesTypes'  BY <1>1, <1>2 DEF FilesInv, FilesTypes, Serving
<1>4. Found'  BY <1>1, <1>2 DEF FilesInv, Found, Serving, Resolved
<1>5. Looked' /\ Counted'  BY <1>2 DEF Looked, Counted
<1>6. AnswersAreGrounded'
  <2>1. CASE files' = "path"  BY <2>1 DEF AnswersAreGrounded
  <2>2. CASE canonical' \notin Releases /\ answer' = Status(404)
    <3>1. root = "none"  BY <1>1, <2>2 DEF FilesInv, FilesTypes
    <3>2. At(<<root, tree>>, asked.path) = Missing  BY <3>1 DEF At
    <3>3. <<root, tree>> \in moments  BY <1>1 DEF FilesInv, Found, Serving
    <3> QED  BY <1>1, <2>2, <3>2, <3>3, NotFoundGrounded
  <2> QED  BY <1>1, <2>1, <2>2
<1> QED  BY <1>3, <1>4, <1>5, <1>6 DEF FilesInv

LEMMA ResolvePathInv == FilesInv /\ ResolvePath => FilesInv'
<1> SUFFICES ASSUME FilesInv, ResolvePath  PROVE FilesInv'  OBVIOUS
<1>1. /\ files = "path" /\ asked' = asked /\ moments' = moments /\ root' = root /\ tree' = tree
      /\ canonical' = canonical /\ listing' = listing
      /\ \/ Resolves /\ path' = <<root, asked.path>> /\ files' = "kind"
         \/ ~Resolves /\ answer' = Status(404) /\ files' = "idle"
  BY DEF ResolvePath, Answer
<1>2. /\ files' \in {"idle", "kind"} /\ canonical \in Releases
      /\ <<root, tree>> \in moments /\ asked.path \in Paths
  BY <1>1 DEF FilesInv, Found, Serving
<1>3. FilesTypes'  BY <1>1, <1>2 DEF FilesInv, FilesTypes, Serving
<1>4. Found'
  <2>1. CASE files' = "idle"  BY <2>1 DEF Found, Serving, Resolved
  <2>2. CASE Resolves /\ path' = <<root, asked.path>> /\ files' = "kind"
    <3>1. root = canonical /\ tree[canonical][asked.path] # Missing  BY <2>2 DEF Resolves
    <3>2. PICK m : m = <<root, tree>>  OBVIOUS
    <3>3. m \in moments /\ m[1] = canonical /\ m[2] = tree  BY <1>2, <3>1, <3>2
    <3>4. m[2] \in [Releases -> Trees]  BY <3>3 DEF FilesInv, FilesTypes
    <3> QED  BY <1>1, <1>2, <2>2, <3>1, <3>3, <3>4 DEF Found, Serving, Resolved
  <2> QED  BY <1>1, <2>1, <2>2
<1>5. Looked' /\ Counted'  BY <1>2 DEF Looked, Counted
<1>6. AnswersAreGrounded'
  <2>1. CASE files' = "kind"  BY <2>1 DEF AnswersAreGrounded
  <2>2. CASE ~Resolves /\ answer' = Status(404)
    <3>1. \/ root # canonical
          \/ At(<<root, tree>>, asked.path) = Missing
      BY <2>2 DEF Resolves, At
    <3> QED  BY <1>1, <1>2, <2>2, <3>1, NotFoundGrounded
  <2> QED  BY <1>1, <2>1, <2>2
<1> QED  BY <1>3, <1>4, <1>5, <1>6 DEF FilesInv

(* The stages behind canonicalize() that leave the tree and the path alone *)
(* keep the types, and what has been found stays found.                    *)
LEMMA LaterStage ==
  ASSUME FilesInv, files \in Resolved, files' \in {"idle"} \cup Resolved,
         asked' = asked, moments' = moments, root' = root, tree' = tree, canonical' = canonical,
         path' = path, path # <<canonical, asked.path>> => files' \in {"idle", "size", "read"},
         listing' \in [ahead : SUBSET Paths, names : SUBSET Paths, size : Nat]
  PROVE  FilesTypes' /\ Found'
<1>1. FilesTypes'  BY DEF FilesInv, FilesTypes, Serving, Resolved
<1>2. Found'  BY DEF FilesInv, Found, Serving, Resolved
<1> QED  BY <1>1, <1>2

(* What the handler looks at, while the directory may lead elsewhere.      *)
LEMMA HereFacts ==
  ASSUME FilesInv, files \in Resolved
  PROVE  /\ <<root, tree>> \in moments /\ asked.path \in Paths
         /\ canonical \in Releases /\ tree[canonical] \in Trees
         /\ path[1] = canonical /\ path[2] \in {asked.path, Index}
         /\ path[2] # asked.path => asked.path = Folder /\ asked.slash
         /\ path = <<canonical, asked.path>> => path[2] = asked.path
         /\ root = canonical => At(<<root, tree>>, path[2]) = Here
         /\ root \in Releases \cup {"none"}
<1>1. /\ <<root, tree>> \in moments /\ asked.path \in Paths /\ canonical \in Releases
      /\ root \in Releases \cup {"none"} /\ tree \in [Releases -> Trees]
  BY DEF FilesInv, FilesTypes, Found, Serving, Resolved
<1>2. \/ path = <<canonical, asked.path>>
      \/ path = <<canonical, Index>> /\ asked.path = Folder /\ asked.slash
  BY DEF FilesInv, Found
<1>3. /\ path[1] = canonical /\ path[2] \in {asked.path, Index}
      /\ path[2] # asked.path => asked.path = Folder /\ asked.slash
      /\ path = <<canonical, asked.path>> => path[2] = asked.path
  BY <1>2
<1>4. root = canonical => At(<<root, tree>>, path[2]) = Here
  BY <1>1, <1>3, ReleasesAssumption DEF At, Here
<1> QED  BY <1>1, <1>3, <1>4

(* Something that is gone now makes an answer 404 true.                    *)
LEMMA GoneGrounded ==
  ASSUME FilesInv, files \in Resolved, Here = Missing, answer' = Status(404), asked' = asked,
         moments' = moments, canonical' = canonical
  PROVE  AnswersAreGrounded'
<1>1. CASE root = canonical
  <2>1. At(<<root, tree>>, path[2]) = Missing  BY <1>1, HereFacts
  <2>2. \/ At(<<root, tree>>, asked.path) = Missing
        \/ At(<<root, tree>>, Index) = Missing /\ asked.path = Folder
    BY <2>1, HereFacts
  <2> QED  BY <2>2, HereFacts, NotFoundGrounded
<1>2. CASE root # canonical  BY <1>2, HereFacts, NotFoundGrounded
<1> QED  BY <1>1, <1>2

LEMMA LookAtInv == FilesInv /\ LookAt => FilesInv'
<1> SUFFICES ASSUME FilesInv, LookAt  PROVE FilesInv'  OBVIOUS
<1>1. /\ files = "kind" /\ asked' = asked /\ moments' = moments /\ root' = root /\ tree' = tree
      /\ canonical' = canonical /\ path' = path /\ listing' = listing
      /\ \/ Here = Missing /\ answer' = Status(404) /\ files' = "idle"
         \/ Here >= 0 /\ files' = "size"
         \/ Here = Dir /\ ~asked.slash /\ answer' = Status(301) /\ files' = "idle"
         \/ Here = Dir /\ asked.slash /\ files' = "index"
  BY DEF LookAt, Redirects, Answer
<1>2. files \in Resolved /\ files' \in {"idle", "size", "index"}  BY <1>1 DEF Serving, Resolved
<1>3. path = <<canonical, asked.path>> /\ path[1] = canonical /\ path[2] = asked.path
  BY <1>1, <1>2, HereFacts DEF FilesInv, Found
<1>4. FilesTypes' /\ Found'
  <2>1. files' \in {"idle"} \cup Resolved  BY <1>2 DEF Serving, Resolved
  <2>2. listing' \in [ahead : SUBSET Paths, names : SUBSET Paths, size : Nat]
    BY <1>1 DEF FilesInv, FilesTypes
  <2> QED  BY <1>1, <1>2, <1>3, <2>1, <2>2, LaterStage
<1>5. /\ Here = Dir => asked.path \in {Top, Folder}
      /\ Here >= 0 => asked.path \in {File, Index}
  <2>1. Here = tree[canonical][asked.path]  BY <1>3 DEF Here
  <2>2. tree[canonical] \in Trees /\ asked.path \in Paths  BY <1>2, HereFacts
  <2>3. asked.path \in {Top, File, Folder, Index}  BY <2>2 DEF Paths
  <2>4. Dir = -2 /\ Missing = -1  BY DEF Dir, Missing
  <2> QED  BY <2>1, <2>2, <2>3, <2>4, TreeFacts
<1>6. Looked' /\ Counted'  BY <1>1, <1>3, <1>5 DEF Looked, Counted, Dir, Missing
<1>7. AnswersAreGrounded'
  <2>1. CASE files' # "idle"  BY <2>1 DEF AnswersAreGrounded
  <2>2. CASE Here = Missing /\ answer' = Status(404)
    BY <1>1, <1>2, <2>2, GoneGrounded
  <2>3. CASE Here = Dir /\ ~asked.slash /\ answer' = Status(301)
    <3>1. PICK m \in moments : /\ m[1] = canonical /\ m[2] \in [Releases -> Trees]
                               /\ m[2][canonical][asked.path] # Missing
      BY <1>2 DEF FilesInv, Found
    <3>2. m[2][canonical] \in Trees /\ canonical # "none"
      BY <1>2, <3>1, HereFacts, ReleasesAssumption
    <3>3. m[2][canonical][asked.path] = Dir  BY <1>5, <2>3, <3>1, <3>2, TreeFacts
    <3>4. At(m, asked.path) = Dir  BY <3>1, <3>2, <3>3 DEF At
    <3>5. answer'.status = 301  BY <2>3, StatusFacts
    <3> QED  BY <1>1, <2>3, <3>4, <3>5 DEF AnswersAreGrounded, At
  <2> QED  BY <1>1, <2>1, <2>2, <2>3
<1> QED  BY <1>4, <1>6, <1>7 DEF FilesInv

LEMMA TryIndexInv == FilesInv /\ TryIndex => FilesInv'
<1> SUFFICES ASSUME FilesInv, TryIndex  PROVE FilesInv'  OBVIOUS
<1>1. /\ files = "index" /\ asked' = asked /\ moments' = moments /\ root' = root /\ tree' = tree
      /\ canonical' = canonical /\ listing' = listing
      /\ \/ IndexHere /\ path' = [path EXCEPT ![2] = Index] /\ files' = "size"
         \/ ~IndexHere /\ path' = path /\ files' = "list"
  BY DEF TryIndex
<1>2. files \in Resolved /\ files' \in {"size", "list"}  BY <1>1 DEF Serving, Resolved
<1>3. path = <<canonical, asked.path>> /\ path[1] = canonical /\ path[2] = asked.path
  BY <1>1, <1>2, HereFacts DEF FilesInv, Found
<1>4. asked.slash /\ asked.path \in {Top, Folder}  BY <1>1 DEF FilesInv, Looked
<1>5. CASE IndexHere /\ path' = [path EXCEPT ![2] = Index] /\ files' = "size"
  <2>1. path' = <<canonical, Index>>  BY <1>3, <1>5
  <2>2. asked.path = Folder  BY <1>3, <1>5 DEF IndexHere
  <2>3. FilesTypes'  BY <1>1, <1>5 DEF FilesInv, FilesTypes, Serving
  <2>4. Found'  BY <1>1, <1>4, <1>5, <2>1, <2>2 DEF FilesInv, Found, Serving, Resolved
  <2>5. path'[2] = Index  BY <2>1
  <2>6. Looked' /\ Counted'  BY <1>5, <2>5 DEF Looked, Counted
  <2> QED  BY <1>5, <2>3, <2>4, <2>6 DEF FilesInv, AnswersAreGrounded
<1>6. CASE ~IndexHere /\ path' = path /\ files' = "list"
  <2>1. files' \in {"idle"} \cup Resolved  BY <1>2 DEF Serving, Resolved
  <2>2. FilesTypes' /\ Found'
    <3>1. listing' \in [ahead : SUBSET Paths, names : SUBSET Paths, size : Nat]
      BY <1>1 DEF FilesInv, FilesTypes
    <3> QED  BY <1>1, <1>2, <1>3, <1>6, <2>1, <3>1, LaterStage
  <2>3. asked.path = Folder => \E m \in moments : m[2][canonical][Index] = Missing
    <3>1. asked.path = Folder => tree[canonical][Index] = Missing  BY <1>3, <1>6 DEF IndexHere
    <3>2. PICK m : m = <<root, tree>>  OBVIOUS
    <3>3. m \in moments /\ m[2] = tree  BY <1>2, <3>2, HereFacts
    <3> QED  BY <3>1, <3>3
  <2>4. Looked' /\ Counted'  BY <1>1, <1>4, <1>6, <2>3 DEF Looked, Counted
  <2> QED  BY <1>6, <2>2, <2>4 DEF FilesInv, AnswersAreGrounded
<1> QED  BY <1>1, <1>5, <1>6

(* What an open listing of a directory rests on.                           *)
LEMMA ListingFacts ==
  ASSUME FilesInv, files \in {"list", "entries"}
  PROVE  /\ files \in Resolved
         /\ path = <<canonical, asked.path>> /\ path[1] = canonical /\ path[2] = asked.path
         /\ asked.slash /\ asked.path \in {Top, Folder}
         /\ asked.path = Top \/ \E m \in moments : m[2][canonical][Index] = Missing
         /\ Opened \subseteq Nameable(asked.path)
         /\ Nameable(asked.path) \subseteq {File, Folder, Index}
         /\ \E m \in moments : m[2] = tree
<1>1. files \in Resolved  BY DEF Serving, Resolved
<1>2. path = <<canonical, asked.path>> /\ path[1] = canonical /\ path[2] = asked.path
  BY <1>1, HereFacts DEF FilesInv, Found
<1>3. /\ asked.slash /\ asked.path \in {Top, Folder}
      /\ asked.path = Top \/ \E m \in moments : m[2][canonical][Index] = Missing
  BY DEF FilesInv, Looked
<1>4. <<root, tree>> \in moments /\ <<root, tree>>[2] = tree  BY <1>1, HereFacts
<1>5. Opened \subseteq Nameable(asked.path)
  BY <1>2, <1>4 DEF Opened, Entries, Nameable
<1>6. Nameable(asked.path) \subseteq {File, Folder, Index}  BY <1>3, ChildFacts DEF Nameable
<1> QED  BY <1>1, <1>2, <1>3, <1>4, <1>5, <1>6

LEMMA OpenDirectoryInv == FilesInv /\ OpenDirectory => FilesInv'
<1> SUFFICES ASSUME FilesInv, OpenDirectory  PROVE FilesInv'  OBVIOUS
<1>1. /\ files = "list" /\ asked' = asked /\ moments' = moments
      /\ root' = root /\ tree' = tree /\ canonical' = canonical /\ path' = path
      /\ \/ Here # Dir /\ answer' = Status(404) /\ files' = "idle" /\ listing' = listing
         \/ Here = Dir /\ files' = "entries" /\ listing' = [Closed EXCEPT !.ahead = Opened]
  BY DEF OpenDirectory, Answer
<1>2. [Closed EXCEPT !.ahead = Opened] = [ahead |-> Opened, names |-> {}, size |-> 0]
  BY DEF Closed
<1>3. /\ files \in Resolved
      /\ path = <<canonical, asked.path>> /\ path[1] = canonical /\ path[2] = asked.path
      /\ asked.slash /\ asked.path \in {Top, Folder}
      /\ asked.path = Top \/ \E m \in moments : m[2][canonical][Index] = Missing
      /\ Opened \subseteq Nameable(asked.path)
      /\ \E m \in moments : m[2] = tree
  BY <1>1, ListingFacts
<1>4. files' \in {"idle", "entries"} /\ files' # "list"  BY <1>1
<1>5. FilesTypes' /\ Found'
  <2>1. Opened \subseteq Paths  BY DEF Opened, Entries, Children
  <2>2. listing' \in [ahead : SUBSET Paths, names : SUBSET Paths, size : Nat]
    BY <1>1, <1>2, <2>1 DEF FilesInv, FilesTypes
  <2>3. files' \in {"idle"} \cup Resolved  BY <1>1 DEF Serving, Resolved
  <2> QED  BY <1>1, <1>3, <2>2, <2>3, LaterStage
<1>6. Looked'
  <2>1. asked' = asked /\ moments' = moments /\ canonical' = canonical  BY <1>1
  <2>2. (\E m \in moments : m[2][canonical][Index] = Missing) =>
           (\E m \in moments : m[2][canonical][Index] = Missing)'
    BY <2>1
  <2> QED  BY <1>3, <1>4, <2>1, <2>2, PathsDiffer DEF Looked
<1>7. Counted'
  <2> SUFFICES ASSUME files' = "entries"  PROVE Counted'  BY DEF Counted
  <2>1. /\ listing'.ahead = Opened /\ listing'.names = {} /\ listing'.size = 0
        /\ Here = Dir
    BY <1>1, <1>2
  <2>2. \E m \in moments : m[2][canonical][asked.path] = Dir
    BY <1>3, <2>1 DEF Here
  <2>3. listing'.ahead \cup listing'.names \subseteq Nameable(asked.path)
    BY <1>3, <2>1
  <2>4. Nameable(asked.path)' = Nameable(asked.path)  BY <1>1 DEF Nameable
  <2> QED  BY <1>1, <2>1, <2>2, <2>3, <2>4, SizeFacts DEF Counted
<1>8. AnswersAreGrounded'
  <2>1. CASE files' = "entries"  BY <2>1 DEF AnswersAreGrounded
  <2>2. CASE Here # Dir /\ answer' = Status(404)
    <3>1. Here = tree[canonical][asked.path] /\ tree[canonical] \in Trees
      BY <1>3, HereFacts DEF Here
    <3>2. Here = Missing  BY <1>3, <2>2, <3>1, TreeFacts
    <3> QED  BY <1>1, <1>3, <2>2, <3>2, GoneGrounded
  <2> QED  BY <1>1, <2>1, <2>2
<1> QED  BY <1>5, <1>6, <1>7, <1>8 DEF FilesInv

(* A listing is refused when its names, or all that was ever there, are    *)
(* too long for a page.                                                    *)
LEMMA TooMuchGrounded ==
  ASSUME FilesInv, files = "entries", files' = "idle", answer' = Status(413), asked' = asked,
         moments' = moments, canonical' = canonical,
         NEW size \in Nat, HtmlSize(size) > MaxSize,
         Changed(asked.path) \/ size <= SizeOf(Nameable(asked.path))
  PROVE  AnswersAreGrounded'
<1>1. TooMuchToList(asked.path)
  <2>1. CASE Changed(asked.path)  BY <2>1 DEF Changed, TooMuchToList
  <2>2. CASE size <= SizeOf(Nameable(asked.path))
    <3>1. SizeOf(Nameable(asked.path)) \in Nat  BY SizeFacts
    <3>2. HtmlSize(SizeOf(Nameable(asked.path))) > MaxSize
      BY <2>2, <3>1, MaxSizeAssumption DEF HtmlSize
    <3> QED  BY <3>2 DEF TooMuchToList
  <2> QED  BY <2>1, <2>2
<1>2. TooMuchToList(asked.path)'  BY <1>1 DEF TooMuchToList, Nameable
<1>3. asked.slash /\ \E m \in moments : m[2][canonical][asked.path] = Dir
  BY ListingFacts DEF FilesInv, Counted
<1>4. answer'.status = 413  BY StatusFacts
<1> QED  BY <1>2, <1>3, <1>4 DEF AnswersAreGrounded

LEMMA NextEntryInv == FilesInv /\ NextEntry => FilesInv'
<1> SUFFICES ASSUME FilesInv, NextEntry  PROVE FilesInv'  OBVIOUS
<1>1. PICK q \in listing.ahead :
        \/ /\ listing.size + NameSize(q) > MaxSize
           /\ answer' = Status(413) /\ files' = "idle" /\ listing' = Closed
        \/ /\ listing' = [ahead |-> listing.ahead \ {q}, names |-> listing.names \cup {q},
                         size |-> listing.size + NameSize(q)]
           /\ files' = files
  BY DEF NextEntry, Answer
<1>2. /\ files = "entries" /\ asked' = asked /\ moments' = moments
      /\ root' = root /\ tree' = tree /\ canonical' = canonical /\ path' = path
  BY DEF NextEntry
<1>3. /\ listing.ahead \subseteq Paths /\ listing.names \subseteq Paths /\ listing.size \in Nat
      /\ NameSize(q) \in Nat
  BY SizeFacts DEF FilesInv, FilesTypes
<1>4. /\ listing.ahead \cup listing.names \subseteq Nameable(asked.path)
      /\ \E m \in moments : m[2][canonical][asked.path] = Dir
      /\ \/ Changed(asked.path)
         \/ listing.size = SizeOf(listing.names) /\ listing.ahead \cap listing.names = {}
  BY <1>2 DEF FilesInv, Counted
<1>5. FilesTypes' /\ Found'
  <2>1. listing' \in [ahead : SUBSET Paths, names : SUBSET Paths, size : Nat]
    BY <1>1, <1>3 DEF Closed
  <2>2. files' \in {"idle"} \cup Resolved  BY <1>1, <1>2 DEF Serving, Resolved
  <2>3. files \in Resolved /\ path = <<canonical, asked.path>>  BY <1>2, ListingFacts
  <2> QED  BY <1>2, <2>1, <2>2, <2>3, LaterStage
<1>6. Looked'
  <2>1. asked' = asked /\ moments' = moments /\ canonical' = canonical  BY <1>2
  <2>2. files' \in {"idle", "entries"}  BY <1>1, <1>2
  <2>3. /\ asked.slash /\ asked.path \in {Top, Folder}
        /\ asked.path = Top \/ \E m \in moments : m[2][canonical][Index] = Missing
    BY <1>2, ListingFacts
  <2>4. (\E m \in moments : m[2][canonical][Index] = Missing) =>
           (\E m \in moments : m[2][canonical][Index] = Missing)'
    BY <2>1
  <2> QED  BY <2>1, <2>2, <2>3, <2>4, PathsDiffer DEF Looked
<1>7. \/ Changed(asked.path)
      \/ listing.size + NameSize(q) = SizeOf(listing.names \cup {q})
  <2>1. q \in {File, Folder, Index}  BY <1>2, <1>4, ListingFacts
  <2>2. q \in listing.names \/ SizeOf(listing.names \cup {q}) = SizeOf(listing.names) + NameSize(q)
    BY <2>1, SizeFacts
  <2> QED  BY <1>4, <2>2
<1>8. Counted'
  <2> SUFFICES ASSUME files' = "entries"  PROVE Counted'  BY DEF Counted
  <2>1. /\ listing'.ahead = listing.ahead \ {q} /\ listing'.names = listing.names \cup {q}
        /\ listing'.size = listing.size + NameSize(q)
    BY <1>1
  <2>2. Nameable(asked.path)' = Nameable(asked.path) /\ Changed(asked.path)' = Changed(asked.path)
    BY <1>2 DEF Nameable, Changed
  <2>3. Changed(asked.path) \/ listing'.ahead \cap listing'.names = {}  BY <1>4, <2>1
  <2>4. listing'.ahead \cup listing'.names \subseteq Nameable(asked.path)'  BY <1>4, <2>1, <2>2
  <2>5. (\E m \in moments : m[2][canonical][asked.path] = Dir)'  BY <1>2, <1>4
  <2> QED  BY <1>7, <2>1, <2>2, <2>3, <2>4, <2>5 DEF Counted
<1>9. AnswersAreGrounded'
  <2>1. CASE files' = files  BY <1>2, <2>1 DEF AnswersAreGrounded
  <2>2. CASE /\ listing.size + NameSize(q) > MaxSize
             /\ answer' = Status(413) /\ files' = "idle"
    <3>1. listing.names \cup {q} \subseteq Nameable(asked.path)  BY <1>4
    <3>2. Changed(asked.path) \/ listing.size + NameSize(q) <= SizeOf(Nameable(asked.path))
      BY <1>7, <3>1, SizeFacts
    <3>3. listing.size + NameSize(q) \in Nat /\ HtmlSize(listing.size + NameSize(q)) > MaxSize
      BY <1>3, <2>2, MaxSizeAssumption DEF HtmlSize
    <3> QED  BY <1>2, <2>2, <3>2, <3>3, TooMuchGrounded
  <2> QED  BY <1>1, <2>1, <2>2
<1> QED  BY <1>5, <1>6, <1>8, <1>9 DEF FilesInv

LEMMA EndOfEntriesInv == FilesInv /\ EndOfEntries => FilesInv'
<1> SUFFICES ASSUME FilesInv, EndOfEntries  PROVE FilesInv'  OBVIOUS
<1> DEFINE Page == [Status(200) EXCEPT !.names = listing.names]
<1>1. /\ files = "entries" /\ files' = "idle" /\ asked' = asked /\ moments' = moments
      /\ root' = root /\ tree' = tree /\ canonical' = canonical /\ path' = path
      /\ listing' = Closed
      /\ \/ HtmlSize(listing.size) > MaxSize /\ answer' = Status(413)
         \/ answer' = Page
  BY DEF EndOfEntries, Answer
<1>2. FilesTypes' /\ Found'
  <2>1. listing' \in [ahead : SUBSET Paths, names : SUBSET Paths, size : Nat]
    BY <1>1 DEF Closed
  <2>2. files \in Resolved /\ path = <<canonical, asked.path>>  BY <1>1, ListingFacts
  <2>3. files' \in {"idle"} \cup Resolved  BY <1>1
  <2> QED  BY <1>1, <2>1, <2>2, <2>3, LaterStage
<1>3. Looked' /\ Counted'  BY <1>1 DEF Looked, Counted
<1>4. /\ listing.names \subseteq Nameable(asked.path)
      /\ Changed(asked.path) \/ listing.size = SizeOf(listing.names)
  BY <1>1 DEF FilesInv, Counted
<1>5. AnswersAreGrounded'
  <2>1. CASE HtmlSize(listing.size) > MaxSize /\ answer' = Status(413)
    <3>1. listing.size \in Nat  BY DEF FilesInv, FilesTypes
    <3>2. Changed(asked.path) \/ listing.size <= SizeOf(Nameable(asked.path))
      BY <1>4, SizeFacts
    <3> QED  BY <1>1, <2>1, <3>1, <3>2, TooMuchGrounded
  <2>2. CASE answer' = Page
    <3>1. Page.status = 200 /\ Page.body = 0 /\ Page.names = listing.names
      BY DEF Status, NoAnswer
    <3> HIDE DEF Page
    <3>2. answer'.status = 200 /\ answer'.body = 0 /\ answer'.names \subseteq Nameable(asked.path)
      BY <1>4, <2>2, <3>1
    <3>3. Nameable(asked.path)' = Nameable(asked.path)  BY <1>1 DEF Nameable
    <3>4. asked.slash /\ (asked.path = Top \/ \E m \in moments : m[2][canonical][Index] = Missing)
      BY <1>1, ListingFacts
    <3> QED  BY <1>1, <3>2, <3>3, <3>4 DEF AnswersAreGrounded
  <2> QED  BY <1>1, <2>1, <2>2
<1> QED  BY <1>2, <1>3, <1>5 DEF FilesInv

(* The size and the content belong to the file asked for or to the index   *)
(* of its directory.                                                       *)
LEMMA FileFacts ==
  ASSUME FilesInv, files \in {"size", "read"}
  PROVE  /\ Here = tree[canonical][path[2]]
         /\ \/ path[2] = asked.path
            \/ path[2] = Index /\ asked.path = Folder /\ asked.slash
         /\ Here = Missing \/ Here \in Nat \ {0}
         /\ path[2] = Index => Here <= 1
         /\ \E m \in moments : m[2] = tree
<1>1. files \in Resolved  BY DEF Serving, Resolved
<1>2. Here = tree[canonical][path[2]] /\ tree[canonical] \in Trees  BY <1>1, HereFacts DEF Here
<1>3. path[2] \in {File, Index}  BY DEF FilesInv, Looked
<1>4. /\ Here = Missing \/ Here \in Nat \ {0}
      /\ path[2] = Index => Here <= 1
  BY <1>2, <1>3, TreeFacts, PathsDiffer DEF Missing
<1>5. \/ path[2] = asked.path
      \/ path[2] = Index /\ asked.path = Folder /\ asked.slash
  BY <1>1, HereFacts
<1>6. <<root, tree>> \in moments /\ <<root, tree>>[2] = tree  BY <1>1, HereFacts
<1> QED  BY <1>2, <1>4, <1>5, <1>6

LEMMA CheckSizeInv == FilesInv /\ CheckSize => FilesInv'
<1> SUFFICES ASSUME FilesInv, CheckSize  PROVE FilesInv'  OBVIOUS
<1>1. /\ files = "size" /\ asked' = asked /\ moments' = moments /\ root' = root /\ tree' = tree
      /\ canonical' = canonical /\ path' = path /\ listing' = listing
      /\ \/ Here > MaxSize /\ answer' = Status(413) /\ files' = "idle"
         \/ files' = "read"
  BY DEF CheckSize, Answer
<1>2. files \in Resolved /\ files' \in {"idle", "read"}  BY <1>1 DEF Serving, Resolved
<1>3. FilesTypes' /\ Found'
  <2>1. files' \in {"idle"} \cup Resolved /\ files' \in {"idle", "size", "read"}
    BY <1>2 DEF Serving, Resolved
  <2>2. listing' \in [ahead : SUBSET Paths, names : SUBSET Paths, size : Nat]
    BY <1>1 DEF FilesInv, FilesTypes
  <2> QED  BY <1>1, <1>2, <2>1, <2>2, LaterStage
<1>4. Looked' /\ Counted'  BY <1>1, <1>2 DEF FilesInv, Looked, Counted
<1>5. AnswersAreGrounded'
  <2>1. CASE files' = "read"  BY <2>1 DEF AnswersAreGrounded
  <2>2. CASE Here > MaxSize /\ answer' = Status(413)
    <3>1. path[2] = asked.path
      <4>1. ~(Here <= 1)
        <5>1. Here = Missing \/ Here \in Nat \ {0}  BY <1>1, FileFacts
        <5> QED  BY <2>2, <5>1, MaxSizeAssumption DEF Missing
      <4> QED  BY <1>1, <4>1, FileFacts
    <3>2. \E m \in moments : m[2][canonical][asked.path] > MaxSize
      BY <1>1, <2>2, <3>1, FileFacts
    <3>3. answer'.status = 413  BY <2>2, StatusFacts
    <3> QED  BY <1>1, <3>2, <3>3 DEF AnswersAreGrounded
  <2> QED  BY <1>1, <2>1, <2>2
<1> QED  BY <1>3, <1>4, <1>5 DEF FilesInv

LEMMA ReadFileInv == FilesInv /\ ReadFile => FilesInv'
<1> SUFFICES ASSUME FilesInv, ReadFile  PROVE FilesInv'  OBVIOUS
<1> DEFINE Content == [Status(200) EXCEPT !.body = Here]
<1>1. /\ files = "read" /\ files' = "idle" /\ asked' = asked /\ moments' = moments
      /\ root' = root /\ tree' = tree /\ canonical' = canonical /\ path' = path
      /\ listing' = listing
      /\ \/ Here >= 0 /\ answer' = Content
         \/ Here < 0 /\ answer' = Status(404)
  BY DEF ReadFile, Answer
<1>2. files \in Resolved  BY <1>1 DEF Serving, Resolved
<1>3. FilesTypes' /\ Found'
  <2>1. listing' \in [ahead : SUBSET Paths, names : SUBSET Paths, size : Nat]
    BY <1>1 DEF FilesInv, FilesTypes
  <2> QED  BY <1>1, <1>2, <2>1, LaterStage
<1>4. Looked' /\ Counted'  BY <1>1 DEF Looked, Counted
<1>5. Here = Missing \/ Here \in Nat \ {0}  BY <1>1, FileFacts
<1>6. AnswersAreGrounded'
  <2>1. CASE Here < 0 /\ answer' = Status(404)
    <3>1. Here = Missing  BY <1>5, <2>1
    <3> QED  BY <1>1, <1>2, <2>1, <3>1, GoneGrounded
  <2>2. CASE Here >= 0 /\ answer' = Content
    <3>1. Content.status = 200 /\ Content.body = Here  BY DEF Status, NoAnswer
    <3> HIDE DEF Content
    <3>2. answer'.status = 200 /\ answer'.body = Here  BY <2>2, <3>1
    <3>3. Here > 0  BY <1>5, <2>2 DEF Missing
    <3>4. \/ \E m \in moments : m[2][canonical][asked.path] = Here
          \/ /\ asked.slash /\ asked.path = Folder
             /\ \E m \in moments : m[2][canonical][Index] = Here
      <4>1. PICK m \in moments : m[2] = tree  BY <1>1, FileFacts
      <4>2. Here = m[2][canonical][path[2]]  BY <1>1, <4>1, FileFacts
      <4> QED  BY <1>1, <4>2, FileFacts
    <3>5. ~(Here = 0)  BY <3>3
    <3> QED  BY <1>1, <3>2, <3>4, <3>5 DEF AnswersAreGrounded
  <2> QED  BY <1>1, <2>1, <2>2
<1> QED  BY <1>3, <1>4, <1>6 DEF FilesInv

(* A change of the tree is one more moment of the request at hand.         *)
LEMMA EditInv == FilesInv /\ Edit => FilesInv'
<1> SUFFICES ASSUME FilesInv, Edit  PROVE FilesInv'  OBVIOUS
<1>1. /\ canonical' = canonical /\ files' = files /\ asked' = asked /\ path' = path
      /\ answer' = answer
      /\ moments' = (IF files = "idle" THEN moments ELSE moments \cup {<<root', tree'>>})
  BY DEF Edit
<1>2. /\ root' \in Releases \cup {"none"}
      /\ tree' \in [Releases -> Trees]
  <2>1. CASE root' \in (Releases \cup {"none"}) \ {root} /\ tree' = tree
    BY <1>1, <2>1 DEF FilesInv, FilesTypes
  <2>2. CASE /\ \E release \in Releases, p \in Paths \ {Top}, n \in {Missing, Dir} \cup Sizes :
                   tree' = [tree EXCEPT ![release][p] = n]
             /\ \A release \in Releases : tree'[release] \in Trees
             /\ root' = root
    <3>1. PICK release, p, n : tree' = [tree EXCEPT ![release][p] = n]  BY <2>2
    <3>2. tree' = [r \in Releases |-> tree'[r]]  BY <3>1 DEF FilesInv, FilesTypes
    <3>3. tree' \in [Releases -> Trees]  BY <2>2, <3>2
    <3> QED  BY <1>1, <2>2, <3>3 DEF FilesInv, FilesTypes
  <2> QED  BY <2>1, <2>2 DEF Edit
<1>3. moments \subseteq moments' /\ (files # "idle" => <<root', tree'>> \in moments')  BY <1>1
<1>4. Found'
  <2>1. files \in Serving => <<root', tree'>> \in moments'  BY <1>1 DEF Serving
  <2> QED  BY <1>1, <1>3, <2>1 DEF FilesInv, Found
<1>5. Looked'  BY <1>1, <1>3 DEF FilesInv, Looked
<1>6. FilesTypes' /\ Counted'
  <2>1. CASE files # "entries"
    <3>1. listing' = listing  BY <2>1 DEF Edit
    <3> QED  BY <1>1, <1>2, <2>1, <3>1 DEF FilesInv, FilesTypes, Counted
  <2>2. CASE files = "entries"
    <3>1. listing' = [listing EXCEPT !.ahead = listing.ahead \cup (Opened' \ Opened)]
      BY <2>2 DEF Edit
    <3>2. /\ listing'.ahead = listing.ahead \cup (Opened' \ Opened)
          /\ listing'.names = listing.names /\ listing'.size = listing.size
          /\ listing \in [ahead : SUBSET Paths, names : SUBSET Paths, size : Nat]
      BY <3>1 DEF FilesInv, FilesTypes
    <3>3. Opened' \subseteq Paths  BY DEF Opened, Entries, Children
    <3>4. listing' \in [ahead : SUBSET Paths, names : SUBSET Paths, size : Nat]
      BY <3>1, <3>2, <3>3
    <3>5. FilesTypes'  BY <1>1, <1>2, <3>4 DEF FilesInv, FilesTypes
    <3>6. /\ Nameable(asked.path) \subseteq Nameable(asked.path)'
          /\ Changed(asked.path) => Changed(asked.path)'
      BY <1>1, <1>3 DEF Nameable, Changed
    <3>7. path[1] = canonical /\ path[2] = asked.path /\ <<root, tree>> \in moments
      BY <2>2, ListingFacts, HereFacts
    <3>8. \A q \in Opened' \ Opened :
             q \in Children(asked.path) /\ tree'[canonical][q] # Missing /\ tree[canonical][q] = Missing
      BY <1>1, <3>7 DEF Opened, Entries
    <3>9. Opened' \subseteq Nameable(asked.path)'
      <4>1. \A q \in Opened' : q \in Children(asked.path) /\ tree'[canonical][q] # Missing
        BY <1>1, <3>7 DEF Opened, Entries
      <4>2. <<root', tree'>> \in moments' /\ <<root', tree'>>[2] = tree'  BY <1>3, <2>2
      <4> QED  BY <1>1, <4>1, <4>2 DEF Nameable
    <3>10. Opened' \ Opened # {} => Changed(asked.path)'
      <4>1. <<root, tree>> \in moments' /\ <<root, tree>>[2] = tree  BY <1>3, <3>7
      <4> QED  BY <1>1, <3>8, <3>9, <4>1 DEF Changed
    <3>11. /\ listing.ahead \cup listing.names \subseteq Nameable(asked.path)
           /\ \E m \in moments : m[2][canonical][asked.path] = Dir
           /\ \/ Changed(asked.path)
              \/ listing.size = SizeOf(listing.names) /\ listing.ahead \cap listing.names = {}
      BY <2>2 DEF FilesInv, Counted
    <3>12. listing'.ahead \cup listing'.names \subseteq Nameable(asked.path)'
      BY <3>2, <3>6, <3>9, <3>11
    <3>13. (\E m \in moments : m[2][canonical][asked.path] = Dir)'  BY <1>1, <1>3, <3>11
    <3>14. \/ Changed(asked.path)'
           \/ listing'.size = SizeOf(listing'.names) /\ listing'.ahead \cap listing'.names = {}
      BY <3>2, <3>6, <3>10, <3>11
    <3>15. Counted'  BY <3>12, <3>13, <3>14 DEF Counted
    <3> QED  BY <3>5, <3>15
  <2> QED  BY <2>1, <2>2
<1>7. AnswersAreGrounded'
  <2>1. CASE files = "idle"
    BY <1>1, <2>1 DEF FilesInv, AnswersAreGrounded, At, TooMuchToList, Nameable
  <2>2. CASE files # "idle"  BY <1>1, <2>2 DEF AnswersAreGrounded
  <2> QED  BY <2>1, <2>2
<1> QED  BY <1>4, <1>5, <1>6, <1>7 DEF FilesInv

LEMMA FilesNextInv == FilesInv /\ [FilesNext]_filesVars => FilesInv'
<1> SUFFICES ASSUME FilesInv, [FilesNext]_filesVars  PROVE FilesInv'  OBVIOUS
<1>1. CASE FilesNext
  <2>1. CASE \E r \in Requests : Request(r)  BY <2>1, RequestInv
  <2> QED
    BY <1>1, <2>1, CanonicalRootInv, ResolvePathInv, LookAtInv, TryIndexInv, OpenDirectoryInv,
       NextEntryInv, EndOfEntriesInv, CheckSizeInv, ReadFileInv, EditInv
    DEF FilesNext, ServeNext
<1>2. CASE UNCHANGED filesVars
  BY <1>2 DEF filesVars, FilesInv, FilesTypes, Found, Looked, Counted, Changed, Nameable,
              AnswersAreGrounded, At, TooMuchToList
<1> QED  BY <1>1, <1>2

(* However many releases there are, however often the operator publishes,  *)
(* replaces or edits one, and however many requests come, every answer of  *)
(* serve_file was true at some moment of its request.                      *)
THEOREM AnswersAlwaysGrounded == FilesSpec => []AnswersAreGrounded
<1>1. FilesInv => AnswersAreGrounded  BY DEF FilesInv
<1> QED  BY <1>1, FilesInitInv, FilesNextInv, PTL DEF FilesSpec
-----------------------------------------------------------------------------
(* The invariant of an HTTP exchange.  What the server has sent so far and *)
(* has still to send is the document of one version in its framing.        *)
Sent == IF job.method = "HEAD" THEN << >> ELSE Framed(head.framing, Body(head.etag))

ExchangeTypes ==
    /\ job \in Jobs /\ site \in Sites
    /\ exchange \in {"request", "read", "parse", "done"}
    /\ url \in Urls /\ goal \in Urls /\ goal.port # 0
    /\ redirects \in 0..MaxRedirects
    /\ version \in Nat /\ version \in since /\ since \subseteq Nat

(* The head is the server's answer for the page the redirects lead to.     *)
HeadIsTheServers ==
    /\ head.framing \in {"length", "chunked", "close"}
    /\ head.etag \in Nat /\ head.length = head.etag
    /\ head.status = 200 => head.etag \in since
    /\ head.status = 304 => job.etag \in since
    /\ head.status = 302 => goal \in DOMAIN site /\ head.location \in Spellings(goal, site[goal])

Underway ==
    /\ exchange \in {"request", "read", "parse"} => Parse(url) = goal
    /\ exchange \in {"read", "parse"} =>
         /\ HeadIsTheServers
         /\ got \in Seq(Int) /\ wire \in Seq(Int) /\ got \o wire = Sent

ExchangeInv == ExchangeTypes /\ Underway /\ ReportIsTrue
-----------------------------------------------------------------------------
(* Parsing restores the port of a page, ...                                *)
LEMMA ParseFacts ==
  ASSUME NEW u \in Urls
  PROVE  /\ Parse(u) \in Urls /\ Parse(u).port # 0
         /\ u.port # 0 => Parse(u) = u
         /\ \A n : Parse([u EXCEPT !.port = n]) =
              [u EXCEPT !.port = IF n # 0 THEN n ELSE IF u.scheme = "https" THEN 443 ELSE 80]
<1>1. \A n \in Nat : [u EXCEPT !.port = n] \in Urls  BY DEF Urls
<1>2. u.port \in Nat  BY DEF Urls
<1>3. Parse(u) = [u EXCEPT !.port = IF u.port # 0 THEN u.port ELSE IF u.scheme = "https" THEN 443 ELSE 80]
  BY DEF Parse
<1>4. Parse(u) \in Urls /\ Parse(u).port # 0  BY <1>1, <1>2, <1>3 DEF Urls
<1>5. u.port # 0 => Parse(u) = u  BY <1>3 DEF Urls
<1>6. ASSUME NEW n
      PROVE  Parse([u EXCEPT !.port = n]) =
              [u EXCEPT !.port = IF n # 0 THEN n ELSE IF u.scheme = "https" THEN 443 ELSE 80]
  <2>1. u = [scheme |-> u.scheme, host |-> u.host, port |-> u.port, path |-> u.path]  BY DEF Urls
  <2>2. PICK w : w = [scheme |-> u.scheme, host |-> u.host, port |-> n, path |-> u.path]  OBVIOUS
  <2>3. [u EXCEPT !.port = n] = w /\ w.port = n /\ w.scheme = u.scheme  BY <2>1, <2>2
  <2>4. Parse(w) = [w EXCEPT !.port = IF n # 0 THEN n ELSE IF u.scheme = "https" THEN 443 ELSE 80]
    BY <2>3 DEF Parse
  <2>5. \A m : [w EXCEPT !.port = m] = [u EXCEPT !.port = m]  BY <2>1, <2>2
  <2> QED  BY <2>3, <2>4, <2>5
<1> QED  BY <1>4, <1>5, <1>6

(* ... and the last component of a path its directory.                     *)
LEMMA PathParts ==
  ASSUME NEW p \in Seq(STRING), p # << >>
  PROVE  /\ Front(p) \in Seq(STRING) /\ Last(p) \in STRING /\ Front(p) \o <<Last(p)>> = p
<1>1. Len(p) \in Nat /\ Len(p) >= 1  BY EmptySeq
<1>2. Front(p) = SubSeq(p, 1, Len(p) - 1) /\ Last(p) = p[Len(p)]  BY DEF Front, Last
<1> QED  BY <1>1, <1>2

(* However a server spells a redirect, the client finds the page meant.    *)
LEMMA RedirectFound ==
  ASSUME NEW page \in Urls, page.port # 0, NEW target \in Urls, target.port # 0,
         NEW location \in Spellings(page, target)
  PROVE  Resolve(page, location) \in Urls /\ Parse(Resolve(page, location)) = target
<1> DEFINE written == IF Implied(target) THEN [target EXCEPT !.port = 0] ELSE target
<1>1. /\ target.scheme \in {"http", "https"} /\ target.port \in Nat
      /\ target.path \in Seq(STRING) /\ target.path # << >>
      /\ page.path \in Seq(STRING) /\ page.path # << >>
      /\ target = [scheme |-> target.scheme, host |-> target.host, port |-> target.port, path |-> target.path]
      /\ page = [scheme |-> page.scheme, host |-> page.host, port |-> page.port, path |-> page.path]
  BY DEF Urls
<1>2. Parse(target) = target  BY ParseFacts
<1>3. written \in Urls /\ Parse(written) = target /\ written.scheme = target.scheme
  <2>1. CASE Implied(target)
    <3>1. target.port = IF target.scheme = "https" THEN 443 ELSE 80
      <4>1. Parse([target EXCEPT !.port = 0]) =
              [target EXCEPT !.port = IF target.scheme = "https" THEN 443 ELSE 80]
        BY ParseFacts
      <4> QED  BY <1>1, <2>1, <4>1 DEF Implied
    <3>2. Parse([target EXCEPT !.port = 0]) = [target EXCEPT !.port = target.port]  BY <3>1, ParseFacts
    <3>3. [target EXCEPT !.port = target.port] = target  BY <1>1
    <3>4. [target EXCEPT !.port = 0] \in Urls /\ [target EXCEPT !.port = 0].scheme = target.scheme
      BY DEF Urls
    <3> QED  BY <2>1, <3>2, <3>3, <3>4
  <2>2. CASE ~Implied(target)  BY <1>2, <2>2
  <2> QED  BY <2>1, <2>2
<1>4. \/ location.form = "absolute" /\ location.url \in {target, written}
      \/ location.form = "network" /\ location.url = written /\ page.scheme = target.scheme
      \/ /\ location.form = "path" /\ location.url = target
         /\ page.host = target.host /\ page.port = target.port /\ page.scheme = target.scheme
      \/ /\ location.form = "relative" /\ location.url = [target EXCEPT !.path = <<Last(@)>>]
         /\ page.host = target.host /\ page.port = target.port /\ page.scheme = target.scheme
         /\ Front(page.path) = Front(target.path)
  BY DEF Spellings
<1> HIDE DEF written
<1>5. CASE location.form = "absolute" /\ location.url \in {target, written}
  <2>1. Resolve(page, location) = location.url  BY <1>5 DEF Resolve
  <2> QED  BY <1>2, <1>3, <1>5, <2>1
<1>6. CASE location.form = "network" /\ location.url = written /\ page.scheme = target.scheme
  <2>1. Resolve(page, location) = [written EXCEPT !.scheme = page.scheme]  BY <1>6 DEF Resolve
  <2>2. [written EXCEPT !.scheme = page.scheme] = written  BY <1>3, <1>6 DEF Urls
  <2> QED  BY <1>3, <2>1, <2>2
<1>7. CASE /\ location.form = "path" /\ location.url = target
           /\ page.host = target.host /\ page.port = target.port /\ page.scheme = target.scheme
  <2>1. Resolve(page, location) = [page EXCEPT !.path = target.path]  BY <1>7 DEF Resolve
  <2>2. [page EXCEPT !.path = target.path] = target  BY <1>1, <1>7
  <2> QED  BY <1>2, <2>1, <2>2
<1>8. CASE /\ location.form = "relative" /\ location.url = [target EXCEPT !.path = <<Last(@)>>]
           /\ page.host = target.host /\ page.port = target.port /\ page.scheme = target.scheme
           /\ Front(page.path) = Front(target.path)
  <2>1. location.url.path = <<Last(target.path)>>  BY <1>1, <1>8
  <2>2. Resolve(page, location) = [page EXCEPT !.path = Front(page.path) \o <<Last(target.path)>>]
    BY <1>1, <1>8, <2>1 DEF Resolve
  <2>3. Front(page.path) \o <<Last(target.path)>> = target.path  BY <1>1, <1>8, PathParts
  <2>4. Resolve(page, location) = [page EXCEPT !.path = target.path]  BY <2>2, <2>3
  <2>5. [page EXCEPT !.path = target.path] = target  BY <1>1, <1>8
  <2> QED  BY <1>2, <2>4, <2>5
<1> QED  BY <1>4, <1>5, <1>6, <1>7, <1>8
-----------------------------------------------------------------------------
\* The body of version v in chunks of one cell.
ChunksOf(v) == [i \in 1..v |-> <<SizeLine, v, LineEnd>>]

(* In the chunks before the last one a cell of the body is every third     *)
(* cell, and none of the cells is the last chunk.                          *)
LEMMA ChunkCells ==
  ASSUME NEW v \in Nat, NEW cells, cells = Ext!FlattenSeq(ChunksOf(v))
  PROVE  /\ cells \in Seq(Int) /\ Len(cells) = 3 * v
         /\ \A i \in 1..v : cells[3 * i - 1] = v
         /\ \A i \in 1..(3 * v) : cells[i] # LastChunk
<1> DEFINE F(k) == Ext!FlattenSeq(SubSeq(ChunksOf(v), 1, k))
           Good(k) == /\ F(k) \in Seq(Int) /\ Len(F(k)) = 3 * k
                      /\ \A i \in 1..k : F(k)[3 * i - 1] = v
                      /\ \A i \in 1..(3 * k) : F(k)[i] # LastChunk
           P == {k \in 0..v : ~Good(k)}
<1>1. /\ <<SizeLine, v, LineEnd>> \in Seq(Int) /\ Len(<<SizeLine, v, LineEnd>>) = 3
      /\ <<SizeLine, v, LineEnd>>[1] # LastChunk /\ <<SizeLine, v, LineEnd>>[2] = v
      /\ v # LastChunk /\ <<SizeLine, v, LineEnd>>[3] # LastChunk
  BY DEF SizeLine, LineEnd, LastChunk
<1>2. ChunksOf(v) \in Seq(Seq(Int)) /\ Len(ChunksOf(v)) = v  BY <1>1 DEF ChunksOf
<1>3. \A k \in 0..v : SubSeq(ChunksOf(v), 1, k) \in Seq(Seq(Int))  BY <1>2
<1>4. Good(0)
  <2>1. SubSeq(ChunksOf(v), 1, 0) = << >>  BY <1>2
  <2>2. F(0) = << >>  BY <2>1, FlattenEmpty
  <2> HIDE DEF F
  <2>3. F(0) \in Seq(Int) /\ Len(F(0)) = 0  BY <2>2, EmptySeq
  <2>4. \A i \in 1..0 : FALSE  OBVIOUS
  <2>5. 3 * 0 = 0  OBVIOUS
  <2> QED  BY <2>3, <2>4, <2>5
<1>5. ASSUME NEW k \in 0..(v - 1), Good(k)  PROVE Good(k + 1)
  <2>1. PICK s : s = F(k)  OBVIOUS
  <2>2. PICK x : x = <<SizeLine, v, LineEnd>>  OBVIOUS
  <2>3. PICK t : t = F(k + 1)  OBVIOUS
  <2>4. t = s \o x
    <3>1. k \in 0..(Len(ChunksOf(v)) - 1)  BY <1>2
    <3>2. F(k + 1) = F(k) \o ChunksOf(v)[k + 1]  BY <1>2, <3>1, FlattenStep
    <3>3. ChunksOf(v)[k + 1] = x  BY <2>2 DEF ChunksOf
    <3> QED  BY <2>1, <2>3, <3>2, <3>3
  <2>5. /\ s \in Seq(Int) /\ Len(s) = 3 * k
        /\ \A i \in 1..k : s[3 * i - 1] = v
        /\ \A i \in 1..(3 * k) : s[i] # LastChunk
    BY <1>5, <2>1
  <2>6. x \in Seq(Int) /\ Len(x) = 3 /\ x[1] # LastChunk /\ x[2] = v /\ x[2] # LastChunk /\ x[3] # LastChunk
    BY <1>1, <2>2
  <2> HIDE DEF F
  <2>7. /\ t \in Seq(Int) /\ Len(t) = 3 * k + 3
        /\ \A i \in 1..(3 * k) : t[i] = s[i]
        /\ \A i \in 1..3 : t[3 * k + i] = x[i]
    <3>1. /\ s \o x \in Seq(Int) /\ Len(s \o x) = Len(s) + Len(x)
          /\ \A i \in 1..Len(s) : (s \o x)[i] = s[i]
          /\ \A i \in 1..Len(x) : (s \o x)[Len(s) + i] = x[i]
      <4>1. s \in Seq(Int) /\ x \in Seq(Int)  BY <2>5, <2>6
      <4> QED  BY <4>1, ConcatFacts
    <3> QED  BY <2>4, <2>5, <2>6, <3>1
  <2>8. \A i \in 1..(k + 1) : t[3 * i - 1] = v
    <3> TAKE i \in 1..(k + 1)
    <3>1. CASE i <= k
      <4>1. 3 * i - 1 \in 1..(3 * k) /\ i \in 1..k  BY <3>1
      <4> QED  BY <2>5, <2>7, <4>1
    <3>2. CASE i = k + 1
      <4>1. 3 * i - 1 = 3 * k + 2  BY <3>2
      <4>2. t[3 * k + 2] = x[2]
        <5>1. 2 \in 1..3  OBVIOUS
        <5> QED  BY <2>7, <5>1
      <4> QED  BY <2>6, <4>1, <4>2
    <3> QED  BY <3>1, <3>2
  <2>9. \A i \in 1..(3 * (k + 1)) : t[i] # LastChunk
    <3> TAKE i \in 1..(3 * (k + 1))
    <3>1. CASE i <= 3 * k  BY <2>5, <2>7, <3>1
    <3>2. CASE i > 3 * k
      <4>1. PICK j \in 1..3 : i = 3 * k + j
        <5>1. i - 3 * k \in 1..3 /\ i = 3 * k + (i - 3 * k)  BY <3>2
        <5> QED  BY <5>1
      <4>2. t[i] = x[j]  BY <2>7, <4>1
      <4> QED  BY <2>6, <4>1, <4>2
    <3> QED  BY <3>1, <3>2
  <2> QED  BY <2>3, <2>7, <2>8, <2>9
<1>6. \A k \in 0..v : Good(k)
  <2> SUFFICES ASSUME P # {}  PROVE FALSE  OBVIOUS
  <2>1. IsFiniteSet(P) /\ P \subseteq Nat
    <3>1. IsFiniteSet(0..v)  BY FS_Interval
    <3> QED  BY <3>1, FS_Subset
  <2>2. PICK m \in P : \A i \in P : m <= i
    <3> HIDE DEF P
    <3> QED  BY <2>1, Smallest
  <2>3. m \in 0..v /\ ~Good(m)  OBVIOUS
  <2> HIDE DEF Good
  <2>4. m # 0  BY <1>4, <2>3
  <2>5. m - 1 \in 0..(v - 1) /\ m - 1 \notin P /\ m - 1 + 1 = m  BY <2>2, <2>3, <2>4
  <2>6. Good(m - 1)  BY <2>5
  <2>7. Good(m - 1 + 1)  BY <1>5, <2>5, <2>6
  <2> QED  BY <2>3, <2>5, <2>7
<1>7. SubSeq(ChunksOf(v), 1, v) = ChunksOf(v)  BY <1>2
<1>8. Good(v)
  <2> HIDE DEF Good
  <2> QED  BY <1>6
<1>9. F(v) = cells  BY <1>7, Zenon
<1> HIDE DEF F
<1> QED  BY <1>8, <1>9

(* The end of the chunks comes last, and then the whole body is there.     *)
LEMMA ChunkedFacts ==
  \A v \in Nat : \A all : all = Framed("chunked", Body(v)) =>
     /\ all \in Seq(Int) /\ Len(all) = 3 * v + 1
     /\ \A i \in 1..(3 * v) : all[i] # LastChunk
     /\ DecodeChunked(all) = Body(v)
<1> TAKE v \in Nat
<1> TAKE all
<1> HAVE all = Framed("chunked", Body(v))
<1>1. PICK c : c = Ext!FlattenSeq(ChunksOf(v))  OBVIOUS
<1>2. ChunksOf(v) = [i \in 1..Len(Body(v)) |-> <<SizeLine, Body(v)[i], LineEnd>>]
  BY DEF ChunksOf, Body
<1>3. Framed("chunked", Body(v)) = c \o <<LastChunk>>
  <2>1. FlattenSeq(ChunksOf(v)) = Ext!FlattenSeq(ChunksOf(v))  BY DEF FlattenSeq, Ext!FlattenSeq
  <2> QED  BY <1>1, <1>2, <2>1 DEF Framed
<1>4. /\ c \in Seq(Int) /\ Len(c) = 3 * v
      /\ \A i \in 1..v : c[3 * i - 1] = v
      /\ \A i \in 1..(3 * v) : c[i] # LastChunk
  BY <1>1, ChunkCells
<1>5. all = c \o <<LastChunk>>  BY <1>3
<1>6. all \in Seq(Int) /\ Len(all) = 3 * v + 1 /\ \A i \in 1..(3 * v) : all[i] = c[i]
  <2>1. <<LastChunk>> \in Seq(Int) /\ Len(<<LastChunk>>) = 1  BY DEF LastChunk
  <2>2. c \in Seq(Int)  BY <1>4
  <2>3. /\ c \o <<LastChunk>> \in Seq(Int) /\ Len(c \o <<LastChunk>>) = Len(c) + 1
        /\ \A i \in 1..Len(c) : (c \o <<LastChunk>>)[i] = c[i]
    BY <2>1, <2>2, ConcatFacts
  <2> QED  BY <1>4, <1>5, <2>3
<1>7. DecodeChunked(all) = Body(v)
  <2>1. Len(all) \div 3 = v  BY SMTT(30), <1>6
  <2>2. \A i \in 1..v : 3 * i - 1 \in 1..(3 * v)  OBVIOUS
  <2>3. \A i \in 1..v : all[3 * i - 1] = v  BY <1>4, <1>6, <2>2
  <2> QED  BY <2>1, <2>3 DEF DecodeChunked, Body
<1> QED  BY <1>3, <1>4, <1>5, <1>6, <1>7

LEMMA BodyFacts ==
  ASSUME NEW v \in Nat
  PROVE  /\ Body(v) \in Seq(Int) /\ Len(Body(v)) = v
         /\ v = 0 => Body(v) = << >>
BY DEF Body

LEMMA FramedType ==
  ASSUME NEW v \in Nat, NEW f \in {"length", "chunked", "close"}
  PROVE  Framed(f, Body(v)) \in Seq(Int)
<1>1. Body(v) \in Seq(Int)  BY BodyFacts
<1>2. CASE f = "length"
  <2>1. Framed(f, Body(v)) = Body(v) \o <<Junk>>  BY <1>2 DEF Framed
  <2>2. <<Junk>> \in Seq(Int)  BY DEF Junk
  <2> QED  BY <1>1, <2>1, <2>2, ConcatFacts
<1>3. CASE f = "chunked"  BY <1>3, ChunkedFacts
<1>4. CASE f = "close"  BY <1>1, <1>4 DEF Framed
<1> QED  BY <1>2, <1>3, <1>4
-----------------------------------------------------------------------------
LEMMA ExchangeInitInv == ExchangeInit("request") => ExchangeInv
<1> SUFFICES ASSUME ExchangeInit("request")  PROVE ExchangeInv  OBVIOUS
<1>1. /\ job \in Jobs /\ site \in Sites /\ exchange = "request" /\ url \in DOMAIN site
      /\ redirects = 0 /\ goal = Parse(url) /\ version = 1 /\ since = {1} /\ result = Failed
  BY DEF ExchangeInit
<1>2. url \in Urls /\ Parse(url) \in Urls /\ Parse(url).port # 0
  <2>1. url \in Urls  BY <1>1, SitesAssumption
  <2> QED  BY <2>1, ParseFacts
<1>3. ExchangeTypes  BY <1>1, <1>2, MaxRedirectsAssumption DEF ExchangeTypes
<1> QED  BY <1>1, <1>3 DEF ExchangeInv, Underway, ReportIsTrue, Failed

(* Every failure ends the exchange and reports nothing.                    *)
LEMMA FailInv ==
  ASSUME ExchangeInv, exchange' = "done", result'.kind = "error",
         UNCHANGED <<job, site, version, url, redirects, head, wire, got, goal, since>>
  PROVE  ExchangeInv'
<1>1. ExchangeTypes'  BY DEF ExchangeInv, ExchangeTypes
<1> QED  BY <1>1 DEF ExchangeInv, Underway, ReportIsTrue

LEMMA ErrorKind == \A n : [Failed EXCEPT !.status = n].kind = "error"
BY DEF Failed

(* The server answers for the page the redirects lead to.                  *)
LEMMA AskInv == ExchangeInv /\ Ask => ExchangeInv'
<1> SUFFICES ASSUME ExchangeInv, Ask  PROVE ExchangeInv'  OBVIOUS
<1>1. /\ exchange = "request" /\ exchange' = "read" /\ got' = << >>
      /\ UNCHANGED <<job, site, version, url, redirects, result, goal, since>>
      /\ ExchangeTypes /\ Parse(url) = goal
  BY DEF Ask, ExchangeInv, Underway
<1>2. PICK status \in StatusOf(goal), framing \in {"length", "chunked", "close"} :
        Respond(goal, status, framing)
  BY <1>1 DEF Ask
<1>3. PICK v : v = IF status = 200 THEN version ELSE 0  OBVIOUS
<1>4. v \in Nat /\ version \in since  BY <1>1, <1>3 DEF ExchangeTypes
<1>5. (IF status = 200 THEN Body(version) ELSE << >>) = Body(v) /\ Len(Body(v)) = v
  BY <1>3, <1>4, BodyFacts
<1>6. PICK location \in IF status = 302 THEN Spellings(goal, site[goal]) ELSE {<< >>} :
        /\ head' = [status |-> status, framing |-> framing, length |-> v, etag |-> v, location |-> location]
        /\ wire' = IF job.method = "HEAD" THEN << >> ELSE Framed(framing, Body(v))
  <2> DEFINE body == IF status = 200 THEN Body(version) ELSE << >>
  <2>1. PICK location \in IF status = 302 THEN Spellings(goal, site[goal]) ELSE {<< >>} :
          /\ head' = [status |-> status, framing |-> framing, length |-> Len(body),
                      etag |-> IF status = 200 THEN version ELSE 0, location |-> location]
          /\ wire' = IF job.method = "HEAD" THEN << >> ELSE Framed(framing, body)
    BY <1>2 DEF Respond
  <2>2. body = Body(v) /\ Len(body) = v  BY <1>5
  <2> HIDE DEF body
  <2>3. head' = [status |-> status, framing |-> framing, length |-> v, etag |-> v, location |-> location]
    BY <1>3, <2>1, <2>2
  <2>4. wire' = IF job.method = "HEAD" THEN << >> ELSE Framed(framing, Body(v))  BY <2>1, <2>2
  <2>5. location \in IF status = 302 THEN Spellings(goal, site[goal]) ELSE {<< >>}  BY <2>1
  <2> QED  BY <2>3, <2>4, <2>5, Zenon
<1>7. HeadIsTheServers'
  <2>1. /\ head'.framing = framing /\ head'.etag = v /\ head'.length = v /\ head'.status = status
        /\ head'.location = location
    BY <1>6
  <2>2. status = 304 => job.etag = version  BY <1>2 DEF StatusOf
  <2>3. status = 302 => goal \in DOMAIN site  BY <1>2 DEF StatusOf
  <2>4. status = 200 => v \in since  BY <1>3, <1>4
  <2> QED  BY <1>1, <1>4, <1>6, <2>1, <2>2, <2>3, <2>4 DEF HeadIsTheServers
<1>8. wire' = Sent' /\ wire' \in Seq(Int)
  <2>1. wire' = Sent'  BY <1>1, <1>6 DEF Sent
  <2>2. Framed(framing, Body(v)) \in Seq(Int)  BY <1>2, <1>4, FramedType
  <2>3. << >> \in Seq(Int)  BY EmptySeq
  <2> QED  BY <1>6, <2>1, <2>2, <2>3
<1>9. got' \in Seq(Int) /\ got' \o wire' = wire'
  <2>1. << >> \in Seq(Int)  BY EmptySeq
  <2> QED  BY <1>1, <1>8, <2>1, ConcatNothing
<1>10. ExchangeTypes'  BY <1>1 DEF ExchangeTypes
<1>11. Underway'  BY <1>1, <1>7, <1>8, <1>9 DEF Underway
<1>12. ReportIsTrue'  BY <1>1 DEF ExchangeInv, ReportIsTrue, Whole
<1> QED  BY <1>10, <1>11, <1>12 DEF ExchangeInv

LEMMA ReadInv == ExchangeInv /\ Read => ExchangeInv'
<1> SUFFICES ASSUME ExchangeInv, Read  PROVE ExchangeInv'  OBVIOUS
<1>1. /\ exchange = "read" /\ wire # << >> /\ got' = Append(got, Head(wire)) /\ wire' = Tail(wire)
      /\ UNCHANGED <<job, site, version, exchange, url, redirects, head, result, goal, since>>
      /\ ExchangeTypes /\ Underway /\ ReportIsTrue
  BY DEF Read, ExchangeInv
<1>2. HeadIsTheServers /\ got \in Seq(Int) /\ wire \in Seq(Int) /\ got \o wire = Sent
  BY <1>1 DEF Underway
<1>3. got' \in Seq(Int) /\ wire' \in Seq(Int) /\ got' \o wire' = got \o wire
  <2>1. PICK g, w : g = got /\ w = wire  OBVIOUS
  <2>2. g \in Seq(Int) /\ w \in Seq(Int) /\ w # << >>  BY <1>1, <1>2, <2>1
  <2>3. Append(g, Head(w)) \in Seq(Int) /\ Tail(w) \in Seq(Int)  BY <2>2
  <2>4. Append(g, Head(w)) \o Tail(w) = g \o w  BY <2>2
  <2> QED  BY <1>1, <2>1, <2>3, <2>4
<1>4. ExchangeTypes' /\ ReportIsTrue'  BY <1>1 DEF ExchangeTypes, ReportIsTrue, Whole
<1>5. HeadIsTheServers' /\ Sent' = Sent  BY <1>1, <1>2 DEF HeadIsTheServers, Sent
<1>6. Underway'  BY <1>1, <1>2, <1>3, <1>5 DEF Underway
<1> QED  BY <1>4, <1>6 DEF ExchangeInv

LEMMA EofInv == ExchangeInv /\ Eof => ExchangeInv'
<1> SUFFICES ASSUME ExchangeInv, Eof  PROVE ExchangeInv'  OBVIOUS
<1>1. /\ exchange = "read" /\ exchange' = "parse"
      /\ UNCHANGED <<job, site, version, url, redirects, head, wire, got, result, goal, since>>
      /\ ExchangeTypes /\ Underway /\ ReportIsTrue
  BY DEF Eof, ExchangeInv
<1>2. ExchangeTypes' /\ ReportIsTrue'  BY <1>1 DEF ExchangeTypes, ReportIsTrue, Whole
<1>3. HeadIsTheServers' /\ Sent' = Sent  BY <1>1 DEF Underway, HeadIsTheServers, Sent
<1>4. Underway'  BY <1>1, <1>3 DEF Underway
<1> QED  BY <1>2, <1>4 DEF ExchangeInv

(* What a publisher does later takes nothing from what was true.           *)
LEMMA PublishInv == ExchangeInv /\ Publish => ExchangeInv'
<1> SUFFICES ASSUME ExchangeInv, Publish  PROVE ExchangeInv'  OBVIOUS
<1>1. /\ version' = version + 1 /\ since' = since \cup {version'}
      /\ UNCHANGED <<job, site, exchange, url, redirects, head, wire, got, result, goal>>
      /\ ExchangeTypes /\ Underway /\ ReportIsTrue
  BY DEF Publish, ExchangeInv
<1>2. ExchangeTypes'  BY <1>1 DEF ExchangeTypes
<1>3. ReportIsTrue'
  <2>1. Whole(result) => Whole(result)'  BY <1>1 DEF Whole
  <2> QED  BY <1>1, <2>1 DEF ReportIsTrue
<1>4. HeadIsTheServers => HeadIsTheServers'  BY <1>1 DEF HeadIsTheServers
<1>5. Sent' = Sent  BY <1>1 DEF Sent
<1>6. Underway'  BY <1>1, <1>4, <1>5 DEF Underway
<1> QED  BY <1>2, <1>3, <1>6 DEF ExchangeInv
-----------------------------------------------------------------------------
(* A redirect that is followed leads to the page it names.                 *)
LEMMA RedirectInv == ExchangeInv /\ FetchRedirected => ExchangeInv'
<1> SUFFICES ASSUME ExchangeInv, FetchRedirected  PROVE ExchangeInv'  OBVIOUS
<1>1. /\ exchange = "parse" /\ head.status = 302
      /\ UNCHANGED <<job, site, version, head, wire, got, since>>
      /\ ExchangeTypes /\ Underway /\ ReportIsTrue
  BY DEF FetchRedirected, ExchangeInv
<1>2. CASE /\ Follows
           /\ url' = Resolve(Parse(url), head.location)
           /\ redirects' = redirects + 1
           /\ goal' = site[goal]
           /\ exchange' = "request"
           /\ UNCHANGED result
  <2>1. /\ Parse(url) = goal /\ goal \in DOMAIN site /\ head.location \in Spellings(goal, site[goal])
    BY <1>1 DEF Underway, HeadIsTheServers
  <2>2. /\ goal \in Urls /\ goal.port # 0 /\ site[goal] \in Urls /\ site[goal].port # 0
    BY <1>1, <2>1, SitesAssumption DEF ExchangeTypes
  <2>3. url' \in Urls /\ Parse(url)' = goal'
    <3>1. Resolve(goal, head.location) \in Urls /\ Parse(Resolve(goal, head.location)) = site[goal]
      BY <2>1, <2>2, RedirectFound
    <3> QED  BY <1>2, <2>1, <3>1
  <2>4. redirects' \in 0..MaxRedirects
    BY <1>1, <1>2, MaxRedirectsAssumption DEF ExchangeTypes, Follows
  <2>5. ExchangeTypes'  BY <1>1, <1>2, <2>2, <2>3, <2>4 DEF ExchangeTypes
  <2>6. Underway'  BY <1>2, <2>3 DEF Underway
  <2>7. ReportIsTrue'  BY SMTT(30), ZenonT(30), <1>1, <1>2 DEF ReportIsTrue, Whole
  <2> QED  BY <2>5, <2>6, <2>7 DEF ExchangeInv
<1>3. CASE /\ ~Follows
           /\ Finish(Error)
           /\ UNCHANGED <<url, redirects, goal>>
  BY <1>1, <1>3, ErrorKind, FailInv DEF Finish, Error
<1> QED  BY <1>2, <1>3 DEF FetchRedirected

(* A response that parses has the body of the version its tag names, whole *)
(* or, when only the close ended it, the beginning of it.                  *)
LEMMA ParsedIsWhole ==
  ASSUME ExchangeInv, exchange = "parse", ParseOk, job.method # "HEAD", head.status = 200
  PROVE  \/ ParsedBody = Body(head.etag)
         \/ head.framing = "close" /\ IsPrefix(ParsedBody, Body(head.etag))
<1>1. /\ HeadIsTheServers /\ got \in Seq(Int) /\ wire \in Seq(Int) /\ got \o wire = Sent
  BY DEF ExchangeInv, Underway
<1>2. PICK v \in Nat : v = head.etag /\ v = head.length  BY <1>1 DEF HeadIsTheServers
<1>3. ~NoBody  BY DEF NoBody
<1>4. PICK g, w : g = got /\ w = wire  OBVIOUS
<1>5. g \in Seq(Int) /\ w \in Seq(Int) /\ g \o w = Framed(head.framing, Body(v))
  BY <1>1, <1>2, <1>4 DEF Sent
<1>6. /\ Len(g) \in Nat /\ Len(w) \in Nat /\ Len(g \o w) = Len(g) + Len(w)
      /\ \A i \in 1..Len(g) : (g \o w)[i] = g[i]
  <2>1. g \in Seq(Int) /\ w \in Seq(Int)  BY <1>5
  <2> QED  BY <2>1, ConcatFacts
<1>7. Body(v) \in Seq(Int) /\ Len(Body(v)) = v  BY <1>2, BodyFacts
<1>8. CASE head.framing = "length"
  <2> DEFINE all == Body(v) \o <<Junk>>
  <2>2. /\ Len(all) = v + 1 /\ \A i \in 1..v : all[i] = Body(v)[i]
    <3>1. <<Junk>> \in Seq(Int) /\ Len(<<Junk>>) = 1  BY DEF Junk
    <3>2. Body(v) \in Seq(Int)  BY <1>7
    <3> QED  BY <1>7, <3>1, <3>2, ConcatFacts
  <2>3. g \o w = all  BY <1>5, <1>8 DEF Framed
  <2> HIDE DEF all
  <2>4. Len(g) >= v  BY <1>2, <1>3, <1>4, <1>8 DEF ParseOk, LongEnough
  <2>5. \A i \in 1..v : g[i] = Body(v)[i]
    <3> TAKE i \in 1..v
    <3>1. i \in 1..Len(g)  BY <1>6, <2>4
    <3>2. (g \o w)[i] = g[i]  BY <1>6, <3>1
    <3> QED  BY <2>2, <2>3, <3>2
  <2>6. ParsedBody = SubSeq(g, 1, v)
    <3>1. (IF Len(got) < head.length THEN Len(got) ELSE head.length) = v  BY <1>2, <1>4, <1>6, <2>4
    <3> QED  BY <1>3, <1>4, <1>8, <3>1 DEF ParsedBody
  <2>7. SubSeq(g, 1, v) = Body(v)
    <3>1. SubSeq(g, 1, v) = [i \in 1..v |-> g[i]]  BY <1>5, <1>6, <2>4
    <3>2. Body(v) = [i \in 1..v |-> Body(v)[i]]  BY DEF Body
    <3> QED  BY <2>5, <3>1, <3>2
  <2> QED  BY <1>2, <2>6, <2>7
<1>9. CASE head.framing = "chunked"
  <2> DEFINE all == Framed("chunked", Body(v))
  <2>2. /\ Len(all) = 3 * v + 1 /\ \A i \in 1..(3 * v) : all[i] # LastChunk
        /\ DecodeChunked(all) = Body(v)
    <3>1. v \in Nat  BY <1>2
    <3>2. \A x : x = Framed("chunked", Body(v)) =>
            /\ x \in Seq(Int) /\ Len(x) = 3 * v + 1
            /\ \A i \in 1..(3 * v) : x[i] # LastChunk
            /\ DecodeChunked(x) = Body(v)
      BY <3>1, ChunkedFacts, Zenon
    <3> QED  BY <3>2
  <2>3. g \o w = all  BY <1>5, <1>9
  <2> HIDE DEF all
  <2>4. PICK i \in 1..Len(g) : g[i] = LastChunk  BY <1>3, <1>4, <1>9 DEF ParseOk, ChunksEnd
  <2>5. all[i] = LastChunk /\ i <= 3 * v + 1  BY <1>6, <2>2, <2>3, <2>4
  <2>6. i \notin 1..(3 * v)  BY <2>2, <2>5
  <2>7. i = 3 * v + 1  BY <1>6, <2>4, <2>5, <2>6
  <2>8. Len(w) = 0  BY <1>6, <2>2, <2>3, <2>4, <2>7
  <2>9. g = all
    <3>1. w = << >>  BY <1>5, <2>8, EmptySeq
    <3>2. g \o << >> = g
      <4>1. g \in Seq(Int)  BY <1>5
      <4> QED  BY <4>1, ConcatNothing
    <3> QED  BY <2>3, <3>1, <3>2, Zenon
  <2>10. ParsedBody = DecodeChunked(g)  BY <1>3, <1>4, <1>9 DEF ParsedBody
  <2> QED  BY <1>2, <2>2, <2>9, <2>10
<1>10. CASE head.framing = "close"
  <2>1. g \o w = Body(v)  BY <1>5, <1>10 DEF Framed
  <2>2. ParsedBody = g  BY <1>3, <1>4, <1>10 DEF ParsedBody
  <2>3. IsPrefix(g, Body(v))
    <3>1. Len(g) <= Len(Body(v))  BY <1>6, <2>1
    <3>2. \A i \in 1..Len(g) : g[i] = Body(v)[i]  BY <1>6, <2>1
    <3>3. SubSeq(Body(v), 1, Len(g)) = [i \in 1..Len(g) |-> Body(v)[i]]  BY <1>6, <1>7, <3>1
    <3>4. SubSeq(g, 1, Len(g)) = [i \in 1..Len(g) |-> g[i]]  BY <1>5, <1>6
    <3> QED  BY <3>1, <3>2, <3>3, <3>4 DEF IsPrefix
  <2> QED  BY <1>2, <1>10, <2>2, <2>3
<1> QED  BY <1>1, <1>8, <1>9, <1>10 DEF HeadIsTheServers

\* The exchange ends; what was sent and read stays as it is.
Reported ==
    /\ exchange' = "done"
    /\ UNCHANGED <<job, site, version, url, redirects, head, wire, got, goal, since>>

LEMMA ModifiedInv == ExchangeInv /\ FetchModified => ExchangeInv'
<1> SUFFICES ASSUME ExchangeInv, FetchModified  PROVE ExchangeInv'  OBVIOUS
<1>1. /\ exchange = "parse" /\ ParseOk /\ job.kind = "fetch" /\ head.status = 200 /\ Reported
      /\ result' = [kind |-> "modified", status |-> 200, body |-> ParsedBody, etag |-> head.etag,
                    exact |-> head.framing # "close"]
  BY DEF FetchModified, Finish, Reported
<1>2. ExchangeTypes /\ HeadIsTheServers  BY <1>1 DEF ExchangeInv, Underway
<1>3. job.method # "HEAD"  BY <1>1, <1>2 DEF ExchangeTypes, Jobs
<1>4. Whole(result)'
  <2>1. \/ ParsedBody = Body(head.etag)
        \/ head.framing = "close" /\ IsPrefix(ParsedBody, Body(head.etag))
    BY <1>1, <1>3, ParsedIsWhole
  <2>2. head.etag \in since  BY <1>1, <1>2 DEF HeadIsTheServers
  <2>3. since' = since  BY <1>1 DEF Reported
  <2>4. PICK b : b = ParsedBody  OBVIOUS
  <2>5. result'.body = b /\ result'.etag = head.etag /\ result'.exact = (head.framing # "close")
    BY <1>1, <2>4
  <2> QED  BY <2>1, <2>2, <2>3, <2>4, <2>5 DEF Whole
<1>5. ExchangeTypes' /\ Underway'  BY <1>1, <1>2 DEF Reported, ExchangeTypes, Underway
<1>6. ReportIsTrue'  BY <1>1, <1>4 DEF ReportIsTrue
<1> QED  BY <1>5, <1>6 DEF ExchangeInv

LEMMA NotModifiedInv == ExchangeInv /\ FetchNotModified => ExchangeInv'
<1> SUFFICES ASSUME ExchangeInv, FetchNotModified  PROVE ExchangeInv'  OBVIOUS
<1>1. /\ exchange = "parse" /\ head.status = 304 /\ Reported
      /\ result' = [kind |-> "not modified", status |-> 304]
  BY DEF FetchNotModified, Finish, Reported
<1>2. ExchangeTypes /\ HeadIsTheServers  BY <1>1 DEF ExchangeInv, Underway
<1>3. job'.etag \in since'  BY <1>1, <1>2 DEF HeadIsTheServers, Reported
<1>4. ExchangeTypes' /\ Underway'  BY <1>1, <1>2 DEF Reported, ExchangeTypes, Underway
<1>5. ReportIsTrue'  BY <1>1, <1>3 DEF ReportIsTrue
<1> QED  BY <1>4, <1>5 DEF ExchangeInv

LEMMA PassOnInv == ExchangeInv /\ PassOn => ExchangeInv'
<1> SUFFICES ASSUME ExchangeInv, PassOn  PROVE ExchangeInv'  OBVIOUS
<1>1. /\ exchange = "parse" /\ ParseOk /\ job.kind # "fetch" /\ Reported
      /\ result' = [kind |-> "response", status |-> head.status, body |-> ParsedBody, etag |-> head.etag,
                    headers |-> IF job.kind = "proxy" THEN PassedHeaders ELSE {},
                    exact |-> head.framing # "close"]
  BY DEF PassOn, Finish, Reported
<1>2. ExchangeTypes /\ HeadIsTheServers  BY <1>1 DEF ExchangeInv, Underway
<1>3. job' = job /\ since' = since  BY <1>1 DEF Reported
<1>4. result'.status = 200 /\ job'.method # "HEAD" => Whole(result)'
  <2> SUFFICES ASSUME head.status = 200, job.method # "HEAD"  PROVE Whole(result)'  BY <1>1, <1>3
  <2>1. \/ ParsedBody = Body(head.etag)
        \/ head.framing = "close" /\ IsPrefix(ParsedBody, Body(head.etag))
    BY <1>1, ParsedIsWhole
  <2>2. head.etag \in since  BY <1>2 DEF HeadIsTheServers
  <2>3. PICK b : b = ParsedBody  OBVIOUS
  <2>4. result'.body = b /\ result'.etag = head.etag /\ result'.exact = (head.framing # "close")
    BY <1>1, <2>3
  <2>5. result'.etag \in since'  BY <1>3, <2>2, <2>4
  <2>6. \/ result'.body = Body(result'.etag)
        \/ ~result'.exact /\ IsPrefix(result'.body, Body(result'.etag))
    <3>1. CASE b = Body(head.etag)  BY <3>1, <2>4, Zenon
    <3>2. CASE head.framing = "close" /\ IsPrefix(b, Body(head.etag))
      <4>1. ~result'.exact  BY <3>2, <2>4
      <4>2. IsPrefix(result'.body, Body(result'.etag))  BY <3>2, <2>4, Zenon
      <4> QED  BY <4>1, <4>2, Zenon
    <3> QED  BY <2>1, <2>3, <3>1, <3>2, Zenon
  <2> QED  BY <2>5, <2>6 DEF Whole
<1>5. "content-length" \in result'.headers => job'.method = "HEAD" /\ result'.body = << >>
  <2> SUFFICES ASSUME "content-length" \in result'.headers
               PROVE  job.method = "HEAD" /\ result'.body = << >>
    BY <1>3
  <2>1. "content-length" \in PassedHeaders  BY <1>1
  <2>2. job.method = "HEAD"  BY <2>1 DEF PassedHeaders
  <2>3. ParsedBody = << >>  BY <2>2 DEF ParsedBody, NoBody
  <2> QED  BY <1>1, <2>2, <2>3
<1>6. ExchangeTypes' /\ Underway'  BY <1>1, <1>2 DEF Reported, ExchangeTypes, Underway
<1>7. result'.kind = "response"  BY <1>1
<1>8. ReportIsTrue'  BY <1>4, <1>5, <1>7 DEF ReportIsTrue
<1> QED  BY <1>6, <1>8 DEF ExchangeInv

LEMMA ExchangeNextInv == ExchangeInv /\ [ExchangeNext]_exchangeVars => ExchangeInv'
<1> SUFFICES ASSUME ExchangeInv, [ExchangeNext]_exchangeVars  PROVE ExchangeInv'  OBVIOUS
<1>1. CASE Ask  BY <1>1, AskInv
<1>2. CASE AskFails  BY <1>2, ErrorKind, FailInv DEF AskFails, Finish, Error
<1>3. CASE Read  BY <1>3, ReadInv
<1>4. CASE ReadTooMuch  BY <1>4, ErrorKind, FailInv DEF ReadTooMuch, Finish, Error
<1>5. CASE Eof  BY <1>5, EofInv
<1>6. CASE ParseFails  BY <1>6, ErrorKind, FailInv DEF ParseFails, Finish, Error
<1>7. CASE FetchModified  BY <1>7, ModifiedInv
<1>8. CASE FetchNotModified  BY <1>8, NotModifiedInv
<1>9. CASE FetchRedirected  BY <1>9, RedirectInv
<1>10. CASE FetchRefused  BY <1>10, ErrorKind, FailInv DEF FetchRefused, Finish, Error
<1>11. CASE PassOn  BY <1>11, PassOnInv
<1>12. CASE Timeout  BY <1>12, ErrorKind, FailInv DEF Timeout, Finish
<1>13. CASE Publish  BY <1>13, PublishInv
<1>14. CASE UNCHANGED exchangeVars
  <2>1. UNCHANGED <<job, site, version, exchange, url, redirects, head, wire, got, result, goal, since>>
    BY <1>14 DEF exchangeVars
  <2>2. ExchangeTypes'  BY <2>1 DEF ExchangeInv, ExchangeTypes
  <2>3. Sent' = Sent /\ (HeadIsTheServers => HeadIsTheServers')  BY <2>1 DEF Sent, HeadIsTheServers
  <2>4. Underway'  BY <2>1, <2>3 DEF ExchangeInv, Underway
  <2>5. ReportIsTrue'  BY <2>1 DEF ExchangeInv, ReportIsTrue, Whole
  <2> QED  BY <2>2, <2>4, <2>5 DEF ExchangeInv
<1> QED
  BY <1>1, <1>2, <1>3, <1>4, <1>5, <1>6, <1>7, <1>8, <1>9, <1>10, <1>11, <1>12, <1>13, <1>14
  DEF ExchangeNext

LEMMA ExchangeInvImplies == ExchangeInv => ExchangeIsWhole
BY MaxRedirectsAssumption DEF ExchangeInv, ExchangeTypes, Underway, ExchangeIsWhole

(* Whatever the server sends, wherever it stops and whatever is published  *)
(* meanwhile, what HttpRuleSetFetcher::fetch, HttpClient::execute and      *)
(* proxy_request report is what the server had: a page the redirects lead  *)
(* to and one version of the document with its tag, whole wherever the     *)
(* framing can tell.                                                       *)
THEOREM ExchangesAlwaysWhole == ExchangeSpec => []ExchangeIsWhole
<1>1. ExchangeSpec => []ExchangeInv
  BY ExchangeInitInv, ExchangeNextInv, PTL DEF ExchangeSpec
<1> QED  BY <1>1, ExchangeInvImplies, PTL
=============================================================================
