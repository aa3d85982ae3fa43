---------------------------- MODULE RuleSetFile -----------------------------
(***************************************************************************)
(* What a rule-set file means after it is loaded.  A source rule is what   *)
(* its author wrote; sing-box's compiler (external) turns a list of them   *)
(* into the binary form: domains become the succinct trie of their         *)
(* reversed spellings, addresses become ranges.  srs::decode reads that    *)
(* back into domain lists and CIDR blocks, compile_rule_set_rules checks   *)
(* it, and HeadlessRule::matches evaluates it.                             *)
(*                                                                         *)
(* Characters are small numbers, so that names can be sorted; an address   *)
(* has Width bits (32 or 128 in the code); the items of the byte stream    *)
(* are records rather than bytes.                                          *)
(***************************************************************************)
EXTENDS Integers, Sequences, SequencesExt, FiniteSetsExt

CONSTANTS Width,        \* bits of an address
          MaxPort,      \* the largest port
          MaxNesting    \* MAX_RECURSION: how deep logical rules may nest

Dot == 0
CarriageReturn == 8     \* '\r', the compiler's mark of a prefix key
LineFeed == 9           \* '\n', its mark of a suffix key

Bad == [ok |-> FALSE]
Good(value) == [ok |-> TRUE, value |-> value]

NoConditions == [kind |-> "default", domains |-> {}, suffixes |-> {}, keywords |-> {},
                 cidrs |-> << >>, ports |-> {}, invert |-> FALSE]
-----------------------------------------------------------------------------
(* append_ipv4_range, append_ipv6_range: a range as blocks <<start, bits>>,*)
(* each the largest that is aligned and fits.                              *)
TopAddress == 2 ^ Width - 1

TrailingZeros(n) ==
    IF n = 0 THEN Width ELSE CHOOSE k \in 0 .. Width : n % 2 ^ k = 0 /\ n % 2 ^ (k + 1) # 0

(* Mutant: the block of all addresses is not told apart, and the shift by  *)
(* the whole width leaves a block of one.                                  *)
BlockEndWraps(start, bits) == start + (2 ^ (bits % Width)) - 1

BlockEnd(start, bits) == IF bits = Width THEN TopAddress ELSE start + 2 ^ bits - 1

HostBits(start, end) ==
    CHOOSE k \in 0 .. TrailingZeros(start) :
        /\ BlockEnd(start, k) <= end
        /\ \A j \in k + 1 .. TrailingZeros(start) : BlockEnd(start, j) > end

RECURSIVE AppendRange(_, _)
AppendRange(start, end) ==
    LET bits == HostBits(start, end)
        stop == BlockEnd(start, bits)
        block == [network |-> start, prefix |-> Width - bits]
    IN  IF stop = TopAddress \/ stop = end THEN <<block>> ELSE <<block>> \o AppendRange(stop + 1, end)

(* read_ip_set *)
ReadIpSet(ranges) ==
    IF \E i \in 1 .. Len(ranges) : ranges[i][1] > ranges[i][2] THEN Bad
    ELSE Good(FlattenSeq([i \in 1 .. Len(ranges) |-> AppendRange(ranges[i][1], ranges[i][2])]))

(* IpCidr::contains.  Mutant: the mask of prefix 0 is not a case of its    *)
(* own, and shifting by the whole width keeps every bit.                   *)
MaskBitsAlways(prefix) == (Width - prefix) % Width

MaskBits(prefix) == Width - prefix

CidrContains(cidr, address) ==
    LET masked == 2 ^ MaskBits(cidr.prefix)
    IN  cidr.network \div masked = address \div masked
-----------------------------------------------------------------------------
(* read_domain_matcher: the trie comes as a leaf bit per node, a bitmap    *)
(* with a 0 per child and a 1 after the last child of each node, and the   *)
(* labels in that order.  Child number k of the bitmap is node k.          *)
GetBit(words, index) == index < Len(words) /\ words[index + 1] = 1

(* The bits of node n end with the (n+1)th set bit. *)
EndOfNode(bitmap, n) ==
    CHOOSE i \in 1 .. Len(bitmap) :
        bitmap[i] = 1 /\ Len(SelectSeq(SubSeq(bitmap, 1, i), LAMBDA b : b = 1)) = n + 1

ZerosBefore(bitmap, i) == Len(SelectSeq(SubSeq(bitmap, 1, i), LAMBDA b : b = 0))

Children(trie, n) ==
    LET first == IF n = 0 THEN 0 ELSE ZerosBefore(trie.bitmap, EndOfNode(trie.bitmap, n - 1))
        last == ZerosBefore(trie.bitmap, EndOfNode(trie.bitmap, n))
    IN  first + 1 .. last

(* One set bit per node and one label per child, and leaves for all nodes. *)
TreeOk(trie) ==
    LET ones == Len(SelectSeq(trie.bitmap, LAMBDA b : b = 1))
    IN  /\ ones = Len(trie.labels) + 1
        /\ Len(trie.bitmap) - ones = Len(trie.labels)
        /\ Len(trie.leaves) >= Len(trie.labels) + 1

RECURSIVE CollectKeys(_, _, _)
CollectKeys(trie, n, current) ==
    (IF GetBit(trie.leaves, n) THEN {current} ELSE {})
    \cup UNION {CollectKeys(trie, child, Append(current, trie.labels[child]))
                : child \in Children(trie, n)}

(* dump_domain_keys.  A prefix key ".root" together with the exact key     *)
(* root is one suffix, root; else it is the suffix ".root".                *)
(* Mutant: the two are not brought together.                               *)
DumpApart(keys) ==
    LET names == {Reverse(k) : k \in keys}
        marked(mark) == {Tail(k) : k \in {m \in names : m # << >> /\ Head(m) = mark}}
        plain == {k \in names : k = << >> \/ Head(k) \notin {CarriageReturn, LineFeed}}
    IN  [domains |-> plain,
         suffixes |-> marked(LineFeed) \cup {Tail(k) : k \in marked(CarriageReturn)}]

DumpDomainKeys(keys) ==
    LET names == {Reverse(k) : k \in keys}
        marked(mark) == {Tail(k) : k \in {m \in names : m # << >> /\ Head(m) = mark}}
        plain == {k \in names : k = << >> \/ Head(k) \notin {CarriageReturn, LineFeed}}
        joined == {k \in marked(CarriageReturn) :
                      k # << >> /\ Head(k) = Dot /\ Tail(k) \in plain}
    IN  [domains |-> plain \ {Tail(k) : k \in joined},
         suffixes |-> marked(LineFeed) \cup {Tail(k) : k \in joined}
                      \cup (marked(CarriageReturn) \ joined)]

ReadDomainMatcher(trie) ==
    IF TreeOk(trie) THEN Good(DumpDomainKeys(CollectKeys(trie, 0, << >>))) ELSE Bad
-----------------------------------------------------------------------------
(* read_rule, read_default_rule, read_logical_rule.  A default rule is a   *)
(* list of items that ends with "final"; an item for what the router does  *)
(* not match (processes, Wi-Fi...) refuses the file.                       *)
ReadItem(rule, item) ==
    IF item.kind = "domain"
    THEN LET names == ReadDomainMatcher(item.trie) IN
         IF names.ok
         THEN Good([rule EXCEPT !.domains = names.value.domains, !.suffixes = names.value.suffixes])
         ELSE Bad
    ELSE IF item.kind = "keyword" THEN Good([rule EXCEPT !.keywords = item.words])
    ELSE IF item.kind = "ip_cidr"
    THEN LET blocks == ReadIpSet(item.ranges) IN
         IF blocks.ok THEN Good([rule EXCEPT !.cidrs = blocks.value]) ELSE Bad
    ELSE IF item.kind = "port" THEN Good([rule EXCEPT !.ports = item.ranges])
    ELSE Bad

RECURSIVE ReadDefaultRule(_, _)
ReadDefaultRule(items, rule) ==
    IF items = << >> THEN Bad
    ELSE IF Head(items).kind = "final" THEN Good([rule EXCEPT !.invert = Head(items).invert])
    ELSE LET next == ReadItem(rule, Head(items)) IN
         IF next.ok THEN ReadDefaultRule(Tail(items), next.value) ELSE Bad

RECURSIVE ReadRule(_, _)
ReadRule(entry, depth) ==
    IF depth >= MaxNesting THEN Bad
    ELSE IF entry.kind = "default" THEN ReadDefaultRule(entry.items, NoConditions)
    ELSE LET inner == [i \in 1 .. Len(entry.rules) |-> ReadRule(entry.rules[i], depth + 1)] IN
         IF \A i \in 1 .. Len(inner) : inner[i].ok
         THEN Good([kind |-> "logical", mode |-> entry.mode, invert |-> entry.invert,
                    rules |-> [i \in 1 .. Len(inner) |-> inner[i].value]])
         ELSE Bad

(* decode: the header, then every rule and nothing after them. *)
Decode(file) ==
    LET read == [i \in 1 .. Len(file.rules) |-> ReadRule(file.rules[i], 0)] IN
    IF file.version \in 1 .. 5 /\ ~file.trailing /\ \A i \in 1 .. Len(read) : read[i].ok
    THEN Good([i \in 1 .. Len(read) |-> read[i].value])
    ELSE Bad
-----------------------------------------------------------------------------
(* RuleMatcher::is_empty; PortMatcher::compile refuses a reversed range.   *)
IsEmpty(rule) ==
    /\ rule.domains = {} /\ rule.suffixes = {} /\ rule.keywords = {}
    /\ rule.cidrs = << >> /\ rule.ports = {}

PortsOk(rule) == \A range \in rule.ports : range[1] <= range[2]

(* HeadlessRule::compile: a nested rule must have conditions. *)
RECURSIVE Compiles(_)
Compiles(rule) ==
    IF rule.kind = "default" THEN ~IsEmpty(rule) /\ PortsOk(rule)
    ELSE /\ rule.rules # << >>
         /\ rule.mode \in {"and", "or"}
         /\ \A i \in 1 .. Len(rule.rules) : Compiles(rule.rules[i])

(* compile_rule_set_rules: a rule of the list without conditions is left   *)
(* out rather than refused.  Mutant: it is refused like a nested one.      *)
KeepsAll(rule) == TRUE

Keeps(rule) == rule.kind = "logical" \/ ~IsEmpty(rule)

CompileRules(rules) ==
    LET kept == SelectSeq(rules, Keeps) IN
    IF \A i \in 1 .. Len(kept) : Compiles(kept[i]) THEN Good(kept) ELSE Bad

(* decode_and_compile_rule_set *)
DecodeAndCompile(file) ==
    LET rules == Decode(file) IN IF rules.ok THEN CompileRules(rules.value) ELSE Bad
-----------------------------------------------------------------------------
(* RuleMatcher::matches_base.  A suffix without a leading dot is the name  *)
(* itself or what ends with it after a dot.                                *)
HasSuffix(host, suffix) ==
    IF suffix # << >> /\ Head(suffix) = Dot THEN IsSuffix(suffix, host)
    ELSE host = suffix \/ IsSuffix(<<Dot>> \o suffix, host)

HasKeyword(host, word) ==
    \E i \in 0 .. Len(host) - Len(word) : SubSeq(host, i + 1, i + Len(word)) = word

DomainMatches(rule, host) ==
    \/ rule.domains = {} /\ rule.suffixes = {} /\ rule.keywords = {}
    \/ host \in rule.domains
    \/ \E s \in rule.suffixes : HasSuffix(host, s)
    \/ \E w \in rule.keywords : HasKeyword(host, w)

MatchesBase(rule, session) ==
    /\ DomainMatches(rule, session.host)
    /\ rule.cidrs = << >> \/ (session.ip >= 0 /\ \E i \in 1 .. Len(rule.cidrs) :
                                                    CidrContains(rule.cidrs[i], session.ip))
    /\ rule.ports = {} \/ \E range \in rule.ports : session.port \in range[1] .. range[2]

(* HeadlessRule::matches *)
RECURSIVE MatchesRule(_, _)
MatchesRule(rule, session) ==
    IF rule.kind = "default" THEN MatchesBase(rule, session) # rule.invert
    ELSE LET hit == {i \in 1 .. Len(rule.rules) : MatchesRule(rule.rules[i], session)} IN
         (IF rule.mode = "and" THEN hit = 1 .. Len(rule.rules) ELSE hit # {}) # rule.invert

(* CompiledRuleSet::matches *)
MatchesSet(rules, session) == \E i \in 1 .. Len(rules) : MatchesRule(rules[i], session)
-----------------------------------------------------------------------------
(* The other end of RuleSetFile: sing-box's rule-set compiler, modelled    *)
(* from the form srs.rs reads, what the author of a rule means by it, and  *)
(* the files that are tried.                                               *)

Nodes(keys) == UNION {Prefixes(k) : k \in keys}

Before(a, b) ==
    \/ Len(a) < Len(b)
    \/ /\ Len(a) = Len(b)
       /\ \E i \in 1 .. Len(a) : a[i] < b[i] /\ SubSeq(a, 1, i - 1) = SubSeq(b, 1, i - 1)

Sorted(names) ==
    FoldSet(LAMBDA name, list : SelectSeq(list, LAMBDA n : Before(n, name)) \o <<name>>
                                \o SelectSeq(list, LAMBDA n : Before(name, n)),
            << >>, names)

(* The trie, breadth first. *)
Trie(keys) ==
    LET nodes == Sorted(Nodes(keys))
        offspring(n) == SelectSeq(nodes, LAMBDA m : m # << >> /\ Front(m) = n)
        bits(n) == [i \in 1 .. Len(offspring(n)) |-> 0] \o <<1>>
        marks(n) == [i \in 1 .. Len(offspring(n)) |-> Last(offspring(n)[i])]
    IN  [leaves |-> [i \in 1 .. Len(nodes) |-> IF nodes[i] \in keys THEN 1 ELSE 0],
         bitmap |-> FlattenSeq([i \in 1 .. Len(nodes) |-> bits(nodes[i])]),
         labels |-> FlattenSeq([i \in 1 .. Len(nodes) |-> marks(nodes[i])])]

(* Addresses come as their maximal ranges. *)
Ranges(addresses) ==
    LET starts == {a \in addresses : a - 1 \notin addresses}
        end(a) == Max({b \in addresses : a .. b \subseteq addresses})
    IN  [i \in 1 .. Cardinality(starts) |->
            LET a == SetToSortSeq(starts, <)[i] IN <<a, end(a)>>]

(* Version 1 files spell a suffix as two keys, later ones as one.          *)
Keys(rule, version) ==
    LET marked(mark, name) == Reverse(<<mark>> \o name)
        spelled(s) ==
            IF Head(s) = Dot THEN {marked(CarriageReturn, s)}
            ELSE IF version = 1 THEN {Reverse(s), marked(CarriageReturn, <<Dot>> \o s)}
            ELSE {marked(LineFeed, s)}
    IN  {Reverse(d) : d \in rule.domains} \cup UNION {spelled(s) : s \in rule.suffixes}

Item(kind, field, value) == [kind |-> kind] @@ field :> value

RECURSIVE Compiled(_, _)
Compiled(rule, version) ==
    IF rule.kind = "logical"
    THEN [kind |-> "logical", mode |-> rule.mode, invert |-> rule.invert,
          rules |-> [i \in 1 .. Len(rule.rules) |-> Compiled(rule.rules[i], version)]]
    ELSE [kind |-> "default", items |->
          (IF rule.domains \cup rule.suffixes = {} THEN << >>
           ELSE <<Item("domain", "trie", Trie(Keys(rule, version)))>>)
          \o (IF rule.keywords = {} THEN << >> ELSE <<Item("keyword", "words", rule.keywords)>>)
          \o (IF rule.addresses = {} THEN << >>
              ELSE <<Item("ip_cidr", "ranges", Ranges(rule.addresses))>>)
          \o (IF rule.ports = {} THEN << >> ELSE <<Item("port", "ranges", rule.ports)>>)
          \o (IF rule.process THEN <<[kind |-> "process_name"]>> ELSE << >>)
          \o <<[kind |-> "final", invert |-> rule.invert]>>]
-----------------------------------------------------------------------------
(* What the author means. *)
Blank(rule) ==
    rule.kind = "default" /\ rule.domains \cup rule.suffixes \cup rule.keywords = {}
    /\ rule.addresses = {} /\ rule.ports = {}

RECURSIVE Means(_, _)
Means(rule, session) ==
    IF rule.kind = "logical"
    THEN IF rule.invert
         THEN ~Means([rule EXCEPT !.invert = FALSE], session)
         ELSE IF rule.mode = "and"
              THEN \A i \in 1 .. Len(rule.rules) : Means(rule.rules[i], session)
              ELSE \E i \in 1 .. Len(rule.rules) : Means(rule.rules[i], session)
    ELSE LET ends == Suffixes(session.host)
             named == \/ session.host \in rule.domains
                      \/ rule.suffixes \cap ends \cap {s \in ends : s # << >> /\ Head(s) = Dot} # {}
                      \/ \E s \in rule.suffixes : Head(s) # Dot
                                               /\ (session.host = s \/ <<Dot>> \o s \in ends)
                      \/ \E w \in rule.keywords : w \in UNION {Prefixes(e) : e \in ends}
             unnamed == rule.domains \cup rule.suffixes \cup rule.keywords = {}
         IN  (/\ unnamed \/ named
              /\ rule.addresses = {} \/ session.ip \in rule.addresses
              /\ rule.ports = {} \/ \E r \in rule.ports : r[1] <= session.port /\ session.port <= r[2])
             # rule.invert

RECURSIVE Supported(_, _)
Supported(rule, depth) ==
    /\ depth < MaxNesting
    /\ IF rule.kind = "logical"
       THEN /\ rule.rules # << >>
            /\ \A i \in 1 .. Len(rule.rules) : Supported(rule.rules[i], depth + 1)
                                              /\ ~Blank(rule.rules[i])
       ELSE ~rule.process /\ \A r \in rule.ports : r[1] <= r[2]
-----------------------------------------------------------------------------
Plain == [kind |-> "default", domains |-> {}, suffixes |-> {}, keywords |-> {},
          addresses |-> {}, ports |-> {}, invert |-> FALSE, process |-> FALSE]

Logical(mode, rules, invert) ==
    [kind |-> "logical", mode |-> mode, rules |-> rules, invert |-> invert]

Named == [Plain EXCEPT !.suffixes = {<<1>>}]
Addressed == [Plain EXCEPT !.addresses = {1, 2}, !.invert = TRUE]
Ported == [Plain EXCEPT !.ports = {<<0, 1>>}]

Defaults ==
    {[Plain EXCEPT !.domains = d, !.suffixes = s, !.keywords = k, !.invert = i] :
        d \in SUBSET {<<1>>, <<2, Dot, 1>>}, s \in SUBSET {<<1>>, <<Dot, 1>>, <<2>>},
        k \in {{}, {<<2, Dot>>}}, i \in BOOLEAN}
    \cup {[Plain EXCEPT !.addresses = a, !.invert = i] : a \in SUBSET (0 .. TopAddress), i \in BOOLEAN}
    \cup {[Named EXCEPT !.addresses = {0}, !.ports = p, !.process = r] :
             p \in {{}, {<<1, 1>>}, {<<1, 0>>}, {<<0, MaxPort>>}}, r \in BOOLEAN}

Logicals ==
    {Logical(m, r, i) : m \in {"and", "or"}, i \in BOOLEAN,
        r \in {<< >>, <<Named>>, <<Named, Addressed>>, <<Ported, Plain>>,
               <<Logical("or", <<Named, Ported>>, TRUE), Addressed>>,
               <<Logical("and", <<Logical("or", <<Named>>, FALSE)>>, FALSE)>>}}

RuleLists ==
    {<<r>> : r \in Defaults \cup Logicals}
    \cup {<<a, b>> : a \in {Named, Plain, [Plain EXCEPT !.invert = TRUE]}, b \in {Addressed, Ported}}

Files ==
    [rules : RuleLists, version : {1, 2}, trailing : {FALSE}]
    \cup [rules : {<<Named>>}, version : {0, 6}, trailing : BOOLEAN]
    \cup [rules : {<<Named, Ported>>}, version : {5}, trailing : {TRUE}]

Tried ==
    [host : {<<1>>, <<2>>, <<2, Dot, 1>>, <<2, 1>>, <<Dot, 1>>, <<1, Dot, 2, Dot, 1>>},
     ip : {-1}, port : {0}]
    \cup [host : {<<1>>, <<2>>}, ip : {-1} \cup 0 .. TopAddress, port : {0, 1}]

FileOf(file) ==
    [file EXCEPT !.rules = [i \in 1 .. Len(file.rules) |-> Compiled(file.rules[i], file.version)]]

(* A binary rule-set is loaded exactly when the router supports all of it, *)
(* and then matches the sessions its author meant: the trie gives back the *)
(* names, the blocks cover the addresses, nothing is dropped but rules     *)
(* without conditions (srs.rs, compile_rule_set_rules, RuleMatcher).       *)
FileMeansTheSame(file) ==
    LET loaded == DecodeAndCompile(FileOf(file))
        usable == /\ file.version \in 1 .. 5 /\ ~file.trailing
                  /\ \A i \in 1 .. Len(file.rules) : Supported(file.rules[i], 0)
    IN  /\ loaded.ok = usable
        /\ loaded.ok =>
             \A session \in Tried :
                MatchesSet(loaded.value, session)
                = \E i \in 1 .. Len(file.rules) :
                     ~Blank(file.rules[i]) /\ Means(file.rules[i], session)
=============================================================================
