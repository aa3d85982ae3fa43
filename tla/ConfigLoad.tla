----------------------------- MODULE ConfigLoad -----------------------------
(***************************************************************************)
(* From the command line to one configuration: parse_args finds the files  *)
(* and directories, collect_paths lists them, strip_json_comments makes    *)
(* JSON of each and merge_value folds them together.                       *)
(*                                                                         *)
(* An argument is its text; a path is a number, in the order of the paths. *)
(* A JSON value is null, a scalar, an array or an object.                  *)
(***************************************************************************)
EXTENDS Integers, Sequences, FiniteSets, SequencesExt, TLC

Refused == [ok |-> FALSE]
Done(value) == [ok |-> TRUE, value |-> value]
-----------------------------------------------------------------------------
(* The command line.  "-c" and "-C" take the next argument, whatever it    *)
(* is; the long forms carry their path.                                    *)
Words == {"run", "generate", "reality-keypair", "-h", "-v", "-c", "-C", "-x",
          "--config=1", "--config-directory=10", "1", "2", "10"}

PathOf == "1" :> 1 @@ "2" :> 2 @@ "10" :> 10 @@ "--config=1" :> 1 @@ "--config-directory=10" :> 10

DefaultPath == 3    \* config.json
NotAPath == 9       \* a word that names no file

Named(word) == IF word \in DOMAIN PathOf THEN PathOf[word] ELSE NotAPath

IsOption(word) == word \in {"-h", "-v", "-c", "-C", "-x", "--config=1", "--config-directory=10"}

(* A bare path is the only one in front of the options: after it options   *)
(* may follow, behind them it is an error.                                 *)
TakesBare(bare, files, directories) == bare = << >> /\ files = << >> /\ directories = << >>

RECURSIVE ParseFrom(_, _, _, _)
ParseFrom(arguments, files, directories, bare) ==
    IF arguments = << >>
    THEN LET named == files \o bare
         IN  Done([action |-> "run", directories |-> directories,
                   files |-> IF named = << >> /\ directories = << >> THEN <<DefaultPath>> ELSE named])
    ELSE LET word == Head(arguments)
             rest == Tail(arguments)
         IN  CASE word = "run" -> ParseFrom(rest, files, directories, bare)
               [] word = "generate" ->
                    IF rest = <<"reality-keypair">> THEN Done([action |-> "generate"]) ELSE Refused
               [] word = "-h" -> Done([action |-> "help"])
               [] word = "-v" -> Done([action |-> "version"])
               [] word = "-c" ->
                    IF rest = << >> THEN Refused
                    ELSE ParseFrom(Tail(rest), Append(files, Named(Head(rest))), directories, bare)
               [] word = "-C" ->
                    IF rest = << >> THEN Refused
                    ELSE ParseFrom(Tail(rest), files, Append(directories, Named(Head(rest))), bare)
               [] word = "--config=1" -> ParseFrom(rest, Append(files, PathOf[word]), directories, bare)
               [] word = "--config-directory=10" ->
                    ParseFrom(rest, files, Append(directories, PathOf[word]), bare)
               [] word = "-x" -> Refused
               [] OTHER ->
                    IF TakesBare(bare, files, directories)
                    THEN ParseFrom(rest, files, directories, <<Named(word)>>) ELSE Refused

ParseArgs(arguments) == ParseFrom(arguments, << >>, << >>, << >>)

(* collect_paths: the JSON files of a directory come in any order, and     *)
(* all paths are sorted.  Mutant: they are not.                            *)
SortedNever(paths) == paths

Sorted(paths) == SortSeq(paths, LAMBDA a, b : a < b)

CollectPaths(files, listings) ==
    LET kept(listing) == SelectSeq(listing, LAMBDA entry : entry.regular /\ entry.json)
        found == FlattenSeq([i \in 1 .. Len(listings) |-> kept(listings[i])])
    IN  Sorted(files \o [i \in 1 .. Len(found) |-> found[i].path])
-----------------------------------------------------------------------------
(* merge_value, the later file being the source. *)
Null == [kind |-> "null"]
Scalar(x) == [kind |-> "scalar", is |-> x]
Array(items) == [kind |-> "array", items |-> items]
Object(fields) == [kind |-> "object", fields |-> fields]

ItemsOf(value) == IF value.kind = "array" THEN value.items ELSE <<value>>

(* Mutant: the later file's items go in front. *)
JoinedBefore(source, destination) == Array(ItemsOf(source) \o destination.items)

Joined(source, destination) == Array(destination.items \o ItemsOf(source))

RECURSIVE MergeValue(_, _)
MergeValue(source, destination) ==
    IF source.kind = "null" THEN Done(destination)
    ELSE IF destination.kind = "null" THEN Done(source)
    ELSE IF destination.kind = "array" THEN Done(Joined(source, destination))
    ELSE IF destination.kind # "object" THEN Done(destination)
    ELSE IF source.kind # "object" THEN Refused
    ELSE LET both == DOMAIN source.fields \cap DOMAIN destination.fields
             merged == [k \in both |-> MergeValue(source.fields[k], destination.fields[k])]
         IN  IF \E k \in both : ~merged[k].ok THEN Refused
             ELSE Done(Object([k \in both |-> merged[k].value] @@ source.fields @@ destination.fields))

(* load: the files in order of their paths, up to the first that cannot be *)
(* merged.                                                                 *)
Load(paths, contents) ==
    IF paths = << >> THEN Refused
    ELSE FoldLeft(LAMBDA merged, path : IF merged.ok THEN MergeValue(contents[path], merged.value) ELSE merged,
                  Done(contents[Head(paths)]), Tail(paths))
-----------------------------------------------------------------------------
(* strip_json_comments.  Mutant: the closing slash of a comment may be the *)
(* one that opened it.                                                     *)
Quote == "q"
Escape == "e"
Slash == "s"
Star == "*"
Newline == "n"
Space == " "
Letter == "x"

OpensBlockShort == <<1, "block">>

OpensBlock == <<2, "block">>

(* What a state makes of the text in front of it: how many characters it   *)
(* takes and the state after them.                                         *)
Step(state, text) ==
    LET byte == text[1]
        next == IF Len(text) > 1 THEN text[2] ELSE ""
    IN  CASE state = "normal" ->
               (CASE byte = Quote -> <<1, "string">>
                  [] byte = Slash /\ next = Slash -> <<2, "line">>
                  [] byte = Slash /\ next = Star -> OpensBlock
                  [] OTHER -> <<1, "normal">>)
          [] state = "string" ->
               <<1, IF byte = Escape THEN "escape" ELSE IF byte = Quote THEN "normal" ELSE "string">>
          [] state = "escape" -> <<1, "string">>
          [] state = "line" -> <<1, IF byte = Newline THEN "normal" ELSE "line">>
          [] state = "block" -> IF byte = Star /\ next = Slash THEN <<2, "normal">> ELSE <<1, "block">>

Blanks(state, step, text) ==
    \/ state \in {"line", "block"} /\ text[1] # Newline
    \/ state = "normal" /\ step[2] \in {"line", "block"}

RECURSIVE StripFrom(_, _)
StripFrom(state, text) ==
    IF text = << >> THEN IF state = "block" THEN Refused ELSE Done(<< >>)
    ELSE LET step == Step(state, text)
             rest == StripFrom(step[2], SubSeq(text, step[1] + 1, Len(text)))
             taken == IF Blanks(state, step, text) THEN [i \in 1 .. step[1] |-> Space]
                      ELSE SubSeq(text, 1, step[1])
         IN  IF rest.ok THEN Done(taken \o rest.value) ELSE Refused

StripJsonComments(text) == StripFrom("normal", text)
-----------------------------------------------------------------------------
(* Every path on the command line is asked for, as often as it is there,   *)
(* and an argument nobody understands is refused: no word is passed over   *)
(* but "run".  Reference: the words behind "-c" and "-C" are values.       *)
ArgumentsAreKept(arguments) ==
    LET n == Len(arguments)
        isValue[i \in 0 .. n] == IF i <= 1 THEN FALSE ELSE arguments[i - 1] \in {"-c", "-C"} /\ ~isValue[i - 1]
        free == {i \in 1 .. n : ~isValue[i]}
        behind(option) == {i \in 1 .. n : isValue[i] /\ arguments[i - 1] = option}
        bare == {i \in free : ~IsOption(arguments[i]) /\ arguments[i] # "run"}
        parsed == ParseArgs(arguments)
    IN  parsed.ok /\ parsed.value.action = "run" =>
            LET wanted == Cardinality(behind("-c")) + Cardinality({i \in free : arguments[i] = "--config=1"})
                          + Cardinality(bare)
            IN  /\ Len(parsed.value.directories)
                     = Cardinality(behind("-C")) + Cardinality({i \in free : arguments[i] = "--config-directory=10"})
                /\ Len(parsed.value.files) = IF wanted = 0 /\ parsed.value.directories = << >> THEN 1 ELSE wanted
                /\ \A i \in behind("-c") \cup bare : Contains(parsed.value.files, Named(arguments[i]))
                /\ \A i \in free : arguments[i] # "-x" /\ (arguments[i] \in {"-c", "-C"} => i < n)
                /\ Cardinality(bare) <= 1

(* What the files say together: at every key the first value that is not   *)
(* null stands; an array takes in what all the others say there, an object *)
(* only objects.                                                           *)
RECURSIVE Gathered(_)
Gathered(values) ==
    LET said == SelectSeq(values, LAMBDA v : v.kind # "null") IN
    IF said = << >> THEN Done(Null)
    ELSE IF said[1].kind = "scalar" THEN Done(said[1])
    ELSE IF said[1].kind = "array" THEN Done(Array(FlattenSeq([i \in 1 .. Len(said) |-> ItemsOf(said[i])])))
    ELSE IF \E i \in 1 .. Len(said) : said[i].kind # "object" THEN Refused
    ELSE LET keys == UNION {DOMAIN said[i].fields : i \in 1 .. Len(said)}
             having(k) == SelectSeq(said, LAMBDA v : k \in DOMAIN v.fields)
             at == [k \in keys |-> Gathered([i \in 1 .. Len(having(k)) |-> having(k)[i].fields[k]])]
         IN  IF \E k \in keys : ~at[k].ok THEN Refused ELSE Done(Object([k \in keys |-> at[k].value]))

Entry(p) == [path |-> p, regular |-> TRUE, json |-> TRUE]

(* The configuration is what the files say in the order of their paths,    *)
(* in whatever order the command line and the directories name them; a     *)
(* file named twice speaks twice.                                          *)
FilesAreGathered(files, listing, contents) ==
    LET inFiles(p) == Cardinality({i \in 1 .. Len(files) : files[i] = p})
        inListing(p) == Cardinality({i \in 1 .. Len(listing) : listing[i] = Entry(p)})
        paths == FlattenSeq([p \in 1 .. 3 |-> [i \in 1 .. inFiles(p) + inListing(p) |-> p]])
    IN  Load(CollectPaths(files, <<listing>>), contents)
          = IF paths = << >> THEN Refused
            ELSE Gathered([i \in 1 .. Len(paths) |-> contents[paths[i]]])

(* Comments become blanks, everything else stays where it is, strings with *)
(* slashes and quotes in them included.                                    *)
Pieces ==
    {[text |-> t, blank |-> FALSE] :
        t \in {<<Letter>>, <<Newline>>, <<Quote, Slash, Slash, Quote>>, <<Quote, Escape, Quote, Slash, Star, Quote>>,
               <<Quote, Escape, Escape, Quote>>}}
    \cup {[text |-> t, blank |-> TRUE] :
        t \in {<<Slash, Slash, Quote, Newline>>, <<Slash, Star, Star, Slash>>,
               <<Slash, Star, Slash, Newline, Quote, Star, Slash>>}}

Plain(piece) ==
    IF ~piece.blank THEN piece.text
    ELSE [i \in 1 .. Len(piece.text) |-> IF piece.text[i] = Newline THEN Newline ELSE Space]

TextIsKept(pieces) ==
    LET whole == FlattenSeq([i \in 1 .. Len(pieces) |-> pieces[i].text]) IN
    /\ StripJsonComments(whole) = Done(FlattenSeq([i \in 1 .. Len(pieces) |-> Plain(pieces[i])]))
    /\ ~StripJsonComments(whole \o <<Slash, Star, Slash>>).ok
-----------------------------------------------------------------------------
Values == {Null, Scalar(1), Array(<<Scalar(2)>>), Array(<< >>)}
Documents ==
    Values \cup {Object("k" :> v) : v \in Values}
    \cup {Object("k" :> Object("m" :> v)) : v \in Values}
    \cup {Object("k" :> Scalar(3) @@ "l" :> Array(<<Scalar(4)>>)), Object("l" :> Array(<<Scalar(5)>>))}

Other == {[path |-> 2, regular |-> FALSE, json |-> TRUE], [path |-> 2, regular |-> TRUE, json |-> FALSE]}

ConfigCases ==
    [load : {"arguments"}, arguments : UNION {[1 .. n -> Words] : n \in 0 .. 3}]
    \cup [load : {"files"}, contents : [1 .. 3 -> Documents], files : {<<1>>, <<3, 1>>},
          listing : {<<Entry(2)>>}]
    \cup [load : {"files"}, contents : {<<Array(<<Scalar(1)>>), Array(<<Scalar(2)>>), Array(<<Scalar(3)>>)>>},
          files : {<< >>, <<3>>, <<2, 1>>},
          listing : {<<Entry(2), Entry(1)>>, <<Entry(1), Entry(2)>>} \cup {<<Entry(1), o>> : o \in Other}
                    \cup {<<o>> : o \in Other}]
    \cup [load : {"text"}, pieces : UNION {[1 .. n -> Pieces] : n \in 0 .. 3}]

(* The command line, the files and their comments lead to the              *)
(* configuration the help text describes: see the properties above.        *)
ConfigIsGathered(case) ==
    CASE case.load = "arguments" -> ArgumentsAreKept(case.arguments)
      [] case.load = "files" -> FilesAreGathered(case.files, case.listing, case.contents)
      [] case.load = "text" -> TextIsKept(case.pieces)
=============================================================================
