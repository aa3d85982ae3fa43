-------------------------- MODULE MasqueradeFiles ---------------------------
(***************************************************************************)
(* The Hysteria2 masquerade's file handler: serve_file answers one request *)
(* after another from a directory that may be published, replaced and      *)
(* edited between any two of its system calls.                             *)
(*                                                                         *)
(* The configured directory is a link to a release or is missing.  In a    *)
(* release there is the file "a" and the directory "d" with perhaps an     *)
(* index.  A file is its content and its size; "d" is a name as long as    *)
(* MAX_MASQUERADE_RESPONSE_SIZE allows.  The handler's first look at the   *)
(* directory is kept in canonical_root.                                    *)
(***************************************************************************)
EXTENDS Integers, Sequences, FiniteSets

CONSTANTS Releases,       \* what the directory may be a link to
          MaxSize,        \* MAX_MASQUERADE_RESPONSE_SIZE
          MaxEdits,       \* changes of the tree during the run
          MaxRequests     \* requests served one after another

ASSUME ReleasesAssumption == "none" \notin Releases
ASSUME MaxSizeAssumption == MaxSize \in Nat \ {0}

VARIABLES
    root,       \* the release the directory leads to, or "none"
    tree,       \* release -> path -> size of a file, Dir or Missing
    canonical,  \* canonical_root: OnceCell, "none" while unset
    files,      \* "idle" | "root" | "path" | "kind" | "index" | "list" | "entries" | "size" | "read"
    asked,      \* [method, path, slash]
    path,       \* <<release, path>> once resolved
    listing,    \* directory_listing: entries ahead, names read, listing_size
    answer,     \* the last response
    served,     \* requests served
    edits,
    moments     \* history: the states <<root, tree>> during the request

filesVars == <<root, tree, canonical, files, asked, path, listing, answer, served, edits,
              moments>>

Missing == -1
Dir == -2
Top == << >>
File == <<"a">>
Folder == <<"d">>
Index == <<"d", "index">>
Paths == {Top, File, Folder, Index}
Escape == <<"..">>      \* any path with a parent component

Sizes == {1, MaxSize + 1}

\* The top is always there and an index, if there is one, is small.
Trees ==
    {t \in [Paths -> {Missing, Dir} \cup Sizes] :
        t[Top] = Dir /\ t[File] # Dir /\ t[Folder] < 0 /\ t[Index] \in {Missing, 1}}

\* What a release has in it to begin with.
Published == [p \in Paths |-> IF p \in {Top, Folder} THEN Dir ELSE 1]

WellFormed(t) == t[Folder] = Missing => t[Index] = Missing

Requests ==
    [method : {"GET"}, path : {Top, File, Folder, Index}, slash : BOOLEAN]
    \cup [method : {"POST"}, path : {File}, slash : {FALSE}]
    \cup [method : {"GET"}, path : {Escape}, slash : {FALSE}]

NoAnswer == [status |-> 0, body |-> 0, names |-> {}]
Status(code) == [NoAnswer EXCEPT !.status = code]

Closed == [ahead |-> {}, names |-> {}, size |-> 0]
-----------------------------------------------------------------------------
FilesInit(start) ==
    /\ root \in Releases \cup {"none"}
    /\ tree = [release \in Releases |-> Published]
    /\ canonical = "none"
    /\ files = start
    /\ asked \in {r \in Requests : r.method = "POST"}
    /\ path = << >>
    /\ listing = Closed
    /\ answer = NoAnswer
    /\ served = 0
    /\ edits = 0
    /\ moments = {}

Answer(response) ==
    /\ answer' = response
    /\ files' = "idle"
    /\ served' = served + 1

Now == {<<root, tree>>}

(* safe_relative_path: no parent component, no bytes that do not decode. *)
Safe(p) == p # Escape

(* serve_file, up to the first system call. *)
Request(r) ==
    /\ files = "idle"
    /\ served < MaxRequests
    /\ asked' = r
    /\ moments' = Now
    /\ \/ r.method \notin {"GET", "HEAD"} /\ Answer(Status(405))
       \/ r.method \in {"GET", "HEAD"} /\ ~Safe(r.path) /\ Answer(Status(404))
       \/ r.method \in {"GET", "HEAD"} /\ Safe(r.path) /\ files' = "root" /\ UNCHANGED <<answer, served>>
    /\ UNCHANGED <<root, tree, canonical, path, listing, edits>>

(* OnceCell::get_or_try_init: kept once it is known, tried again after a   *)
(* failure.  Mutant: the failure is kept.                                  *)
InitRootOnce(found) == IF canonical = "none" THEN IF found = "none" THEN "lost" ELSE found ELSE canonical

InitRoot(found) == IF canonical = "none" THEN found ELSE canonical

CanonicalRoot ==
    /\ files = "root"
    /\ canonical' = InitRoot(root)
    /\ \/ canonical' \in Releases /\ files' = "path" /\ UNCHANGED <<answer, served>>
       \/ canonical' \notin Releases /\ Answer(Status(404))
    /\ UNCHANGED <<root, tree, asked, path, listing, edits, moments>>

(* canonicalize(requested) and starts_with(canonical_root). *)
Resolves == root # "none" /\ tree[root][asked.path] # Missing /\ root = canonical

ResolvePath ==
    /\ files = "path"
    /\ \/ Resolves /\ path' = <<root, asked.path>> /\ files' = "kind" /\ UNCHANGED <<answer, served>>
       \/ ~Resolves /\ Answer(Status(404)) /\ UNCHANGED path
    /\ UNCHANGED <<root, tree, canonical, asked, listing, edits, moments>>

Here == tree[path[1]][path[2]]
IndexHere == path[2] = Folder /\ tree[path[1]][Index] # Missing

(* Mutant: a directory without its slash is listed in place. *)
RedirectsNever == FALSE

Redirects == ~asked.slash

LookAt ==
    /\ files = "kind"
    /\ \/ Here = Missing /\ Answer(Status(404))
       \/ Here >= 0 /\ files' = "size" /\ UNCHANGED <<answer, served>>
       \/ Here = Dir /\ Redirects /\ Answer(Status(301))
       \/ Here = Dir /\ ~Redirects /\ files' = "index" /\ UNCHANGED <<answer, served>>
    /\ UNCHANGED <<root, tree, canonical, asked, path, listing, edits, moments>>

TryIndex ==
    /\ files = "index"
    /\ \/ IndexHere /\ path' = [path EXCEPT ![2] = Index] /\ files' = "size"
       \/ ~IndexHere /\ UNCHANGED path /\ files' = "list"
    /\ UNCHANGED <<root, tree, canonical, asked, listing, answer, served, edits, moments>>

(* The names in a directory of a release. *)
Children(p) == {q \in Paths : Len(q) = Len(p) + 1 /\ SubSeq(q, 1, Len(p)) = p}
Entries(release, p) == {q \in Children(p) : tree[release][q] # Missing}

NameSize(q) == IF q = Folder THEN MaxSize ELSE 1

(* The page around the names, and each name in its link and as its text. *)
HtmlSize(size) == 1 + 2 * size

(* Mutant: the path of the request is listed, not the canonical one. *)
OpenedAsAsked == IF root = "none" THEN {} ELSE Entries(root, asked.path)

Opened == Entries(path[1], path[2])

(* directory_listing: read_dir of the canonical path. *)
OpenDirectory ==
    /\ files = "list"
    /\ \/ Here # Dir /\ Answer(Status(404)) /\ UNCHANGED listing
       \/ /\ Here = Dir
          /\ files' = "entries"
          /\ listing' = [Closed EXCEPT !.ahead = Opened]
          /\ UNCHANGED <<answer, served>>
    /\ UNCHANGED <<root, tree, canonical, asked, path, edits, moments>>

(* next_entry and file_type, unless the names have become too long. *)
NextEntry ==
    /\ files = "entries"
    /\ \E q \in listing.ahead :
          LET size == listing.size + NameSize(q)
          IN  \/ size > MaxSize /\ Answer(Status(413)) /\ listing' = Closed
              \/ /\ size <= MaxSize
                 /\ listing' = [ahead |-> listing.ahead \ {q},
                                names |-> listing.names \cup {q}, size |-> size]
                 /\ UNCHANGED <<files, answer, served>>
    /\ UNCHANGED <<root, tree, canonical, asked, path, edits, moments>>

(* The end of the directory, or an error, which is taken for the end. *)
EndOfEntries ==
    /\ files = "entries"
    /\ \/ HtmlSize(listing.size) > MaxSize /\ Answer(Status(413))
       \/ /\ HtmlSize(listing.size) <= MaxSize
          /\ Answer([Status(200) EXCEPT !.names = listing.names])
    /\ listing' = Closed
    /\ UNCHANGED <<root, tree, canonical, asked, path, edits, moments>>

(* A size that cannot be had is no reason to stop here. *)
CheckSize ==
    /\ files = "size"
    /\ \/ Here > MaxSize /\ Answer(Status(413))
       \/ Here <= MaxSize /\ files' = "read" /\ UNCHANGED <<answer, served>>
    /\ UNCHANGED <<root, tree, canonical, asked, path, listing, edits, moments>>

ReadFile ==
    /\ files = "read"
    /\ \/ Here >= 0 /\ Answer([Status(200) EXCEPT !.body = Here])
       \/ Here < 0 /\ Answer(Status(404))
    /\ UNCHANGED <<root, tree, canonical, asked, path, listing, edits, moments>>

(* The operator publishes a release or edits one.  A listing under way may *)
(* still give a name that is gone, and may give one that is new.           *)
Edit ==
    /\ files # "off"
    /\ edits < MaxEdits
    /\ edits' = edits + 1
    /\ \/ root' \in (Releases \cup {"none"}) \ {root} /\ UNCHANGED tree
       \/ /\ \E release \in Releases, p \in Paths \ {Top}, n \in {Missing, Dir} \cup Sizes :
               tree' = [tree EXCEPT ![release][p] = n]
          /\ \A release \in Releases : tree'[release] \in Trees /\ WellFormed(tree'[release])
          /\ tree' # tree
          /\ UNCHANGED root
    /\ moments' = IF files = "idle" THEN moments ELSE moments \cup {<<root', tree'>>}
    /\ UNCHANGED <<canonical, files, asked, path, answer, served>>
    /\ \/ files # "entries" /\ UNCHANGED listing
       \/ /\ files = "entries"
          /\ listing' = [listing EXCEPT !.ahead = @ \cup (Opened' \ Opened)]

ServeNext ==
    \/ \E r \in Requests : Request(r)
    \/ CanonicalRoot \/ ResolvePath \/ LookAt \/ TryIndex
    \/ OpenDirectory \/ NextEntry \/ EndOfEntries
    \/ CheckSize \/ ReadFile

FilesNext == ServeNext \/ Edit

FilesSpec == FilesInit("idle") /\ [][FilesNext]_filesVars
-----------------------------------------------------------------------------
(* What the file is in a moment, looked at through the link. *)
At(moment, p) == IF moment[1] = "none" THEN Missing ELSE moment[2][moment[1]][p]

(* What a listing of the directory p of the release first found could name. *)
Nameable(p) == {q \in Children(p) : \E m \in moments : m[2][canonical][q] # Missing}

SizeOf(names) ==
    (IF File \in names THEN NameSize(File) ELSE 0)
    + (IF Folder \in names THEN NameSize(Folder) ELSE 0)
    + (IF Index \in names THEN NameSize(Index) ELSE 0)

(* Names too long for a page, or names that came or went and may have been *)
(* read twice.                                                             *)
TooMuchToList(p) ==
    \/ HtmlSize(SizeOf(Nameable(p))) > MaxSize
    \/ \E q \in Nameable(p), m \in moments : m[2][canonical][q] = Missing

(* Every answer of serve_file was true at some moment of the request: a    *)
(* body is what the file or its directory's index had in it, an absence is *)
(* only reported when something on the way was absent, or the directory    *)
(* no longer leads where the handler first found it; a redirect is only    *)
(* sent for a directory, a listing names only what was there, though not   *)
(* all of it at once, and only a file or a listing that is too large is    *)
(* refused.  A directory that is missing when the handler first looks is   *)
(* found later.                                                            *)
AnswersAreGrounded ==
    files = "idle" =>
      LET target == asked.path
      IN  /\ answer.status \in {0, 200, 301, 404, 405, 413}
          /\ answer.status = 405 => asked.method = "POST"
          /\ answer.status = 413 =>
                \/ \E m \in moments : m[2][canonical][target] > MaxSize
                \/ /\ asked.slash /\ \E m \in moments : m[2][canonical][target] = Dir
                   /\ TooMuchToList(target)
          /\ answer.status = 301 => ~asked.slash /\ \E m \in moments : At(m, target) = Dir
          /\ answer.status = 404 =>
                \/ target = Escape
                \/ \E m \in moments : At(m, target) = Missing
                \/ target = Folder /\ \E m \in moments : At(m, Index) = Missing
                \/ canonical \in Releases /\ \E m \in moments : m[1] # canonical
          /\ answer.status = 200 /\ answer.body > 0 =>
                \/ \E m \in moments : m[2][canonical][target] = answer.body
                \/ /\ asked.slash /\ target = Folder
                   /\ \E m \in moments : m[2][canonical][Index] = answer.body
          /\ answer.status = 200 /\ answer.body = 0 =>
                /\ asked.slash
                /\ answer.names \subseteq Nameable(target)
                /\ target = Top \/ \E m \in moments : m[2][canonical][Index] = Missing
=============================================================================
