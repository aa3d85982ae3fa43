----------------------------- MODULE MCDecisions -----------------------------
(***************************************************************************)
(* The decisions the program takes one request or one input at a time, in  *)
(* one run: routing a session under changing rule-sets (RouteSelect), an   *)
(* HTTP exchange (HttpExchange), the masquerade's files (MasqueradeFiles), *)
(* and, for every input of a bounded set, what the program makes of a      *)
(* binary rule-set, a wire format, a tunnel message, a configuration and a *)
(* tunnel request.                                                         *)
(***************************************************************************)
EXTENDS MCRouteSelect, MasqueradeFiles, HttpExchange, TLC

CONSTANTS Width, MaxPort, MaxNesting,                           \* RuleSetFile
          MaxName, MaxFrame, MaxJumps, MaxSegments, MaxMessage  \* WireCodecs

VARIABLES part,
          input      \* the input of a part that is one computation

Srs == INSTANCE RuleSetFile
Codecs == INSTANCE WireCodecs
Rpc == INSTANCE RpcMessages
Loader == INSTANCE ConfigLoad
Tunnel == INSTANCE CloudflaredRouting

Page(scheme, host, port, where) == [scheme |-> scheme, host |-> host, port |-> port, path |-> where]
PageA == Page("https", "a", 443, <<"d", "x">>)
PageB == Page("https", "a", 443, <<"d", "y">>)
PageC == Page("http", "b", 8080, <<"y">>)
PageD == Page("http", "b", 80, <<"z">>)
MCSites == {(PageA :> PageB @@ PageB :> PageB @@ PageC :> PageA @@ PageD :> PageD),
            (PageA :> PageD @@ PageD :> PageC @@ PageC :> PageB @@ PageB :> PageA)}
-----------------------------------------------------------------------------
IdleRouting ==
    /\ config = [rules |-> << >>, final |-> ""] /\ session = "none" /\ sets = [tag \in SetTags |-> {}]
    /\ pc = "off" /\ index = 1 /\ base = FALSE /\ next = 1 /\ hit = FALSE
    /\ outcome = "none" /\ given = [inbound |-> "none"] /\ span = << >>

IdleExchange ==
    ExchangeInit("idle") /\ site = (CHOOSE s \in Sites : TRUE) /\ url = PageA
    /\ job = (CHOOSE j \in Jobs : TRUE)

IdleFiles == FilesInit("off") /\ root = "none"

\* The parts that are one computation for an input.
Computations == {"rules", "codecs", "messages", "config", "tunnel"}

ChooseInput ==
    \/ part = "rules" /\ input \in Srs!Files
    \/ part = "codecs" /\ input \in Codecs!CodecCases
    \/ part = "messages" /\ input \in Rpc!MessageCases
    \/ part = "config" /\ input \in Loader!ConfigCases
    \/ part = "tunnel" /\ input \in Tunnel!TunnelCases

MCInit ==
    \/ part = "routing" /\ input = 0 /\ Init /\ IdleExchange /\ IdleFiles
    \/ part = "exchange" /\ input = 0 /\ IdleRouting /\ ExchangeInit("request") /\ IdleFiles
    \/ part = "files" /\ input = 0 /\ IdleRouting /\ IdleExchange /\ FilesInit("idle")
    \/ /\ ChooseInput
       /\ IdleRouting /\ IdleExchange /\ IdleFiles

\* A computation, an exchange and the last request have an end.
Ended ==
    /\ part \in Computations \/ exchange = "done" \/ (files = "idle" /\ served = MaxRequests)
    /\ UNCHANGED <<vars, exchangeVars, filesVars>>

MCNext ==
    /\ \/ part = "routing" /\ Next /\ UNCHANGED <<exchangeVars, filesVars>>
       \/ part = "exchange" /\ ExchangeNext /\ UNCHANGED <<vars, filesVars>>
       \/ part = "files" /\ FilesNext /\ UNCHANGED <<vars, exchangeVars>>
       \/ Ended
    /\ UNCHANGED <<part, input>>

MCSpec ==
    /\ MCInit
    /\ [][MCNext]_<<part, input, vars, exchangeVars, filesVars>>
-----------------------------------------------------------------------------
(* A binary rule-set read by srs.rs matches what its author's rules match. *)
FileMeansTheSame == part = "rules" => Srs!FileMeansTheSame(input)

(* What one side of a protocol writes, the other reads, and nothing else:  *)
(* addresses, AnyTLS frames and their padding, text encodings, varints,    *)
(* DNS names, datagram registrations, connect frames and RPC messages.     *)
WireAgrees ==
    /\ part = "codecs" => Codecs!CodecsAgree(input)
    /\ part = "messages" => Rpc!MessagesAgree(input)

(* The command line, the files in the order of their paths and their       *)
(* comments lead to the configuration the help text describes.             *)
ConfigIsGathered == part = "config" => Loader!ConfigIsGathered(input)

(* A tunnel dials the edges one good answer names, and a request goes to   *)
(* the service of the first ingress rule that takes it, with the tunnel's  *)
(* own framing.                                                            *)
TunnelsAreRouted == part = "tunnel" => Tunnel!TunnelsAreRouted(input)
=============================================================================
