------------------------ MODULE MCCloudflaredTunnel ------------------------
(* The options that differ in what the supervisor may do: "auto" with and  *)
(* without the right to fall back, HTTP/2 with and without a grace      *)
(* period, and a combination start() refuses.                              *)
EXTENDS CloudflaredTunnel

MCOptions ==
    { [protocol |-> "auto", post_quantum |-> FALSE, grace |-> FALSE],
      [protocol |-> "auto", post_quantum |-> TRUE, grace |-> TRUE],
      [protocol |-> "http2", post_quantum |-> FALSE, grace |-> FALSE],
      [protocol |-> "http2", post_quantum |-> FALSE, grace |-> TRUE],
      [protocol |-> "http2", post_quantum |-> TRUE, grace |-> FALSE] }
=============================================================================
