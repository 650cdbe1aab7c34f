--------------------------- MODULE MCPubSubBridge ----------------------------
(* The bridge with a channel and a pattern, two callers and one reader.       *)
EXTENDS PubSubBridge
=============================================================================
