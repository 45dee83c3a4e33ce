-------------------------- MODULE MCBridgeSession --------------------------
(* Small instances of BridgeSession for TLC. *)
EXTENDS BridgeSession

MCPayloads == {"t1", "t2", "u1", "u3"}
MCChannel == [p \in MCPayloads |-> IF p \in {"t1", "t2"} THEN "tcp" ELSE "udp"]
MCSize == [p \in MCPayloads |-> CASE p = "t1" -> 1 [] p = "t2" -> 2 [] p = "u1" -> 1 [] p = "u3" -> 3]

=============================================================================
