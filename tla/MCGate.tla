------------------------------ MODULE MCGate ------------------------------
(***************************************************************************)
(* Two clients in two shards, two proxies, and headers that already hold   *)
(* the other client's address, a proxy's, or no address at all.            *)
(***************************************************************************)
EXTENDS Gate, TLC

CONSTANTS c1, c2, p1, p2

MCIPs == {c1, c2, p1, p2}
MCShard == c1 :> 0 @@ c2 :> 1 @@ p1 :> 0 @@ p2 :> 1
MCPrefixes == {<<>>, <<NoAddress>>, <<c2, p1>>, <<c1, NoAddress>>}
MCPaths == {<<>>, <<p1>>, <<p1, p2>>, <<p2, p1>>}
=============================================================================
