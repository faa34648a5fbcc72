----------------------------- MODULE MCPeerSync -----------------------------
(* PeerSync with two nodes that mirror each other: t1 travels (and is over  *)
(* a's limit on the way back), t2 is refused by b, t3 is for b itself.      *)
EXTENDS PeerSync

CONSTANTS a, b, t1, t2, t3

TwoNodes == {a, b}
ThreeTids == {t1, t2, t3}
MCOutbound == {<<t1, a>>, <<t2, a>>, <<t3, b>>}
T3LocalToB == {<<t3, b>>}
T2WeakAtB == {<<t2, b>>}
T1LargeForA == {<<t1, a>>}
None == {}
AStaticForB == {<<b, a>>}
OnlyB == {b}
=============================================================================
