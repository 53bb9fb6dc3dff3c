---------------------------- MODULE MCSSHTunnels ----------------------------
(* Instances of SSHTunnels for TLC: two calls share a name, one of the three *)
(* tunnels is a SOCKS tunnel.                                                 *)
EXTENDS SSHTunnels

CONSTANTS c1, c2, c3, n1, n2

MCCall == {c1, c2, c3}
MCName == {n1, n2}
MCNameOf == [c \in MCCall |-> IF c = c3 THEN n2 ELSE n1]
MCSocks == {c3}
=============================================================================
