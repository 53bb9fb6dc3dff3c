--------------------------- MODULE MCAuthHandler ---------------------------
(* Instances of AuthHandler for TLC: f1 and f2 hold one key pair; the agent    *)
(* holds it, or a key of its own, or the pair of the locked file f3.           *)
EXTENDS AuthHandler

CONSTANTS f1, f2, f3, k1, k3, own

MCFile == {f1, f2, f3}
MCKey == {k1, k3, own}
MCKeyIn == (f1 :> k1) @@ (f2 :> k1) @@ (f3 :> k3)
Half(pub, priv) == [public |-> pub, private |-> priv]
MCDisk ==
    {(f1 :> Half("key", "locked")) @@ (f2 :> Half("invalid", "key")) @@ (f3 :> Half("invalid", "locked")),
     (f1 :> Half("key", "absent")) @@ (f2 :> Half("invalid", "key")) @@ (f3 :> Half("key", "locked")),
     (f1 :> Half("key", "invalid")) @@ (f2 :> Half("absent", "absent")) @@ (f3 :> Half("invalid", "invalid"))}
MCAgents == {<<>>, <<own, k1>>, <<k3>>}
AllMethods == Method
=============================================================================
