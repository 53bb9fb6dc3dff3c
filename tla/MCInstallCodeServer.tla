------------------------ MODULE MCInstallCodeServer ------------------------
(* Instances of InstallCodeServer for TLC. *)
EXTENDS InstallCodeServer

\* 1.112.02593, 1.112.0260 and 1.117.4.25026
Fused(minor, digits) == [minor |-> minor, third |-> digits, fourth |-> <<>>]
MCLocal == [version |-> <<112, <<0>>>>, build |-> <<2, 5, 9, 3>>]
MCWishes ==
    {[objective |-> "closest",
      titles |-> <<Fused(112, <<0, 2, 5, 9, 3>>), Fused(112, <<0, 2, 6, 0>>),
                   [minor |-> 117, third |-> <<4>>, fourth |-> <<2, 5>>]>>]}

\* The titles of release.yml:128, "Code Personal 1.113.0" and "Code Personal 1.112.0"
OwnWishes == {[objective |-> "latest", titles |-> <<Fused(113, <<0>>), Fused(112, <<0>>)>>]}
=============================================================================
