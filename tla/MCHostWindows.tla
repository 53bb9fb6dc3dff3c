---------------------------- MODULE MCHostWindows ----------------------------
(* Instances of HostWindows for TLC. *)
EXTENDS HostWindows

\* Dev is written "D" "ev", 34.9 is written "34" ".9"; \x44 is the code of D.
MCCapital == "D" :> "d"
MCEscape == "D" :> "\\x44"
MCDigit == "34" :> 4
MCPair == {"de"}
MCDev == <<"D", "ev">>
MCObject == "{Dev}" :> Destination(MCDev, None, None)
MCForeign == {[authority |-> <<"{Dev}">>, meant |-> Destination(MCDev, None, None)]}

\* D@Dev:34; and lab+tag@dev, of which "lab" is left.  Of dev, "de" is hex.
MCTyped == {Destination(MCDev, <<"D">>, <<"34">>), Destination(<<"de", "v">>, <<"lab", "+", "tag">>, None)}

\* 34.9, the beginning of which is the hex of a digit
Number == <<"34", ".9">>
NumberTyped == {Destination(Number, None, None)}

MCHostname == {MCDev, <<"de", "v">>, <<"lab">>}
NumberHostname == MCHostname \cup {Number}

Star == <<"*">>
MCPattern == {Star}

Windows == Permutations(Window)

\* The user's file includes two others and then a third, which one of them includes
\* as well, and a Match section hides an Include.  Or there is next to nothing.
MCDisk == {"many", "one"}
MCContent ==
    "many" :> ("config" :> <<Include(<<"work", "home">>), Other, Include(<<"lab">>), Host(<<Star>>)>> @@
               "work" :> <<Host(<<MCDev, Star>>), Include(<<"lab">>)>> @@
               "home" :> <<Include(<<"lab">>), Host(<<<<"de", "v">>>>)>> @@
               "lab" :> <<Host(<<<<"lab">>>>)>> @@
               "ssh_config" :> <<Match, Include(<<"work">>), Host(<<Star>>), Host(<<<<"lab">>>>)>>) @@
    "one" :> ("config" :> <<Host(<<MCDev>>)>> @@ "ssh_config" :> <<>>)
=============================================================================
