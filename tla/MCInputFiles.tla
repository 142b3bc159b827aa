---------------------------- MODULE MCInputFiles ----------------------------
(* Names over one label in two spellings; the label "*" of a host differs from *)
(* the wildcard.  Addresses of two bits.  Configuration files that begin with  *)
(* nothing, or with a tunnel whose endpoint is a name and lacks a number.      *)
EXTENDS InputFiles, TLC

MCLabels == {"", "*", "a", "A"}
MCLower == [l \in MCLabels |-> IF l = "A" THEN "a" ELSE l]
MCHosts == {<<"a">>, <<"a", "a">>, <<"A", "">>}

MCRulesLines ==
    {IPLine(a) : a \in {1, 2}}
    \cup {CIDRLine(a, b) : a \in {0, 3}, b \in 0..2}
    \cup {DomainLine(p) : p \in {<<"a">>, <<"*", "a">>}}
    \cup {BadLine}

MCPieces ==
    {<<"-c", "w">>, <<"-c", "--">>, <<"-a", "x">>, <<"-s", "1">>, <<"-s", "w">>, <<"-x">>,
     <<"--dry-run">>, <<"w">>, <<"run">>, <<"--">>}

MCLookup == "named" :> "address" @@ "named6" :> ""

MCBeginnings ==
    {<<>>,
     <<Header("interface"), Pair("privatekey", "k"), Pair("address", <<"net4">>), Header("peer"),
       Pair("publickey", "k"), Pair("endpoint", "named"), Pair("allowedips", <<"net4">>)>>}

MCConfigLines ==
    {Header(s) : s \in {"interface", "peer", "other"}}
    \cup {Text}
    \cup {Pair("privatekey", "k"), Pair("publickey", "l"), Pair("publickey", "k"),
          Pair("endpoint", "address2"), Pair("allowedips", <<"net6", "net4">>),
          Pair("address", <<"net6">>), Pair("jc", 1), Pair("jc", NotANumber),
          Pair("presharedkey", "l"), Pair("persistentkeepalive", 1),
          Pair("persistentkeepalive", -1)}
=============================================================================
