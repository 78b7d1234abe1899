------------------------------ MODULE MCStation ------------------------------
(* Two vehicle nodes that carry the same TraCI name one after the other, a *)
(* third vehicle and a road side unit.  Two services share a port on CCH,  *)
(* one of them listens to a second channel, and two services tap.          *)
EXTENDS Station

CONSTANTS n1, n2, n3, r, i1, i2, i3, i4, r1, r2

MCTraciName == n1 :> "car" @@ n2 :> "car" @@ n3 :> "bus"
MCHost == i1 :> n1 @@ i2 :> n1 @@ i3 :> n2 @@ i4 :> n3 @@ r1 :> r @@ r2 :> r
MCRadioChannel == i1 :> CCH @@ i2 :> 176 @@ i3 :> 176 @@ i4 :> CCH @@ r1 :> CCH @@ r2 :> 176

Always == [operator |-> "or", rules |-> <<>>]
CarsOnly == [operator |-> "and",
    rules |-> <<[kind |-> "name", pattern |-> {"car"}, inverse |-> FALSE],
                [kind |-> "type", pattern |-> {"vehicle"}, inverse |-> FALSE]>>]
Sometimes == [operator |-> "or",
    rules |-> <<[kind |-> "name", pattern |-> {"car"}, inverse |-> TRUE],
                [kind |-> "penetration"]>>]

Service(name, promiscuous, entries, filters) ==
    [name |-> name, promiscuous |-> promiscuous, requiresListener |-> TRUE,
     listeners |-> {[channel |-> e[1], port |-> e[2]] : e \in entries}, filters |-> filters]

MCServiceConfig ==
    {Service("ca", FALSE, {<<NoChannel, 1>>}, Always),
     Service("den", FALSE, {<<Named("CCH"), 1>>, <<Digits(176), 2>>}, Sometimes),
     Service("tap", TRUE, {<<Named("SCH1"), NoPort>>}, CarsOnly),
     Service("log", TRUE, {<<Named("SCH1"), 2>>}, Always)}

MCPolicyConfig ==
    [default |-> Named("CCH"), applications |->
        {<<"wide", Digits(180)>>, <<"wide", Named("SCH1")>>,
         <<"part", Digits(176)>>, <<"part", Named("SCH2")>>}]
=============================================================================
