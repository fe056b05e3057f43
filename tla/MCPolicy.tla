------------------------------ MODULE MCPolicy ------------------------------
EXTENDS Policy, TLC

\* One product "p" with the alias "a", perhaps another one "q"; stations "s" and "t".
Rule(product, station, review, hold) ==
    [product |-> product, station |-> station, review |-> review, hold |-> hold]

Overrides ==
    {Rule("p", Unset, 0, 1), Rule(Unset, "s", 1, 3), Rule("p", "s", 2, 3), Rule("q", Unset, 0, 3)}

Policy(overrides) == [default |-> Rule(Unset, Unset, 1, 2), overrides |-> overrides]

Single == ("p" :> {"a"})
Pair == ("p" :> {"a"}) @@ ("q" :> {})

Pack(products, stations, overrides) ==
    [products |-> products, stations |-> stations, policy |-> Policy(overrides)]

Plain == Pack(Pair, {"s", "t"}, {})

\* The other product's override and the station's, which this catalog keeps apart.
Apart == Pack(Single, {"s"}, {Rule(Unset, "s", 1, 3), Rule("q", Unset, 0, 3)})

PlainOffers ==
    {Plain, Apart, [Apart EXCEPT !.products = Pair],
     Pack(Single, {"s", "t"}, {Rule("p", Unset, 0, 1), Rule(Unset, "s", 1, 3)}),
     Pack(Single, {"s"}, {Rule(Unset, "s", 1, 3), Rule("p", "s", 2, 3)}),
     Pack(Pair, {"s", "t"}, Overrides \ {Rule("q", Unset, 0, 3)})}

PlainFiles == {Plain, Apart}

\* For any station.
WildOffers == {Pack(Single, {Wildcard}, overrides) : overrides \in SUBSET Overrides}

WildFiles == {Pack(Single, {Wildcard}, {})}

=============================================================================
