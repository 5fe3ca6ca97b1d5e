--------------------------- MODULE MCPVCSelection ---------------------------
(* Instances of PVCSelection for TLC.                                       *)
EXTENDS PVCSelection, TLC

CONSTANTS p1, p2

OnePVC == {p1}
TwoPVCs == {p1, p2}
TwoNamespaces == {"default", "production"}
OneKey == {"app"}
TwoValues == {"", "db"}

App(v) == "app" :> v
SomeLabels == {NoLabels, App(""), App("db")}

By(l, n) == [matchLabels |-> l, matchNamespaces |-> n]
Singles == {By(l, n) : l \in {NoLabels, App(""), App("db")},
                       n \in {Nil, <<"default">>, <<"production">>}}
Pair == By(NoLabels, <<"default", "production">>)

Nowhere == By(NoLabels, <<>>)

(* No selector, one selector, or two; one may name two namespaces, or give  *)
(* an empty list of them.                                                   *)
SomeSelectors == {<<>>} \cup {<<s>> : s \in Singles \cup {Pair, Nowhere}}
                 \cup {<<s, By(NoLabels, <<"production">>)>> : s \in Singles \cup {Nowhere}}
ExampleSelectors == {<<Pair>>}
EmptyList == {<<Nowhere>>}
=============================================================================
