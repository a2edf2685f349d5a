----------------------------- MODULE MCLanding ------------------------------
(* Two files of which one is called what the other is to be called, and two *)
(* that are written alike here, beside files of the same names.             *)
EXTENDS Landing

Cleans == [s \in {"a", "A", "a?"} |-> IF s = "a?" THEN "a_" ELSE s]
Folds == [s \in {"a", "A", "a_"} |-> IF s = "A" THEN "a" ELSE s]
F(name) == [name |-> name, under |-> None]
Two == {<<F(<<"a">>), F(<<"a", 2>>)>>, <<F(<<"a?">>), F(<<"A">>)>>}
UpToFive == 2..5
=============================================================================
