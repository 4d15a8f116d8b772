---------------------------- MODULE MCConfigStore ----------------------------
(* Small instances of ConfigStore for TLC: contested keys for three        *)
(* requests, or two requests and a key (c) that neither of them sets.      *)
EXTENDS ConfigStore, TLC

CONSTANTS w1, w2, w3, a, b, c

TwoKeys == {a, b}
ThreeKeys == {a, b, c}
ThreeWriters == {w1, w2, w3}
TwoWriters == {w1, w2}
Contested == (w1 :> <<a, b>>) @@ (w2 :> <<b>>) @@ (w3 :> <<a>>)
Disjoint == (w1 :> <<a>>) @@ (w2 :> <<b>>)
=============================================================================
