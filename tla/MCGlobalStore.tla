--------------------------- MODULE MCGlobalStore ---------------------------
(* Instances of GlobalStore: a variable over two pages, and two in a page, *)
(* one of which another process writes.                                    *)
EXTENDS GlobalStore

CONSTANTS across, within, reading

MCFirst == [v \in Var |-> CASE v = across -> 1 [] v = within -> 4 [] v = reading -> 6]
MCSize == [v \in Var |-> CASE v = across -> 3 [] v \in {within, reading} -> 2]
MCTwoHashes == <<7, 8>>
=============================================================================
