--------------------------- MODULE MCGroupDecode ---------------------------
(* Small files for TLC: four groups, one of them without arrays. *)
EXTENDS GroupDecode

FourGroups == [g \in 0 .. 3 |-> CASE g = 0 -> 2 [] g = 2 -> 0 [] OTHER -> 1]
SomeArrays == {<<0, 1>>, <<3, 0>>}

=============================================================================
