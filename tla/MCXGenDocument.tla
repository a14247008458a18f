--------------------------- MODULE MCXGenDocument ---------------------------
(* Documents of one or two items for TLC.  The arrays are common to all; an  *)
(* item refers to any of those that suit a channel or just fail to.         *)
EXTENDS XGenDocument

MCBase == 16

Pool ==
  << << Whole("uint32", <<0, 2, 0, 2, 3, 0>>),    \* 0: two curves of three words
        Whole("vec3",   <<1, 2, 4, 6, 5>>),       \* 1
        Whole("float",  <<2, 2, 4, 4, 2>>),       \* 2
        Whole("vec2",   <<1, 1, 2, 2, 2>>),       \* 3
        Whole("vec2",   <<1, 2>>),                \* 4
        Whole("uint32", <<7, 3>>) >>,             \* 5
     << Whole("uint32", <<0, 3, 0, 2, 3, 0>>),    \* 16: curves that overlap
        Whole("uint32", <<0, 2, 2, 2, 3, 2>>),    \* 17: three curves of two words
        Whole("uint32", <<0, 2, 0, 3, 3, 0>>),    \* 18: one beyond the end
        Whole("uint32", <<3, 2, 0>>),             \* 19: one curve
        Whole("vec3",   <<0, 3, 1, 5, 2>>),       \* 20
        Whole("vec3",   <<0, 3, 1, 5, NotFinite>>),      \* 21: not finite
        [tag |-> "vec3", data |-> <<0, 3, 1, 5, 2>>, partial |-> TRUE], \* 22
        Whole("float",  <<2, -2, 4, 4, 2>>),      \* 23: a negative width
        Whole("vec2",   <<2, 2, 1, NotFinite, 1>>),      \* 24: not finite
        Whole("vec2",   <<1, 2, 2, 1, 1>>),       \* 25
        Whole("vec2",   <<1>>),                   \* 26
        Whole("vec2",   <<1, 2, 2>>),             \* 27
        Whole("uint32", <<7>>),                   \* 28
        Whole("uint32", <<7, 3, 7>>) >> >>        \* 29

Item(i, p, w, q, u, f) ==
  [infos |-> i, positions |-> p, widths |-> w, patchUVs |-> q, faceUVs |-> u, faceIds |-> f]

\* 40 is out of bounds; 4 and 28 have the wrong types for faces and widths.
Items == {Item(i, p, w, q, u, f) : i \in {0, 16, 17, 18, 19}, p \in {1, 20, 21, 22},
          w \in {2, 23, 28}, q \in {3, 24, 25}, u \in {4, 26, 27}, f \in {5, 28, 29, 4, 40}}

\* Those that fit are combined with two others, the rest stands alone or
\* behind an item that fits.
GoodItems == {it \in Items : ItemFits([items |-> <<it>>, groups |-> Pool], it)}
Firsts == {Item(0, 1, 2, 3, 4, 5), Item(16, 20, 2, 25, 4, 5)}
BadItems == {it \in Items \ GoodItems : it.patchUVs # 25 /\ it.infos \in {0, 17, 18}}

MCDocuments ==
  {[items |-> s, groups |-> Pool] :
     s \in {<<>>} \cup {<<it>> : it \in GoodItems \cup BadItems}
           \cup {<<it, other>> : it \in Firsts, other \in GoodItems}
           \cup {<<Item(0, 1, 2, 3, 4, 5), other>> : other \in BadItems}}

MCParameters ==
  {[move |-> 1, length |-> 2, width |-> 1], [move |-> 0, length |-> 1, width |-> 3],
   [move |-> 0, length |-> 0, width |-> 0], [move |-> 1, length |-> -1, width |-> 1]}

=============================================================================
