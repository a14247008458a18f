---------------------------- MODULE XGenDocument ----------------------------
(***************************************************************************)
(* The curves of an XGen document (src/xgen.cpp) and what the library does   *)
(* with them: materialize_xgen_curves(), the two packed readers,             *)
(* process_xgen_document(), process_xgen_curves(), build_xgen_document().    *)
(*                                                                          *)
(* A host holds a document and the curves it has made of it.  It processes    *)
(* both, or builds the document anew from the curves: the two ways           *)
(* tools/xgen_process.cpp offers (there the curves are in canonical order).   *)
(*                                                                          *)
(* A document is [items, groups]: an item refers to its arrays by identity,   *)
(* a group is a sequence of arrays [tag, data, partial], where partial says    *)
(* that there are bytes left after the last whole element.  Positions are on   *)
(* a line; floats are integers and one value that is not finite.              *)
(***************************************************************************)
EXTENDS Integers, Sequences, FiniteSets, SequencesExt

CONSTANTS
  IdBase,       \* 2^32: an identity is group << 32 | array
  NotFinite,    \* an infinity or no number
  Documents,    \* the documents that are loaded
  Parameters,   \* of processing: [move, length, width]
  Targets,      \* values of target_group_bytes
  MaxCalls      \* Bound: calls that process or build

\* A float, or a coordinate.
Values == Int \cup {NotFinite}

Arrays ==
  {a \in [tag : {"uint32", "float", "vec2", "vec3"}, data : Seq(Values), partial : BOOLEAN] :
     a.tag = "uint32" => a.data \in Seq(Nat)}

\* What an item refers to, an identity for each channel.
ItemSet == [infos : Nat, positions : Nat, widths : Nat, patchUVs : Nat, faceUVs : Nat, faceIds : Nat]

DocumentSet == [items : Seq(ItemSet), groups : Seq(Seq(Arrays))]

ParameterSet == [move : Values, length : Values, width : Values]

\* A built document has eleven arrays, all of them in one group if it is large.
ASSUME XGenDocumentAssumption ==
  /\ IdBase \in Nat /\ IdBase > 11
  /\ NotFinite \notin Int
  /\ Documents \subseteq DocumentSet
  /\ Parameters \subseteq ParameterSet
  /\ Targets \subseteq Nat
  /\ MaxCalls \in Nat

VARIABLES
  document,  \* the XGenDocument
  curves,    \* the evaluated curves, in source order; Invalid if there are none
  target,    \* target_group_bytes of the last build, 0 if the document was loaded
  calls      \* the number of calls

vars == <<document, curves, target, calls>>

-----------------------------------------------------------------------------
(* Arrays *)

\* A result has a curve at least: no curves stand for an exception.
Invalid == <<>>

\* Vectors of C++ count from zero.
At(s, i) == s[i + 1]

Finite(v) == v # NotFinite

GroupOf(id) == id \div IdBase
IndexOf(id) == id % IdBase

InBounds(d, id) ==
  GroupOf(id) < Len(d.groups) /\ IndexOf(id) < Len(At(d.groups, GroupOf(id)))

Array(d, id) == At(At(d.groups, GroupOf(id)), IndexOf(id))
Data(d, id) == Array(d, id).data

Holds(d, id, tag) ==
  InBounds(d, id) /\ Array(d, id).tag = tag /\ ~Array(d, id).partial

-----------------------------------------------------------------------------
(* materialize_xgen_curves() *)

Primitives(d, it) == 0 .. Len(Data(d, it.faceIds)) - 1
Stride(d, it) == Len(Data(d, it.infos)) \div Len(Data(d, it.faceIds))

First(d, it, stride, p) == At(Data(d, it.infos), p * stride)
Count(d, it, stride, p) == At(Data(d, it.infos), p * stride + 1)

RangeFits(d, it, stride, p) ==
  /\ Count(d, it, stride, p) >= 2
  /\ First(d, it, stride, p) + Count(d, it, stride, p) <= Len(Data(d, it.positions))

InfosFit(d, it) ==
  /\ Data(d, it.faceIds) # <<>>
  /\ Len(Data(d, it.infos)) % Len(Data(d, it.faceIds)) = 0
  /\ Stride(d, it) >= 2

ChannelsFit(d, it) ==
  /\ Holds(d, it.patchUVs, "vec2") /\ Holds(d, it.faceUVs, "vec2")
  /\ Holds(d, it.faceIds, "uint32")
  /\ InfosFit(d, it)
  /\ Len(Data(d, it.faceUVs)) = Len(Data(d, it.faceIds))
  /\ Len(Data(d, it.patchUVs)) = Len(Data(d, it.positions))

ShapesFit(d, it) ==
  /\ Holds(d, it.infos, "uint32")
  /\ Holds(d, it.positions, "vec3") /\ Holds(d, it.widths, "float")
  /\ Len(Data(d, it.positions)) = Len(Data(d, it.widths))

\* The elements of an array that belong to one curve.
Span(d, it, id, stride, p) ==
  SubSeq(Data(d, id), First(d, it, stride, p) + 1,
         First(d, it, stride, p) + Count(d, it, stride, p))

AllFinite(s) == \A i \in DOMAIN s : Finite(s[i])

GoodPoints(d, it, stride, p) ==
  /\ AllFinite(Span(d, it, it.positions, stride, p))
  /\ AllFinite(Span(d, it, it.widths, stride, p))
  /\ \A w \in Range(Span(d, it, it.widths, stride, p)) : w >= 0

ItemFits(d, it) ==
  /\ ShapesFit(d, it)
  /\ ChannelsFit(d, it)
  /\ \A p \in Primitives(d, it) :
       /\ RangeFits(d, it, Stride(d, it), p)
       /\ Finite(At(Data(d, it.faceUVs), p))
       /\ GoodPoints(d, it, Stride(d, it), p)
       /\ AllFinite(Span(d, it, it.patchUVs, Stride(d, it), p))

CurveAt(d, it, p) ==
  [key |-> <<At(Data(d, it.faceIds), p), At(Data(d, it.faceUVs), p),
             At(Data(d, it.patchUVs), First(d, it, Stride(d, it), p))>>,
   positions |-> Span(d, it, it.positions, Stride(d, it), p),
   widths    |-> Span(d, it, it.widths, Stride(d, it), p)]

\* The entries for p = 0, 1, .. of all items, one item after another.
Gather(d, Entry(_, _), Number(_)) ==
  FlattenSeq([i \in DOMAIN d.items |->
                [k \in 1 .. Number(d.items[i]) |-> Entry(d.items[i], k - 1)]])

\* Mutation of SameIdentity: duplicates pass.
SameIdentityNever(c, e) == FALSE

SameIdentity(c, e) == c.key = e.key

Duplicates(s) == \E i, j \in DOMAIN s : i < j /\ SameIdentity(s[i], s[j])

KeyLess(k, m) ==
  \E n \in DOMAIN k : k[n] < m[n] /\ \A i \in 1 .. n - 1 : k[i] = m[i]

\* The curves that go before curve i of s: equal ones stay as they are.
Before(s, i) ==
  {j \in DOMAIN s : KeyLess(s[j].key, s[i].key) \/ (s[j].key = s[i].key /\ j < i)}

\* std::stable_sort: curve n is the one with n - 1 curves before it.
Canonical(s) ==
  [n \in DOMAIN s |-> s[CHOOSE i \in DOMAIN s : Cardinality(Before(s, i)) = n - 1]]

\* Canonical order, in which every identity is there once.
Arranged(s, order) ==
  IF order = "source" THEN s ELSE IF Duplicates(s) THEN Invalid ELSE Canonical(s)

Materialize(d, order) ==
  IF d.items # <<>> /\ \A i \in DOMAIN d.items : ItemFits(d, d.items[i])
  THEN Arranged(Gather(d, LAMBDA it, p : CurveAt(d, it, p),
                          LAMBDA it : Len(Data(d, it.faceIds))), order)
  ELSE Invalid

-----------------------------------------------------------------------------
(* materialize_xgen_packed_curves() and parse_xgen_packed_curves() *)

\* PrimitiveInfos of version 1 are (offset, count, flags).
PackedStride(d, it, order) == IF order = "source" THEN 3 ELSE Stride(d, it)

PackedCount(d, it, order) ==
  IF order = "source" THEN Len(Data(d, it.infos)) \div 3 ELSE Len(Data(d, it.faceIds))

PackedShapesFit(d, it, order) ==
  /\ ShapesFit(d, it)
  /\ IF order = "source"
     THEN Data(d, it.infos) # <<>> /\ Len(Data(d, it.infos)) % 3 = 0
     ELSE ChannelsFit(d, it)

\* Mutation of UVsFit: only the root of a curve is looked at.
UVsFitAtRoot(d, it, stride, p) ==
  /\ Finite(At(Data(d, it.faceUVs), p))
  /\ Finite(At(Data(d, it.patchUVs), First(d, it, stride, p)))

UVsFit(d, it, stride, p) ==
  /\ Finite(At(Data(d, it.faceUVs), p))
  /\ AllFinite(Span(d, it, it.patchUVs, stride, p))

PackedItemFits(d, it, order) ==
  /\ PackedShapesFit(d, it, order)
  /\ \A p \in 0 .. PackedCount(d, it, order) - 1 :
       LET stride == PackedStride(d, it, order)
       IN /\ RangeFits(d, it, stride, p)
          /\ GoodPoints(d, it, stride, p)
          /\ order = "canonical" => UVsFit(d, it, stride, p)

\* Half of a width.
Radius(w) == w \div 2

Points(positions, widths) ==
  [n \in DOMAIN positions |-> <<positions[n], Radius(widths[n])>>]

\* The renderer's curve, with its identity if it is to be sorted.
PackedCurve(d, it, order, p) ==
  LET stride == PackedStride(d, it, order)
  IN [key    |-> IF order = "source" THEN <<>> ELSE CurveAt(d, it, p).key,
      points |-> Points(Span(d, it, it.positions, stride, p), Span(d, it, it.widths, stride, p))]

OnlyPoints(s) == [n \in DOMAIN s |-> s[n].points]

\* pack_referenced_arrays()
Pack(d, order) ==
  IF d.items # <<>> /\ \A i \in DOMAIN d.items : PackedItemFits(d, d.items[i], order)
  THEN OnlyPoints(Arranged(Gather(d, LAMBDA it, p : PackedCurve(d, it, order, p),
                                     LAMBDA it : PackedCount(d, it, order)), order))
  ELSE Invalid

\* What the fused reader selects: identities with the tags they must have.
Selection(d, order) ==
  UNION {LET it == d.items[i]
         IN {<<it.infos, "uint32">>, <<it.positions, "vec3">>, <<it.widths, "float">>}
            \cup IF order = "source" THEN {}
                 ELSE {<<it.patchUVs, "vec2">>, <<it.faceUVs, "vec2">>, <<it.faceIds, "uint32">>}
         : i \in DOMAIN d.items}

\* No identity with two tags, none out of bounds, none with another tag.
SelectionLoads(d, order) ==
  /\ \A s, t \in Selection(d, order) : s[1] = t[1] => s[2] = t[2]
  /\ \A s \in Selection(d, order) : InBounds(d, s[1]) /\ Array(d, s[1]).tag = s[2]

NotLoaded == [tag |-> "none", data |-> <<>>, partial |-> FALSE]

\* Of the file it copies what it has selected; the other arrays are not there.
LoadedFile(d, order) ==
  LET ids == {s[1] : s \in Selection(d, order)}
  IN [d EXCEPT !.groups = [g \in DOMAIN d.groups |->
                             [a \in DOMAIN d.groups[g] |->
                                IF (g - 1) * IdBase + a - 1 \in ids THEN d.groups[g][a] ELSE NotLoaded]]]

Fused(d, order) ==
  IF d.items # <<>> /\ SelectionLoads(d, order) THEN Pack(LoadedFile(d, order), order) ELSE Invalid

-----------------------------------------------------------------------------
(* Processing *)

ParametersFit(q) ==
  /\ Finite(q.move) /\ Finite(q.length) /\ Finite(q.width)
  /\ q.length >= 0 /\ q.width >= 0

MovesPositions(q) == q.length # 1 \/ q.move # 0

Times(v, f) == IF Finite(v) THEN v * f ELSE NotFinite

Moved(v, root, q) ==
  IF Finite(v) /\ Finite(root) THEN root + (v - root) * q.length + q.move ELSE NotFinite

\* process_xgen_curves()
ProcessedCurve(c, q) ==
  [c EXCEPT !.positions = [n \in DOMAIN @ |-> Moved(@[n], @[1], q)],
            !.widths = [n \in DOMAIN @ |-> Times(@[n], q.width)]]

ProcessedCurves(s, q) == [n \in DOMAIN s |-> ProcessedCurve(s[n], q)]

\* One primitive of an item, in place.
MovePrimitive(s, first, count, q) ==
  [n \in DOMAIN s |-> IF n - 1 \in first .. first + count - 1
                      THEN Moved(s[n], At(s, first), q) ELSE s[n]]

MovedPositions(d, it, q) ==
  LET Move(s, p) == MovePrimitive(s, First(d, it, Stride(d, it), p), Count(d, it, Stride(d, it), p), q)
  IN FoldLeft(Move, Data(d, it.positions), [n \in 1 .. Len(Data(d, it.faceIds)) |-> n - 1])

Write(d, id, data) ==
  [d EXCEPT !.groups[GroupOf(id) + 1][IndexOf(id) + 1].data = data]

\* Mutation of NotYet: an array is processed for every item that refers to it.
NotYetForgotten(done, id) == TRUE

NotYet(done, id) == id \notin done

\* process_xgen_document(), one item: run is the call so far.
ProcessItem(run, it, q) ==
  LET d == run.document
      fits == ShapesFit(d, it) /\ Holds(d, it.faceIds, "uint32") /\ InfosFit(d, it)
      moves == MovesPositions(q) /\ NotYet(run.positions, it.positions)
      scales == q.width # 1 /\ NotYet(run.widths, it.widths)
      moved == IF moves THEN Write(d, it.positions, MovedPositions(d, it, q)) ELSE d
      Scaled(s) == [n \in DOMAIN s |-> Times(s[n], q.width)]
  IN IF run.threw THEN run
     ELSE IF ~fits \/ (moves /\ \E p \in Primitives(d, it) : ~RangeFits(d, it, Stride(d, it), p))
     THEN [run EXCEPT !.threw = TRUE]
     ELSE [threw     |-> FALSE,
           positions |-> IF moves THEN run.positions \cup {it.positions} ELSE run.positions,
           widths    |-> IF scales THEN run.widths \cup {it.widths} ELSE run.widths,
           document  |-> IF scales THEN Write(moved, it.widths, Scaled(Data(d, it.widths)))
                                   ELSE moved]

ProcessDocument(d, q) ==
  FoldLeft(LAMBDA run, it : ProcessItem(run, it, q),
           [document |-> d, positions |-> {}, widths |-> {}, threw |-> ~ParametersFit(q)],
           d.items)

-----------------------------------------------------------------------------
(* build_xgen_document() *)

ElementBytes(tag) ==
  CASE tag \in {"uint32", "float"} -> 4 [] tag = "vec2" -> 8 [] tag = "vec3" -> 12

\* A record of a group: a header and the data.
RecordBytes(a) == 16 + Len(a.data) * ElementBytes(a.tag)
GroupBytes(g) == FoldLeft(LAMBDA n, a : n + RecordBytes(a), 0, g)

Whole(tag, data) == [tag |-> tag, data |-> data, partial |-> FALSE]

PointsBefore(s, n) == FoldLeft(LAMBDA m, c : m + Len(c.positions), 0, SubSeq(s, 1, n - 1))

\* The eleven arrays of the item.  Frames, frozen marks and directions are
\* derived from the positions; only their sizes matter here.
ItemArrays(s) ==
  LET points == PointsBefore(s, Len(s) + 1)
      Each(n) == [k \in 1 .. n |-> 0]
      Flat(Part(_)) == FlattenSeq([n \in DOMAIN s |-> Part(s[n])])
      Infos(n) == <<PointsBefore(s, n), Len(s[n].positions), 0>>
  IN << Whole("uint32", FlattenSeq([n \in DOMAIN s |-> Infos(n)])),
        Whole("vec3", Flat(LAMBDA c : c.positions)),
        Whole("vec2", Flat(LAMBDA c : [n \in DOMAIN c.positions |-> c.key[3]])),
        Whole("vec3", Each(Len(s))), Whole("vec3", Each(Len(s))), Whole("vec3", Each(Len(s))),
        Whole("vec2", [n \in DOMAIN s |-> s[n].key[2]]),
        Whole("uint32", [n \in DOMAIN s |-> s[n].key[1]]),
        Whole("float", Each(points)),
        Whole("float", Flat(LAMBDA c : c.widths)),
        Whole("vec3", Each(points)) >>

\* A group is closed when the next record would take it beyond the target.
StartsGroup(groups, bytes, record, limit) ==
  \/ groups = <<>>
  \/ /\ Last(groups) # <<>>
     /\ bytes > limit - (IF limit < record THEN limit ELSE record)

\* An array goes to the last group or a new one; ids are those of the arrays.
AddArray(b, a, limit) ==
  LET new == StartsGroup(b.groups, b.bytes, RecordBytes(a), limit)
      groups == IF new THEN Append(b.groups, <<>>) ELSE b.groups
  IN [ids    |-> Append(b.ids, (Len(groups) - 1) * IdBase + Len(Last(groups))),
      bytes  |-> (IF new THEN 0 ELSE b.bytes) + RecordBytes(a),
      groups |-> [groups EXCEPT ![Len(groups)] = Append(@, a)]]

\* Eleven arrays are far from the limits of groups and of arrays in a group.
Buildable(s) == s # Invalid /\ PointsBefore(s, Len(s) + 1) < IdBase

\* One array after another.
Grouped(arrays, limit) ==
  FoldLeft(LAMBDA built, a : AddArray(built, a, limit),
           [ids |-> <<>>, bytes |-> 0, groups |-> <<>>], arrays)

Build(s, limit) ==
  LET b == Grouped(ItemArrays(s), limit)
      item == [infos |-> b.ids[1], positions |-> b.ids[2], patchUVs |-> b.ids[3],
               faceUVs |-> b.ids[7], faceIds |-> b.ids[8], widths |-> b.ids[10]]
  IN [items |-> <<item>>, groups |-> b.groups]

-----------------------------------------------------------------------------
(* The host *)

Init ==
  /\ document \in Documents
  /\ curves = Materialize(document, "source")
  /\ target = 0
  /\ calls = 0

\* The document and the curves are processed.  A call that throws may have
\* processed some items.
Process(q) ==
  /\ calls < MaxCalls
  /\ document' = ProcessDocument(document, q).document
  /\ curves' = IF ParametersFit(q) THEN ProcessedCurves(curves, q) ELSE curves
  /\ calls' = calls + 1
  /\ UNCHANGED target

\* The document is built anew from the curves.
Rebuild(limit) ==
  /\ calls < MaxCalls
  /\ Buildable(curves)
  /\ limit # 0
  /\ document' = Build(curves, limit)
  /\ target' = limit
  /\ calls' = calls + 1
  /\ UNCHANGED curves

Done == calls = MaxCalls /\ UNCHANGED vars

Next == (\E q \in Parameters : Process(q)) \/ (\E limit \in Targets : Rebuild(limit)) \/ Done

Spec == Init /\ [][Next]_vars

-----------------------------------------------------------------------------
(* Correctness *)

Disjoint(d, it, p, r) ==
  \/ First(d, it, Stride(d, it), p) + Count(d, it, Stride(d, it), p) <= First(d, it, Stride(d, it), r)
  \/ First(d, it, Stride(d, it), r) + Count(d, it, Stride(d, it), r) <= First(d, it, Stride(d, it), p)

\* Curve p of this item and curve r of the other are the same points of one array.
SamePoints(d, it, p, other, r) ==
  /\ First(d, other, Stride(d, other), r) = First(d, it, Stride(d, it), p)
  /\ Count(d, other, Stride(d, other), r) = Count(d, it, Stride(d, it), p)

\* Every item that refers to the positions of curve p has this curve as well, and
\* none of its other curves has a point of it.
StandsAlone(d, it, p) ==
  \A i \in DOMAIN d.items :
    d.items[i].positions = it.positions =>
      \E r \in Primitives(d, d.items[i]) :
        /\ SamePoints(d, it, p, d.items[i], r)
        /\ \A o \in Primitives(d, d.items[i]) : o # r => Disjoint(d, d.items[i], r, o)

\* Of each curve of the document, in source order.
Alone(d) ==
  Gather(d, LAMBDA it, p : StandsAlone(d, it, p), LAMBDA it : Len(Data(d, it.faceIds)))

\* Whatever is processed and rebuilt, in whatever order and with whatever arrays
\* shared, the document stands for as many curves as those that were processed
\* beside it, with the same identities and widths; and each curve that stands
\* alone has the same positions: an array that several items refer to is
\* processed once (lines 1480-1563, 1565-1686).
RoutesAgree ==
  curves # Invalid =>
    LET now == Materialize(document, "source")
    IN /\ Len(now) = Len(curves)
       /\ \A n \in DOMAIN curves :
            /\ now[n].key = curves[n].key /\ now[n].widths = curves[n].widths
            /\ Alone(document)[n] => now[n].positions = curves[n].positions

\* What the renderer gets of evaluated curves.
PointsOf(s) == [n \in DOMAIN s |-> Points(s[n].positions, s[n].widths)]

ThreeWords(d) == \A i \in DOMAIN d.items : Stride(d, d.items[i]) = 3

\* The fused reader, the packed reader of a document and full materialization
\* give the same points, and in canonical order refuse the same files; in
\* source order they need PrimitiveInfos of three words (lines 702-870, 880-1077).
ReadersAgree ==
  /\ \A order \in {"source", "canonical"} : Fused(document, order) = Pack(document, order)
  /\ Pack(document, "canonical") = PointsOf(Materialize(document, "canonical"))
  /\ LET source == Materialize(document, "source")
     IN source # Invalid /\ ThreeWords(document) => Pack(document, "source") = PointsOf(source)

\* Canonical order is that of the set of curves: in what order the items come,
\* and in what groups the arrays are, makes no difference (include/nanoxgen/xgen.h:59).
CanonicalIsStable ==
  /\ Materialize([document EXCEPT !.items = Reverse(@)], "canonical")
       = Materialize(document, "canonical")
  /\ target # 0 => Materialize(document, "canonical") = Arranged(curves, "canonical")

-----------------------------------------------------------------------------
(* The inductive invariant *)

CurveSet ==
  {c \in [key : Nat \X Int \X Int, positions : Seq(Int), widths : Seq(Nat)] :
     Len(c.positions) >= 2 /\ Len(c.widths) = Len(c.positions)}

TypeOK ==
  /\ document \in DocumentSet
  /\ curves \in Seq(CurveSet)
  /\ target \in Targets \cup {0}
  /\ calls \in 0 .. MaxCalls

\* All that ItemFits() asks for, but for the values of the floats.
Shaped(d) ==
  /\ d.items # <<>>
  /\ \A i \in DOMAIN d.items :
       /\ ShapesFit(d, d.items[i]) /\ ChannelsFit(d, d.items[i])
       /\ \A p \in Primitives(d, d.items[i]) :
            RangeFits(d, d.items[i], Stride(d, d.items[i]), p)

\* A document that was built has curves, and all of them stand alone.
BuiltStandsAlone ==
  target # 0 => /\ curves # Invalid
                /\ \A i \in DOMAIN document.items : \A p \in Primitives(document, document.items[i]) :
                     StandsAlone(document, document.items[i], p)

IInv ==
  /\ TypeOK
  /\ curves # Invalid => Shaped(document)
  /\ RoutesAgree
  /\ BuiltStandsAlone

=============================================================================
