---------------------------- MODULE CurvePayload ----------------------------
(***************************************************************************)
(* build_curve_batches() (src/curve_payload.cpp): curves in the units that    *)
(* renderers take, at most max_strands_per_batch of them in one, with their   *)
(* motion samples and values per strand.                                     *)
(*                                                                          *)
(* A CurveSetView is [strands, fixed, counts, points, widths, rootUVs,        *)
(* width]; a motion sample is [time, curves]; a value per strand is           *)
(* [name, values].  Positions are on a line and such that interpolation is    *)
(* exact; a transform is a distance, the identity is 0.                       *)
(***************************************************************************)
EXTENDS CurveCache

-----------------------------------------------------------------------------
(* validate_view() *)

Variable(view) == view.counts # <<>>

CurveCount(view, s) == IF Variable(view) THEN view.counts[s + 1] ELSE view.fixed

\* The offset of strand s; that of one beyond the last is the total.
Offset(view, s) == Sum([i \in 1 .. s |-> CurveCount(view, i - 1)])

ViewFits(view) ==
  /\ view.strands # 0
  /\ IF Variable(view) THEN Len(view.counts) = view.strands ELSE view.fixed >= 2
  /\ \A s \in 0 .. view.strands - 1 : CurveCount(view, s) >= 2
  /\ Len(view.points) = Offset(view, view.strands)
  /\ IF view.widths = <<>> THEN Finite(view.width) /\ view.width >= 0
     ELSE Len(view.widths) = Len(view.points)
  /\ Optional(view.rootUVs, view.strands)

-----------------------------------------------------------------------------
(* The request *)

PrimvarsFit(primvars, strands) ==
  /\ \A p \in Range(primvars) : p.name # "" /\ Len(p.values) = strands
  /\ \A i, j \in DOMAIN primvars : primvars[i].name = primvars[j].name => i = j

OptionsFit(o) ==
  /\ o.limit # 0
  /\ o.resample # 1
  /\ Finite(o.scale) /\ o.scale >= 0
  /\ Finite(o.transform)

RequestFits(base, motion, floats, colors, o) ==
  /\ OptionsFit(o)
  /\ ViewFits(base)
  /\ \A m \in Range(motion) :
       Finite(m.time) /\ m.curves.strands = base.strands /\ ViewFits(m.curves)
  /\ PrimvarsFit(floats, base.strands)
  /\ PrimvarsFit(colors, base.strands)
  /\ PrimvarsFit(floats \o colors, base.strands)

-----------------------------------------------------------------------------
(* One strand *)

\* Arithmetic with what is not finite gives nothing finite.
Moved(v, distance) == IF Finite(v) THEN v + distance ELSE NotFinite

Radius(width, scale) == IF Finite(width) THEN (width * scale) \div 2 ELSE NotFinite

\* lerp(), part of the way from v to w in steps of the whole
Between(v, w, part, whole) ==
  IF Finite(v) /\ Finite(w) THEN (v * (whole - part) + w * part) \div whole ELSE NotFinite

\* sample_point(), sample_width(): at cv / (count - 1) of the curve, by index.
Sampled(view, values, s, cv, count) ==
  LET n == CurveCount(view, s) - 1
      first == (cv * n) \div (count - 1)
      part == (cv * n) % (count - 1)
      At(i) == values[Offset(view, s) + i + 1]
  IN IF first >= n THEN At(n)
     ELSE Between(At(first), At(first + 1), part, count - 1)

Width(view, s, cv, count) ==
  IF view.widths = <<>> THEN view.width ELSE Sampled(view, view.widths, s, cv, count)

BatchCurveCount(base, s, o) == IF o.resample # 0 THEN o.resample ELSE CurveCount(base, s)

StrandPoints(base, s, o) ==
  LET count == BatchCurveCount(base, s, o)
  IN [c \in 1 .. count |->
        [at     |-> Moved(Sampled(base, base.points, s, c - 1, count), o.transform),
         radius |-> Radius(Width(base, s, c - 1, count), o.scale)]]

\* A sample may have another number of points: then it is resampled.
StrandMotion(m, base, s, o) ==
  LET count == BatchCurveCount(base, s, o)
      Kept(c) == m.curves.points[Offset(m.curves, s) + c]
  IN [c \in 1 .. count |->
        Moved(IF o.resample = 0 /\ CurveCount(m.curves, s) = count
              THEN Kept(c) ELSE Sampled(m.curves, m.curves.points, s, c - 1, count),
              o.transform)]

-----------------------------------------------------------------------------
(* The batches *)

\* Mutation of BatchCount: the sum is of 32 bits.
BatchCountNarrow(strands, limit) == ((strands + limit - 1) % CountLimit) \div limit

BatchCount(strands, limit) == ((strands + limit - 1) \div limit) % CountLimit

BatchFirst(k, limit) == (k * limit) % CountLimit

BatchEnd(base, k, limit) ==
  LET end == BatchFirst(k, limit) + limit
  IN IF base.strands < end THEN base.strands ELSE end

Slice(primvars, first, end) ==
  [i \in DOMAIN primvars |-> [primvars[i] EXCEPT !.values = SubSeq(@, first + 1, end)]]

Batch(k, base, motion, floats, colors, o) ==
  LET first == BatchFirst(k, o.limit)
      end == BatchEnd(base, k, o.limit)
      Each(Part(_)) == [i \in 1 .. end - first |-> Part(first + i - 1)]
  IN [first   |-> first,
      counts  |-> Each(LAMBDA s : BatchCurveCount(base, s, o)),
      rootUVs |-> IF base.rootUVs = <<>> THEN <<>> ELSE SubSeq(base.rootUVs, first + 1, end),
      points  |-> FlattenSeq(Each(LAMBDA s : StrandPoints(base, s, o))),
      times   |-> [i \in DOMAIN motion |-> motion[i].time],
      motion  |-> FlattenSeq([i \in DOMAIN motion |->
                    FlattenSeq(Each(LAMBDA s : StrandMotion(motion[i], base, s, o)))]),
      floats  |-> Slice(floats, first, end),
      colors  |-> Slice(colors, first, end)]

\* No batches stand for an exception.
BuildCurveBatches(base, motion, floats, colors, o) ==
  IF RequestFits(base, motion, floats, colors, o)
  THEN [k \in 1 .. BatchCount(base.strands, o.limit) |->
          Batch(k - 1, base, motion, floats, colors, o)]
  ELSE <<>>

=============================================================================
