--------------------------- MODULE CurveDelivery ----------------------------
(***************************************************************************)
(* How evaluated curves reach a renderer.  A tool (tools/xgen_cache.cpp over  *)
(* the curves of XGen, tools/xgen_to_nxc.cpp over the library's own) loads a  *)
(* base document and motion documents, matches their curves and writes a      *)
(* cache file in place; it may fail or be killed at any word, and may be run  *)
(* again.  Other processes load the file whenever they like.                  *)
(*                                                                          *)
(* A document is a sequence of curves [key, strand, positions, widths] in the *)
(* order of its file; `strand' is the curve that it is in the scene, of which *)
(* the tool sees the key only.                                               *)
(***************************************************************************)
EXTENDS CurvePayload, FiniteSets

CONSTANTS
  Documents,  \* the documents that can be loaded
  Times,      \* the times of motion samples
  Options,    \* of build_curve_batches()
  Cuts,       \* Bound: sizes at which a write of the file may stop for a while
  MaxMotion,  \* Bound: motion samples of a run
  MaxRuns     \* Bound: runs of the tool

Curves ==
  {c \in [key : Int, strand : Nat, positions : Seq(Values), widths : Seq(Values)] :
     Len(c.positions) >= 2 /\ Len(c.widths) = Len(c.positions)}

\* The number of curves is one of 32 bits.
DocumentSet == {doc \in Seq(Curves) : Len(doc) < CountLimit}

OptionSet == [limit : 0 .. CountLimit - 1, resample : Nat, scale : Values, transform : Values]

\* The curves can be told apart.
Distinct(doc) == \A i, j \in DOMAIN doc : doc[i].key = doc[j].key => i = j

\* Documents of one scene: where curves can be told apart, an identity means
\* the same curve in all of them.
ASSUME CurveDeliveryAssumption ==
  /\ Documents \subseteq DocumentSet
  /\ \A doc, other \in {d \in Documents : Distinct(d)} :
       \A i \in DOMAIN doc, j \in DOMAIN other :
         doc[i].key = other[j].key => doc[i].strand = other[j].strand
  /\ Times \subseteq Int
  /\ Options \subseteq OptionSet
  /\ Cuts \subseteq Nat
  /\ MaxMotion \in Nat /\ MaxRuns \in Nat

VARIABLES
  tool,     \* "official" or "native"
  minimal,  \* --renderer-minimal
  pc,       \* where the tool is
  base,     \* the curves of the base document, ordered
  samples,  \* the motion samples so far: [time, curves]
  cache,    \* what build_curve_cache() has returned
  file,     \* the cache file: [blob, size], NoFile if there is none
  built,    \* history: the caches that have been built
  loaded,   \* what the last process that loaded the file has got
  runs      \* runs of the tool so far

vars == <<tool, minimal, pc, base, samples, cache, file, built, loaded, runs>>

NoFile == [blob |-> NoBlob, size |-> 0]

-----------------------------------------------------------------------------
(* load_official(), materialize_xgen_curves() and the matching of motion *)

Refused == <<>>

Count(c) == Len(c.positions)

\* The curves that go before curve i.
Before(doc, i) ==
  {j \in DOMAIN doc : doc[j].key < doc[i].key \/ (doc[j].key = doc[i].key /\ j < i)}

\* std::stable_sort by identity: curve n is the one with n - 1 curves before it.
Ordered(doc) ==
  [n \in DOMAIN doc |-> doc[CHOOSE i \in DOMAIN doc : Cardinality(Before(doc, i)) = n - 1]]

HasDuplicateKeys(curves) ==
  \E i \in 2 .. Len(curves) : curves[i - 1].key = curves[i].key

AllGood(doc) ==
  \A c \in Range(doc) : /\ AllFinite(c.positions) /\ AllFinite(c.widths)
                        /\ \A w \in Range(c.widths) : w >= 0

\* The library itself refuses curves that are not finite or cannot be told apart.
LoadCurves(doc, which) ==
  IF which = "native" /\ (~AllGood(doc) \/ HasDuplicateKeys(Ordered(doc)))
  THEN Refused ELSE Ordered(doc)

\* Mutation of SameTopologyAndOrder: the identities are not compared.
SameCounts(a, b) ==
  Len(a) = Len(b) /\ \A i \in DOMAIN a : Count(a[i]) = Count(b[i])

SameTopologyAndOrder(a, b) ==
  Len(a) = Len(b) /\ \A i \in DOMAIN a : Count(a[i]) = Count(b[i]) /\ a[i].key = b[i].key

MotionMatches(curves) ==
  /\ curves # Refused
  /\ ~HasDuplicateKeys(base) /\ ~HasDuplicateKeys(curves)
  /\ SameTopologyAndOrder(base, curves)

Flat(curves, Part(_)) == FlattenSeq([i \in DOMAIN curves |-> Part(curves[i])])

Positions(curves) == Flat(curves, LAMBDA c : c.positions)

PackedCurve(c) ==
  [i \in DOMAIN c.positions |-> [at |-> c.positions[i], radius |-> Radius(c.widths[i], 1)]]

CacheInput ==
  LET Keys == [i \in DOMAIN base |-> base[i].key]
      Full(s) == IF minimal THEN <<>> ELSE s
  IN [counts |-> [i \in DOMAIN base |-> Count(base[i])],
      points |-> Flat(base, PackedCurve),
      times  |-> [i \in DOMAIN samples |-> samples[i].time],
      motion |-> FlattenSeq([i \in DOMAIN samples |-> Positions(samples[i].curves)]),
      texcoords |-> Full([i \in DOMAIN Positions(base) |-> 0]),
      patchUVs |-> Full(Keys), faceUVs |-> Full(Keys), faceIds |-> Full(Keys)]

-----------------------------------------------------------------------------
(* The tool *)

Init ==
  /\ tool \in {"official", "native"}
  /\ minimal \in BOOLEAN
  /\ pc = "base"
  /\ base = <<>> /\ samples = <<>>
  /\ cache = NoBlob /\ file = NoFile /\ built = {} /\ loaded = NoBlob
  /\ runs = 1

world == <<file, built, loaded, runs>>

\* The process ends, with it what it has loaded.
End(how) ==
  pc' = how /\ base' = <<>> /\ samples' = <<>> /\ cache' = NoBlob

LoadBase ==
  /\ pc = "base"
  /\ \E doc \in Documents :
       LET curves == LoadCurves(doc, tool)
       IN IF curves = Refused THEN End("failed")
          ELSE base' = curves /\ pc' = "motion" /\ UNCHANGED <<samples, cache>>
  /\ UNCHANGED <<tool, minimal, world>>

\* xgen_to_nxc --source-order: the curves as they are in the file, no motion.
LoadInSourceOrder ==
  /\ pc = "base" /\ tool = "native" /\ minimal
  /\ \E doc \in Documents :
       /\ doc # <<>> /\ AllGood(doc)
       /\ base' = doc
  /\ pc' = "still"
  /\ UNCHANGED <<tool, minimal, samples, cache, world>>

\* xgen_to_nxc looks at the times here, xgen_cache leaves them to the builder.
TimeFits(time) ==
  tool = "native" /\ samples # <<>> => samples[Len(samples)].time < time

LoadMotion ==
  /\ pc = "motion"
  /\ Len(samples) < MaxMotion
  /\ \E doc \in Documents, time \in Times :
       LET curves == LoadCurves(doc, tool)
       IN IF TimeFits(time) /\ MotionMatches(curves)
          THEN /\ samples' = Append(samples, [time |-> time, curves |-> curves])
               /\ UNCHANGED <<pc, base, cache>>
          ELSE End("failed")
  /\ UNCHANGED <<tool, minimal, world>>

Build ==
  /\ pc \in {"motion", "still"}
  /\ LET b == BuildCurveCache(CacheInput)
     IN IF b = NoBlob THEN End("failed") /\ UNCHANGED built
        ELSE /\ cache' = b /\ pc' = "open" /\ built' = built \cup {b}
             /\ UNCHANGED <<base, samples>>
  /\ UNCHANGED <<tool, minimal, file, loaded, runs>>

\* save_curve_cache(): the file that is there is cut off first.
Open ==
  /\ pc = "open"
  /\ file' = [blob |-> cache, size |-> 0]
  /\ pc' = "write"
  /\ UNCHANGED <<tool, minimal, base, samples, cache, built, loaded, runs>>

Write ==
  /\ pc = "write"
  /\ \E n \in {m \in Cuts : file.size < m /\ m < cache.size} \cup {cache.size} :
       /\ file' = [file EXCEPT !.size = n]
       /\ pc' = IF n = cache.size THEN "check" ELSE pc
  /\ UNCHANGED <<tool, minimal, base, samples, cache, built, loaded, runs>>

\* xgen_cache loads what it has written and compares it.
Check ==
  /\ pc = "check"
  /\ loaded' = IF tool = "native" THEN loaded
               ELSE LoadCurveCache(Written(file.blob, file.size))
  /\ End(IF tool = "native" \/ loaded' = cache THEN "done" ELSE "failed")
  /\ UNCHANGED <<tool, minimal, file, built, runs>>

\* The tool is killed, the file cannot be opened or the disk is full: what has
\* been written of the file stays.
Stop ==
  /\ pc \in {"base", "motion", "still", "open", "write", "check"}
  /\ End("failed")
  /\ UNCHANGED <<tool, minimal, world>>

Again ==
  /\ pc \in {"done", "failed"}
  /\ runs < MaxRuns
  /\ runs' = runs + 1
  /\ pc' = "base"
  /\ UNCHANGED <<tool, minimal, base, samples, cache, file, built, loaded>>

(* Another process *)

Load ==
  /\ loaded' = LoadCurveCache(Written(file.blob, file.size))
  /\ UNCHANGED <<tool, minimal, pc, base, samples, cache, file, built, runs>>

Next ==
  \/ LoadBase \/ LoadInSourceOrder \/ LoadMotion \/ Build \/ Open \/ Write \/ Check \/ Stop \/ Again
  \/ Load

Spec == Init /\ [][Next]_vars

-----------------------------------------------------------------------------
(* Correctness *)

Start(i) == Sum([n \in 1 .. i - 1 |-> Count(base[n])])

\* What the cache says of curve i in motion sample k.
CachedMotion(k, i) ==
  SubSeq(MotionPoints(cache), (k - 1) * cache.header.points + Start(i) + 1,
         (k - 1) * cache.header.points + Start(i) + Count(base[i]))

\* Every position of a motion sample in a cache is of the curve of the scene at
\* whose place it is, whatever the order of the documents and even if curves
\* cannot be told apart (same_topology_and_order() and has_duplicate_keys() of
\* the tools, and the duplicates that materialize_xgen_curves() refuses).
MotionFollowsItsCurve ==
  cache # NoBlob =>
    \A k \in DOMAIN samples : \A i \in DOMAIN base :
      \E c \in Range(samples[k].curves) :
        c.strand = base[i].strand /\ CachedMotion(k, i) = c.positions

\* A process that loads the file gets an exception or a cache that some run has
\* built, although the file is written in place and a run may end anywhere
\* (the checks of validate_curve_cache() on size and content).
LoadedWasBuilt == loaded = NoBlob \/ loaded \in built

Sound(in) ==
  /\ \A p \in Range(in.points) : GoodPoint(p)
  /\ AllFinite(in.motion) /\ AllFinite(in.patchUVs)

\* The builder and its own check agree: whatever passes the conditions of
\* build_curve_cache() and is finite is accepted by validate_curve_cache(), and
\* the views are the arrays that went in.
CacheIsItsInput ==
  pc \in {"motion", "still", "open"} =>
    LET in == CacheInput
        b == BuildCurveCache(in)
    IN /\ b # NoBlob <=> InputFits(in) /\ Sound(in)
       /\ b # NoBlob =>
            /\ PointCounts(b) = in.counts /\ PackedPoints(b) = in.points
            /\ MotionTimes(b) = in.times /\ MotionPoints(b) = in.motion
            /\ Texcoords(b) = in.texcoords /\ PatchUVs(b) = in.patchUVs
            /\ FaceUVs(b) = in.faceUVs /\ FaceIds(b) = in.faceIds

\* A renderer that has the library in it takes the curves themselves.
CurveSet(curves) ==
  [strands |-> Len(curves), fixed |-> 0,
   counts |-> [i \in DOMAIN curves |-> Count(curves[i])],
   points |-> Positions(curves), widths |-> Flat(curves, LAMBDA c : c.widths),
   rootUVs |-> [i \in DOMAIN curves |-> curves[i].key], width |-> 0]

MotionSet == [i \in DOMAIN samples |->
                [time |-> samples[i].time, curves |-> CurveSet(samples[i].curves)]]

StrandIds == <<[name |-> "id", values |-> [i \in DOMAIN base |-> base[i].strand]]>>

\* Where in a batch the points of its strand i are.
Part(b, points, skip, i) ==
  LET first == skip + Sum(SubSeq(b.counts, 1, i - 1))
  IN SubSeq(points, first + 1, first + b.counts[i])

StrandOf(b, i) ==
  [count |-> b.counts[i], points |-> Part(b, b.points, 0, i), rootUV |-> b.rootUVs[i],
   id |-> b.floats[1].values[i],
   motion |-> [k \in DOMAIN b.times |-> Part(b, b.motion, (k - 1) * Len(b.points), i)]]

AllStrands(bs) ==
  FlattenSeq([k \in DOMAIN bs |-> [i \in DOMAIN bs[k].counts |-> StrandOf(bs[k], i)]])

\* The limit of strands in a batch changes nothing: the strands of the batches,
\* one batch after the other, are those of a single batch, with their points,
\* motion and values, and each batch begins where the one before it ends.
BatchingChangesNothing ==
  pc = "motion" =>
    \A o \in Options :
      LET Make(limit) == BuildCurveBatches(CurveSet(base), MotionSet, StrandIds, <<>>,
                                           [o EXCEPT !.limit = limit])
          bs == Make(o.limit)
      IN o.limit # 0 =>
           /\ AllStrands(bs) = AllStrands(Make(Len(base)))
           /\ \A k \in DOMAIN bs :
                /\ Len(bs[k].counts) \in 1 .. o.limit
                /\ bs[k].first = Len(FlattenSeq([j \in 1 .. k - 1 |-> bs[j].counts]))

=============================================================================
