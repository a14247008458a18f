----------------------------- MODULE CurveCache -----------------------------
(***************************************************************************)
(* The .nxc cache of evaluated curves (src/curve_cache.cpp): what it takes,   *)
(* how it is laid out, when it is accepted, and the views of its sections.    *)
(*                                                                          *)
(* The input is [counts, points, times, motion, texcoords, patchUVs,         *)
(* faceUVs, faceIds].  A point is [at, radius]; a float is an integer or      *)
(* NotFinite.                                                                *)
(***************************************************************************)
EXTENDS BlobContainer

CONSTANTS
  NotFinite,   \* an infinity or no number
  CountLimit   \* 2^32: the counts of the header are uint32

ASSUME CurveCacheAssumption == NotFinite \notin Int /\ CountLimit \in Nat

\* A float, or a coordinate.
Values == Int \cup {NotFinite}

Finite(v) == v # NotFinite

AllFinite(s) == \A i \in DOMAIN s : Finite(s[i])

Sum(counts) == FoldLeft(LAMBDA n, c : n + c, 0, counts)

\* Mutation of Increasing: two samples may have the same time.
NotDecreasing(times) ==
  \A i \in DOMAIN times : Finite(times[i]) /\ (i > 1 => times[i - 1] <= times[i])

\* Finite and strictly increasing.
Increasing(times) ==
  \A i \in DOMAIN times : Finite(times[i]) /\ (i > 1 => times[i - 1] < times[i])

-----------------------------------------------------------------------------
(* build_curve_cache() *)

CurvesFit(in) ==
  /\ in.counts # <<>> /\ in.points # <<>>
  /\ Len(in.counts) < CountLimit /\ Len(in.points) < CountLimit
  /\ \A i \in DOMAIN in.counts : in.counts[i] >= 2
  /\ Sum(in.counts) = Len(in.points)

\* An optional array is not there or has its size.
Optional(s, n) == Len(s) \in {0, n}

ChannelsFit(in) ==
  /\ Optional(in.texcoords, Len(in.points))
  /\ Optional(in.patchUVs, Len(in.counts))
  /\ Optional(in.faceUVs, Len(in.counts))
  /\ Optional(in.faceIds, Len(in.counts))

MotionFits(in) ==
  /\ Len(in.times) < CountLimit
  /\ (in.times = <<>>) = (in.motion = <<>>)
  /\ Len(in.motion) = Len(in.points) * Len(in.times)
  /\ Increasing(in.times)

InputFits(in) == CurvesFit(in) /\ ChannelsFit(in) /\ MotionFits(in)

\* The sections in the order of the file; a PackedCurvePoint has four words.
Sections(in) ==
  << [values |-> in.counts, words |-> 1], [values |-> in.points, words |-> 4],
     [values |-> in.times, words |-> 1], [values |-> in.motion, words |-> 3],
     [values |-> in.texcoords, words |-> 2], [values |-> in.patchUVs, words |-> 2],
     [values |-> in.faceUVs, words |-> 2], [values |-> in.faceIds, words |-> 1] >>

Flags(in) ==
  {f \in {"texcoords", "patchUVs", "faceUVs", "faceIds", "motion"} : in[f] # <<>>}

Blob(in) ==
  LET laid == Lay(Sections(in))
  IN [header |-> [kind |-> "cache", flags |-> Flags(in),
                  words |-> BlobWords(laid.body), hash |-> ContentHash(laid.body),
                  strands |-> Len(in.counts), points |-> Len(in.points),
                  samples |-> Len(in.times), offset |-> laid.offset],
      body |-> laid.body,
      size |-> BlobWords(laid.body)]

-----------------------------------------------------------------------------
(* CurveCacheView and validate_curve_cache() *)

PointCounts(b) == View(b, 1, b.header.strands, 1)
PackedPoints(b) == View(b, 2, b.header.points, 4)
MotionTimes(b) == View(b, 3, b.header.samples, 1)
MotionPoints(b) == View(b, 4, b.header.samples * b.header.points, 3)
Texcoords(b) == View(b, 5, b.header.points, 2)
PatchUVs(b) == View(b, 6, b.header.strands, 2)
FaceUVs(b) == View(b, 7, b.header.strands, 2)
FaceIds(b) == View(b, 8, b.header.strands, 1)

SectionsFit(b) ==
  LET h == b.header
      Fits(section, n, k, a) == SectionFits(h.words, h.offset[section], n, k, a)
      If(flag, n) == IF flag \in h.flags THEN n ELSE 0
  IN /\ Fits(1, h.strands, 1, 1)
     /\ Fits(2, h.points, 4, 4)
     /\ Fits(3, h.samples, 1, 1)
     /\ Fits(4, h.samples * h.points, 3, 1)
     /\ Fits(5, If("texcoords", h.points), 2, 1)
     /\ Fits(6, If("patchUVs", h.strands), 2, 1)
     /\ Fits(7, If("faceUVs", h.strands), 2, 1)
     /\ Fits(8, If("faceIds", h.strands), 1, 1)

HeaderFits(b) ==
  /\ b.size >= HeaderWords
  /\ b.header.kind = "cache"
  /\ b.header.words = b.size
  /\ b.header.strands # 0 /\ b.header.points # 0
  /\ ("motion" \in b.header.flags) = (b.header.samples # 0)
  /\ SectionsFit(b)
  /\ ContentHash(b.body) = b.header.hash

GoodPoint(p) == Finite(p.at) /\ Finite(p.radius) /\ p.radius >= 0

ContentFits(b) ==
  /\ \A c \in Range(PointCounts(b)) : c >= 2
  /\ Sum(PointCounts(b)) = b.header.points
  /\ \A p \in Range(PackedPoints(b)) : GoodPoint(p)
  /\ AllFinite(Texcoords(b))
  /\ Increasing(MotionTimes(b))
  /\ AllFinite(MotionPoints(b))
  /\ AllFinite(PatchUVs(b)) /\ AllFinite(FaceUVs(b))

ValidateCurveCache(b) == HeaderFits(b) /\ ContentFits(b)

\* What is built is validated before it is handed out.
BuildCurveCache(in) ==
  IF InputFits(in) /\ ValidateCurveCache(Blob(in)) THEN Blob(in) ELSE NoBlob

\* Mutation of LoadCurveCache: a file that was written is trusted.
LoadCurveCacheTrusting(file) == file

\* load_curve_cache(): the whole file, or an exception.
LoadCurveCache(file) == IF ValidateCurveCache(file) THEN file ELSE NoBlob

=============================================================================
