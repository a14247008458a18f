---------------------------- MODULE ClassicFiles -----------------------------
(***************************************************************************)
(* The files beside a Classic description: where an authored path leads       *)
(* (src/xgen_classic_path.h), PTEX maps (src/xgen_ptex.cpp), XPD point files   *)
(* (src/xpd.cpp), and the table of sample points (src/xgen_samples.cpp).      *)
(*                                                                          *)
(* A path is [root, parts, extension]; a part is <<lower, spelling>>, the      *)
(* first of which is the same for names that differ in case only.  A disk is   *)
(* a function from paths to files.                                           *)
(***************************************************************************)
EXTENDS Integers, Sequences, SequencesExt, FiniteSetsExt

CONSTANTS
  Grid,           \* coordinates on a face are multiples of 1 / Grid
  SamplePattern   \* the table of sample points: groups of points <<x, y>>

ASSUME ClassicFilesAssumption == Grid \in Nat \ {0}

NoFile == [kind |-> "none"]

-----------------------------------------------------------------------------
(* resolve_classic_description_file() on a host that is not Windows.  The roots *)
(* are "${DESC}", "" of a relative path, "/", "c:/", "//", "c:" and "\".        *)

Foreign == {"c:/", "//", "\\"}

\* A path that does not lead to a file of the kind leads into a directory.
FileCandidate(path, fallback, extension) ==
  IF path.extension = extension THEN path
  ELSE [path EXCEPT !.parts = Append(@, fallback), !.extension = extension]

\* lexically_normal()
Normal(parts) ==
  FoldLeft(LAMBDA sum, part : IF part[1] = "." THEN sum
                              ELSE IF part[1] = ".." /\ sum # <<>> THEN Front(sum) ELSE Append(sum, part),
           <<>>, parts)

Under(directory, value, parts) ==
  [root |-> directory.root, parts |-> Normal(directory.parts \o parts), extension |-> value.extension]

\* What follows the last part that is the description's directory.
SuffixAfter(value, component) ==
  LET insensitive == value.root \in {"c:/", "//"}
      found == {i \in DOMAIN value.parts :
                  IF insensitive THEN value.parts[i][1] = component[1] ELSE value.parts[i] = component}
  IN IF found = {} THEN <<>> ELSE <<SubSeq(value.parts, Max(found) + 1, Len(value.parts))>>

ResolveFile(value, directory, fallback, extension, disk) ==
  LET Candidate(path) == FileCandidate(path, fallback, extension)
      authored == Candidate([value EXCEPT !.parts = Normal(@)])
      suffix == SuffixAfter(value, Last(directory.parts))
      relocated == Candidate(Under(directory, value, suffix[1]))
  IN CASE value.root \in {"${DESC}", ""} -> Candidate(Under(directory, value, value.parts))
       [] value.root = "c:" -> NoFile
       [] value.root \notin Foreign /\ authored \in DOMAIN disk -> authored
       [] OTHER -> IF suffix # <<>> /\ relocated \in DOMAIN disk THEN relocated
                   ELSE IF value.root \in Foreign THEN NoFile ELSE authored

\* classic_safe_component()
SafeComponent(part) == part[2] \notin {"", ".", "..", "a/b"}

\* map_path(), resolve_map(), module_file(): the file must be there.
OpenFile(value, directory, name, extension, disk) ==
  LET path == ResolveFile(value, directory, name, extension, disk)
  IN IF ~SafeComponent(name) \/ path \notin DOMAIN disk THEN NoFile ELSE disk[path]

-----------------------------------------------------------------------------
(* The directory of the descriptions of a collection, which may have been moved *)
(* since its paths were written (src/xgen_classic_collection.cpp).  A collection *)
(* is [descriptions, palette, data, project, directory]: the parts that name     *)
(* them, the paths of xgDataPath, those of xgProjectPath, at most one, and where  *)
(* its file is.  A root may also be "${PROJECT}".                             *)

NoDirectory == [root |-> "none", parts |-> <<>>, extension |-> ""]

\* portable_path_prefix()
IsAuthoredUnder(value, project) ==
  /\ value.root = project.root /\ Len(project.parts) <= Len(value.parts)
  /\ \A i \in DOMAIN project.parts :
       IF project.root \in Foreign THEN value.parts[i][1] = project.parts[i][1] ELSE value.parts[i] = project.parts[i]

\* Where the descriptions may be, the likeliest first.
DirectoryCandidates(c, root) ==
  LET Either(parts) == <<Under(root, root, parts), Under(c.directory, root, parts)>>
      Data(value) ==
        IF value.root = "${PROJECT}" THEN <<Under(root, root, value.parts)>>
        ELSE <<[value EXCEPT !.parts = Normal(@)]>>
             \o (IF value.root = "" THEN Either(value.parts) ELSE <<>>)
             \o FlattenSeq([i \in DOMAIN c.project |->
                   IF IsAuthoredUnder(value, c.project[i])
                   THEN Either(SubSeq(value.parts, Len(c.project[i].parts) + 1, Len(value.parts))) ELSE <<>>])
  IN <<[root EXCEPT !.parts = Normal(@)]>>
     \o (IF SafeComponent(c.palette) THEN Either(<<<<"xgen", "xgen">>, <<"collections", "collections">>, c.palette>>)
         ELSE <<>>)
     \o FlattenSeq([i \in DOMAIN c.data |-> Data(c.data[i])])

\* resolve_xgen_classic_descriptions_root(): a path that is relative to a drive is
\* refused, also when the descriptions are found elsewhere.
DescriptionsRoot(c, root, disk) ==
  LET candidates == DirectoryCandidates(c, root)
      HasAll(path) == {path} \cup {Under(path, path, <<part>>) : part \in Range(c.descriptions)} \subseteq DOMAIN disk
      found == {i \in DOMAIN candidates : HasAll(candidates[i])}
  IN CASE c.descriptions = <<>> \/ \E part \in Range(c.descriptions) : ~SafeComponent(part) -> NoDirectory
       [] \E value \in Range(c.data) : value.root \in {"c:", "\\"} -> NoDirectory
       [] OTHER -> candidates[Min(found \cup (IF found = {} THEN {1} ELSE {}))]

-----------------------------------------------------------------------------
(* A PTEX map is [kind, channels, faces]: for each face its texels, a sequence  *)
(* of rows of sequences of values in 0 .. 255.                               *)

IsMap(file) == file.kind = "ptex" /\ file.channels > 0 /\ file.faces # <<>>

\* XgenPtexMap::sample() with the point filter.
PointSample(map, face, uv, channel) ==
  LET rows == map.faces[face + 1]
      Nearest(n, x) == Min({(x * n) \div Grid, n - 1}) + 1
      row == rows[Nearest(Len(rows), uv[2])]
  IN row[Nearest(Len(row), uv[1])][channel + 1]

\* decode_rgb_id(): the bits of three channels in turn, turned round.
DecodeRgbId(channels) ==
  LET Bit(s, k) ==
        LET c == 3 - ((k - 1) % 3)
        IN [rest |-> [s.rest EXCEPT ![c] = @ \div 2], id |-> s.id * 2 + 1 - (s.rest[c] % 2)]
  IN IF channels = <<0, 0, 0>> THEN 0
     ELSE FoldLeft(Bit, [rest |-> channels, id |-> 0], [k \in 1 .. 24 |-> k]).id

MapId(map, face, uv) == DecodeRgbId([c \in 1 .. 3 |-> PointSample(map, face, uv, c - 1)])

-----------------------------------------------------------------------------
(* An XPD file is [kind, magic, type, space, cvs, blocks, faces, size, data]; a  *)
(* block is [name, floats], a face [id, primitives, offset]; `data' has the     *)
(* records at each offset.  Sizes are counted in floats.                     *)

Word64 == 2 ^ 20   \* Bound: 2^64

XpdLimits == [blocks |-> 4, floats |-> 16, faces |-> 8, primitives |-> 64, size |-> 1024]

\* parse_xpd_document(): an empty face has no data, and its offset is not one.
XpdFits(file) ==
  /\ file.kind = "xpd" /\ file.magic = "XPD3"
  /\ file.size <= XpdLimits.size
  /\ Len(file.blocks) \in 1 .. XpdLimits.blocks
  /\ \A b \in Range(file.blocks) : b.floats \in 1 .. XpdLimits.floats
  /\ Len(file.faces) <= XpdLimits.faces
  /\ FoldLeft(LAMBDA sum, f : sum + f.primitives, 0, file.faces) <= XpdLimits.primitives
  /\ \A f \in Range(file.faces) : f.primitives > 0 =>
       \A b \in DOMAIN file.blocks :
         LET payload == f.primitives * file.blocks[b].floats
         IN payload < Word64 /\ f.offset[b] >= file.header /\ f.offset[b] + payload <= file.size

\* copy_xpd_primitive()
XpdRecord(file, face, block, primitive) ==
  LET from == file.faces[face].offset[block] + primitive * file.blocks[block].floats
  IN SubSeq(file.data, from + 1, from + file.blocks[block].floats)

-----------------------------------------------------------------------------
(* xgen_random_sample_exact(): the pattern of a group, then the pattern over    *)
(* tiles of half the size, and so on; the description turns the square.        *)

Turned(d, p) ==
  LET x == p[1]
      y == p[2]
  IN CASE d % 8 = 0 -> <<x, y>>
       [] d % 8 = 1 -> <<Grid - y, x>>
       [] d % 8 = 2 -> <<Grid - x, Grid - y>>
       [] d % 8 = 3 -> <<y, Grid - x>>
       [] d % 8 = 4 -> <<Grid - x, y>>
       [] d % 8 = 5 -> <<y, x>>
       [] d % 8 = 6 -> <<x, Grid - y>>
       [] OTHER     -> <<Grid - y, Grid - x>>

RandomSample(index, description, group) ==
  LET pattern == SamplePattern[(group % Len(SamplePattern)) + 1]
      size == Len(pattern)
      Before(side) == FoldSet(LAMBDA s, sum : sum + (IF 2 ^ s < side THEN 4 ^ s * size ELSE 0), 0, 0 .. 4)
      side == CHOOSE n \in {1, 2, 4, 8} : Before(n) <= index /\ index < Before(2 * n)
      rest == index - Before(side)
      tile == <<rest % side, (rest \div side) % side>>
      base == pattern[rest \div (side * side) + 1]
  IN Turned(description, [i \in 1 .. 2 |-> (tile[i] * Grid + base[i]) \div side])

=============================================================================
