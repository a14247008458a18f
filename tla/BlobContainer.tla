--------------------------- MODULE BlobContainer ----------------------------
(***************************************************************************)
(* The pointer-free binary files of the library, .nxg assets (src/asset.cpp)  *)
(* and .nxc curve caches (src/curve_cache.cpp): a header with the offset of   *)
(* each section, then the sections, each on a 16-byte boundary.             *)
(*                                                                          *)
(* Memory is counted in words of four bytes.  An element of k words is its    *)
(* value k times.  The content hash is the content: it tells any two bodies   *)
(* apart.  A file is a blob of which `size' words are there.                *)
(***************************************************************************)
EXTENDS Integers, Sequences, SequencesExt

\* sizeof(CurveCacheHeader) = sizeof(AssetHeader) = 128 bytes.
HeaderWords == 32

\* kSectionAlignment, 16 bytes.
SectionWords == 4

\* Nothing was built, or what was read is refused.
NoBlob == [header |-> <<>>, body |-> <<>>, size |-> 0]

BlobWords(body) == HeaderWords + Len(body)

\* Mutation of AlignUp: sections follow each other without a gap.
AlignUpNot(n) == n

AlignUp(n) == ((n + SectionWords - 1) \div SectionWords) * SectionWords

\* append_array(): the offset of a section of elements of k words, 0 if there
\* are none, and the body with the section behind it.
SectionOffset(body, values) == IF values = <<>> THEN 0 ELSE AlignUp(BlobWords(body))

AppendArray(body, values, k) ==
  IF values = <<>> THEN body
  ELSE body \o [i \in 1 .. AlignUp(BlobWords(body)) - BlobWords(body) |-> 0]
            \o [i \in 1 .. k * Len(values) |-> values[(i - 1) \div k + 1]]

\* All sections [name, values, words] of a file, one after another: the body
\* and the offset of each.
Lay(sections) ==
  FoldLeft(LAMBDA acc, s :
             [body |-> AppendArray(acc.body, s.values, s.words),
              offset |-> Append(acc.offset, SectionOffset(acc.body, s.values))],
           [body |-> <<>>, offset |-> <<>>], sections)

\* The element i = 0, 1, .. of a section.
Element(blob, offset, i, k) == blob.body[offset - HeaderWords + i * k + 1]

Elements(blob, offset, n, k) == [i \in 1 .. n |-> Element(blob, offset, i - 1, k)]

\* The section that the header names; there is none if its offset is 0.
View(b, section, n, words) ==
  IF b.header.offset[section] = 0 THEN <<>>
  ELSE Elements(b, b.header.offset[section], n, words)

\* section_fits(): an element of k words is aligned to a words.
SectionFits(byteWords, offset, n, k, a) ==
  IF n = 0 THEN offset = 0
  ELSE /\ HeaderWords <= offset /\ offset <= byteWords
       /\ n * k <= byteWords - offset
       /\ offset % a = 0

ContentHash(body) == body

\* The file as far as it has been written: n words of the blob.
Written(blob, n) ==
  [header |-> IF n >= HeaderWords THEN blob.header ELSE <<>>,
   body |-> SubSeq(blob.body, 1, n - HeaderWords),
   size |-> n]

=============================================================================
