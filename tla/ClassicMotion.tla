--------------------------- MODULE ClassicMotion ---------------------------
(***************************************************************************)
(* The preparation of one description in                                    *)
(* build_xgen_classic_collection_motion_execution_plan() of                  *)
(* src/xgen_classic_collection.cpp, from the point where its runtime plan    *)
(* is compiled.  The patch is evaluated at every lookup time, or only once  *)
(* if the archive is static; roots, guides and clumps are built from it by   *)
(* four parallel_for() calls, one after the other; and between them samples   *)
(* that agree are made to share the arrays of the first one.                *)
(*                                                                          *)
(* A deformation is abstracted to what is computed from it: the roots it     *)
(* carries, the guides that are rebuilt on it, and the axes of its clump     *)
(* guides, which stand on points of the patch of their own.  The executor is *)
(* the one ParallelFor describes.  Descriptions are prepared concurrently,   *)
(* but each works on an object of its own, so one is enough.                *)
(***************************************************************************)
EXTENDS Integers, FiniteSets

CONSTANTS
  MaxSamples,  \* maximum_motion_samples: 20
  RootData,    \* what the roots of a description can be, in one deformation
  GuideData,   \* what its rebuilt guides can be
  AxisData,    \* what the axes of its clump guides can be
  None         \* an array that is empty

ASSUME ClassicMotionAssumption ==
  /\ MaxSamples \in Nat \ {0}
  /\ None \notin RootData \cup GuideData
       \cup [roots : RootData, guides : GuideData, axes : AxisData]
       \cup [surface : [roots : RootData, guides : GuideData, axes : AxisData],
             roots : RootData \cup {None}]

VARIABLES
  size,      \* the number of samples
  archive,   \* [Samples -> the deformation the archives hold for it]
  static,    \* static_deformation
  rootless,  \* the root plan of the description has no roots
  samples,   \* [Samples -> output.samples]
  phase,        \* place in prepare_description
  jobs,      \* the samples whose job of the current parallel_for() is not over
  failed,    \* one of these jobs has thrown
  index      \* sample_index of the loop that looks for equal samples

motionVars == <<size, archive, static, rootless, samples, phase, jobs, failed, index>>

motionInput == <<size, archive, static, rootless>>

Samples == 0 .. size - 1

Deformations == [roots : RootData, guides : GuideData, axes : AxisData]

-----------------------------------------------------------------------------
(* Helpers *)

\* The roots that the reference plan and its deformations have at a sample.
RootsOn(surface) == IF rootless THEN None ELSE surface.roots

\* What the clump guides of a surface and the binding of the strands to them
\* are made of.
Clumps(surface, roots) == [surface |-> surface, roots |-> roots]

Owners == {s \in Samples : samples[s].source = s}

\* Mutation of Same: without the guides.
SameRoots(s, c) == samples[s].roots = samples[c].roots

\* equal_bytes() of roots and tangents, and of the guides
Same(s, c) ==
  /\ samples[s].roots = samples[c].roots
  /\ samples[s].guides = samples[c].guides

\* The earlier samples that own arrays equal to those of a sample.
Earlier(s) == {c \in Owners \cap 0 .. s - 1 : Same(s, c)}

\* The jobs of a parallel_for() start.
StartJobs(place, set) ==
  /\ phase' = place
  /\ jobs' = set
  /\ failed' = FALSE

\* The current parallel_for() is over, and none of its jobs has thrown.
JobsOver(place) == phase = place /\ jobs = {} /\ ~failed

\* The job of a sample ends and leaves something in the sample.
JobEnds(place, s, sample) ==
  /\ phase = place
  /\ s \in jobs
  /\ jobs' = jobs \ {s}
  /\ samples' = [samples EXCEPT ![s] = sample]
  /\ UNCHANGED <<motionInput, phase, failed, index>>

-----------------------------------------------------------------------------
(* Actions *)

\* An archive without a second time sample is static; if it has some, they may
\* be equal all the same.  The lookups of a call may also coincide.
MotionInit ==
  /\ size \in 1 .. MaxSamples
  /\ archive \in [Samples -> Deformations]
  /\ static \in BOOLEAN
  /\ static => size > 1 /\ \A s, t \in Samples : archive[s] = archive[t]
  /\ rootless \in BOOLEAN
  /\ samples = [s \in Samples |->
       [source |-> s, surface |-> None, roots |-> None, guides |-> None, clumps |-> None]]
  /\ phase = "import"
  /\ jobs = IF static THEN {0} ELSE Samples
  /\ failed = FALSE
  /\ index = 1

\* import_sample()
ImportSample(s) ==
  JobEnds("import", s, [samples[s] EXCEPT !.surface = archive[s]])

\* Sample 0 stands for all samples of a static archive.
EndImport ==
  /\ JobsOver("import")
  /\ samples' = [s \in Samples |-> [samples[s] EXCEPT !.source = IF static THEN 0 ELSE s]]
  /\ phase' = "reference"
  /\ UNCHANGED <<motionInput, jobs, failed, index>>

\* The root plan is built on sample 0; the other samples deform it.
BuildRoots ==
  /\ phase = "reference"
  /\ StartJobs("deform", IF rootless \/ static THEN {} ELSE Samples \ {0})
  /\ UNCHANGED <<motionInput, samples, index>>

DeformSample(s) ==
  JobEnds("deform", s, [samples[s] EXCEPT !.roots = RootsOn(samples[s].surface)])

\* Mutation of EndDeform: sample 0 has no roots.
EndDeformBare ==
  /\ JobsOver("deform")
  /\ StartJobs("guides", Owners)
  /\ UNCHANGED <<motionInput, samples, index>>

\* The roots of the reference plan are moved to sample 0, and the guides of all
\* samples that were imported are rebuilt.
EndDeform ==
  /\ JobsOver("deform")
  /\ samples' = [samples EXCEPT ![0].roots = RootsOn(samples[0].surface)]
  /\ StartJobs("guides", Owners)
  /\ UNCHANGED <<motionInput, index>>

RebuildGuides(s) ==
  JobEnds("guides", s, [samples[s] EXCEPT !.guides = samples[s].surface.guides])

EndGuides ==
  /\ JobsOver("guides")
  /\ phase' = "dedup"
  /\ UNCHANGED <<motionInput, samples, jobs, failed, index>>

\* A sample is made an alias of the first owner that equals it.
Share(s) ==
  samples' =
    IF Earlier(s) = {} THEN samples
    ELSE [samples EXCEPT ![s] =
           [source |-> CHOOSE c \in Earlier(s) : \A d \in Earlier(s) : c <= d,
            surface |-> None, roots |-> None, guides |-> None,
            clumps |-> samples[s].clumps]]

\* One turn of the loop.
Deduplicate ==
  /\ phase = "dedup"
  /\ index < size
  /\ Share(index)
  /\ index' = index + 1
  /\ UNCHANGED <<motionInput, phase, jobs, failed>>

EndDeduplicate ==
  /\ phase = "dedup"
  /\ index >= size
  /\ StartJobs("clumps", Owners)
  /\ UNCHANGED <<motionInput, samples, index>>

BuildClumps(s) ==
  JobEnds("clumps", s,
    [samples[s] EXCEPT !.clumps = Clumps(samples[s].surface, samples[s].roots)])

\* The description is moved to the result.
EndClumps ==
  /\ JobsOver("clumps")
  /\ phase' = "done"
  /\ UNCHANGED <<motionInput, samples, jobs, failed, index>>

\* A job throws: a changed topology, a value that is not finite, a file that is
\* missing.  The other jobs of the call are still run.
JobThrows(s) ==
  /\ s \in jobs
  /\ jobs' = jobs \ {s}
  /\ failed' = TRUE
  /\ UNCHANGED <<motionInput, samples, phase, index>>

\* The parallel_for() rethrows, or the root plan throws.
Throw ==
  /\ phase \in {"import", "reference", "deform", "guides", "clumps"}
  /\ jobs = {}
  /\ failed \/ phase = "reference"
  /\ phase' = "thrown"
  /\ UNCHANGED <<motionInput, samples, jobs, failed, index>>

MotionTerminated == phase \in {"done", "thrown"} /\ UNCHANGED motionVars

MotionNext ==
  \/ \E s \in Samples :
       ImportSample(s) \/ DeformSample(s) \/ RebuildGuides(s) \/ BuildClumps(s) \/ JobThrows(s)
  \/ EndImport \/ BuildRoots \/ EndDeform \/ EndGuides
  \/ Deduplicate \/ EndDeduplicate \/ EndClumps
  \/ Throw \/ MotionTerminated

MotionSpec == MotionInit /\ [][MotionNext]_motionVars

-----------------------------------------------------------------------------
(* Properties *)

Surfaces == Deformations \cup {None}

SampleRecords ==
  [source  : Samples,
   surface : Surfaces,
   roots   : RootData \cup {None},
   guides  : GuideData \cup {None},
   clumps  : [surface : Surfaces, roots : RootData \cup {None}] \cup {None}]

\* Every variable has its type.
MotionTypeOK ==
  /\ size \in 1 .. MaxSamples
  /\ archive \in [Samples -> Deformations]
  /\ static \in BOOLEAN /\ rootless \in BOOLEAN /\ failed \in BOOLEAN
  /\ samples \in [Samples -> SampleRecords]
  /\ phase \in {"import", "reference", "deform", "guides", "dedup", "clumps", "done", "thrown"}
  /\ jobs \subseteq Samples
  /\ index \in 1 .. size

\* resolve_xgen_classic_motion_deformation(): it throws "sharing is
\* inconsistent" unless this holds.
Resolves(s) ==
  LET source == samples[s].source
  IN source <= s /\ samples[source].source = source

Resolved(s) == samples[samples[s].source]

\* The table of sources is one that resolve_xgen_classic_motion_deformation()
\* and encode_motion() accept, at every sample and from the first alias on: a
\* source is never a later sample, nor an alias itself.
SourcesResolve == \A s \in Samples : Resolves(s)

\* The roots and guides a renderer gets for a sample are those the sample would
\* have been given alone, whether it was prepared, found equal or static.
SamplesAreTheirOwn ==
  phase = "done" => \A s \in Samples :
    /\ Resolved(s).roots = RootsOn(archive[s])
    /\ Resolved(s).guides = archive[s].guides

\* What is dispatched is complete: the clumps of an owner were built, on its
\* surface and for its strands, and not from arrays that have been given up.
OwnersAreComplete ==
  phase = "done" => \A s \in Owners :
    samples[s].clumps = Clumps(archive[s], RootsOn(archive[s]))

\* Repeated deformations are dispatched once: no two samples that are left to
\* own their arrays have the same roots and guides.
OwnersDiffer ==
  phase = "done" => \A s, t \in Owners : s # t =>
    \/ RootsOn(archive[s]) # RootsOn(archive[t])
    \/ archive[s].guides # archive[t].guides

\* "Samples whose evaluated deformation is bit-identical share one host/GPU
\* preparation", include/nanoxgen/xgen_classic_collection.h: samples that share
\* one, and have strands, have the same clump axes too.
SharedDeformationIsIdentical ==
  phase = "done" => \A s \in Samples :
    rootless \/ archive[samples[s].source].axes = archive[s].axes

-----------------------------------------------------------------------------
(* The inductive invariant of ClassicMotionProofs *)

JobsToImport == IF static THEN {0} ELSE Samples

Alike(s, t) ==
  /\ RootsOn(archive[s]) = RootsOn(archive[t])
  /\ archive[s].guides = archive[t].guides

\* Only a static archive has aliases among the samples not yet compared.
SourcesAreFresh ==
  /\ phase = "import" => Owners = Samples
  /\ phase \in {"reference", "deform", "guides"} => Owners = JobsToImport
  /\ phase = "dedup" => \A s \in Samples : s >= index => samples[s].source \in {0, s}

\* How far the arrays of the owners have got.
SurfacesAreRead ==
  /\ phase = "import" /\ ~failed =>
       \A s \in JobsToImport \ jobs : samples[s].surface = archive[s]
  /\ phase \notin {"import", "thrown"} =>
       \A s \in Owners : samples[s].surface = archive[s]

RootsAreCarried ==
  /\ phase \in {"import", "reference"} => \A s \in Samples : samples[s].roots = None
  /\ phase = "deform" /\ ~failed =>
       \A s \in JobsToImport \ (jobs \cup {0}) : samples[s].roots = RootsOn(archive[s])
  /\ phase \in {"guides", "dedup", "clumps", "done"} =>
       \A s \in Owners : samples[s].roots = RootsOn(archive[s])

GuidesAreRebuilt ==
  /\ phase \in {"import", "reference", "deform"} => \A s \in Samples : samples[s].guides = None
  /\ phase = "guides" => \A s \in Samples \ Owners : samples[s].guides = None
  /\ phase = "guides" /\ ~failed =>
       \A s \in Owners \ jobs : samples[s].guides = archive[s].guides
  /\ phase \in {"dedup", "clumps", "done"} =>
       /\ \A s \in Owners : samples[s].guides = archive[s].guides
       /\ \A s \in Samples \ Owners : samples[s].guides = None

ClumpsAreBuilt ==
  /\ phase = "clumps" /\ ~failed =>
       \A s \in Owners \ jobs : samples[s].clumps = Clumps(archive[s], RootsOn(archive[s]))
  /\ phase = "done" =>
       \A s \in Owners : samples[s].clumps = Clumps(archive[s], RootsOn(archive[s]))

\* The owners that the loop has passed differ.
PassedOwnersDiffer ==
  /\ phase \in {"import", "reference", "deform", "guides"} => index = 1
  /\ phase = "dedup" =>
       \A t \in Owners : t < index => \A s \in Owners : s < t => ~Alike(s, t)
  /\ phase \in {"clumps", "done"} =>
       \A s, t \in Owners : s < t => ~Alike(s, t)

JobsAreOfOwners == phase \in {"deform", "guides", "clumps"} => jobs \subseteq Owners

\* The inductive invariant.
MotionInv ==
  /\ MotionTypeOK
  /\ static => \A s, t \in Samples : archive[s] = archive[t]
  /\ SourcesResolve
  /\ \A s \in Samples : Alike(samples[s].source, s)
  /\ phase = "import" => jobs \subseteq JobsToImport
  /\ rootless /\ phase = "deform" => jobs = {} /\ \A s \in Samples : samples[s].roots = None
  /\ JobsAreOfOwners
  /\ SourcesAreFresh
  /\ SurfacesAreRead
  /\ RootsAreCarried
  /\ GuidesAreRebuilt
  /\ ClumpsAreBuilt
  /\ PassedOwnersDiffer

=============================================================================
