---------------------------- MODULE ClassicProofs -----------------------------
(***************************************************************************)
(* Proofs about a Classic description on its way to curves.  ClassicMotion,    *)
(* for any number of samples and any values: the invariant of its last section *)
(* is inductive, and the properties follow from it.  ClassicScene, for any     *)
(* scenes: what is imported where a motion stands still, and which curve of a    *)
(* guide cache each guide is given.                                          *)
(***************************************************************************)
EXTENDS GenerationProofs, ClassicMotion, ClassicScene

-----------------------------------------------------------------------------
(* ClassicMotion *)

\* The motionInput of a call does not change, nor what is computed from it alone.
LEMMA MotionInputIsFixed ==
  ASSUME UNCHANGED motionInput
  PROVE  /\ size' = size /\ archive' = archive /\ static' = static /\ rootless' = rootless
         /\ Samples' = Samples /\ JobsToImport' = JobsToImport
         /\ \A s, t : Alike(s, t)' = Alike(s, t)
         /\ \A s : RootsOn(archive[s])' = RootsOn(archive[s])
BY DEF motionInput, Samples, JobsToImport, Alike, RootsOn

\* What the invariant says of the types.
LEMMA Types ==
  ASSUME MotionTypeOK
  PROVE  /\ size \in Nat /\ size > 0 /\ 0 \in Samples /\ index \in Nat /\ index > 0
         /\ Samples \subseteq Nat /\ Owners \subseteq Samples
         /\ samples \in [Samples -> SampleRecords]
         /\ \A s \in Samples : samples[s].source \in Samples /\ archive[s] \in Deformations
         /\ \A s \in Samples : RootsOn(archive[s]) \in RootData \cup {None}
<1>1. size \in Nat /\ size > 0 /\ index \in Nat /\ index > 0
  BY ClassicMotionAssumption DEF MotionTypeOK
<1>2. 0 \in Samples /\ Samples \subseteq Nat
  BY <1>1 DEF Samples
<1>3. samples \in [Samples -> SampleRecords] /\ archive \in [Samples -> Deformations]
  BY DEF MotionTypeOK
<1>4. \A s \in Samples : samples[s].source \in Samples /\ archive[s] \in Deformations
  BY <1>3 DEF SampleRecords
<1> QED
  BY <1>1, <1>2, <1>3, <1>4 DEF Owners, RootsOn, Deformations

LEMMA InitEstablishes == MotionInit => MotionInv
<1> SUFFICES ASSUME MotionInit PROVE MotionInv
  OBVIOUS
<1>1. size \in Nat /\ size > 0 /\ 0 \in Samples
  BY ClassicMotionAssumption DEF MotionInit, Samples
<1>2. \A s \in Samples :
        /\ samples[s].source = s /\ samples[s].roots = None /\ samples[s].guides = None
        /\ samples[s].surface = None /\ samples[s].clumps = None
  BY DEF MotionInit
<1>3. Owners = Samples
  BY <1>2 DEF Owners
<1>4. MotionTypeOK
  <2>1. samples \in [Samples -> SampleRecords]
    BY DEF MotionInit, SampleRecords, Surfaces
  <2>2. jobs \subseteq Samples
    BY <1>1 DEF MotionInit
  <2>3. index \in 1 .. size
    BY <1>1 DEF MotionInit
  <2>4. /\ size \in 1 .. MaxSamples /\ archive \in [Samples -> Deformations]
        /\ static \in BOOLEAN /\ rootless \in BOOLEAN /\ failed \in BOOLEAN /\ phase = "import"
    BY Zenon DEF MotionInit
  <2> QED
    BY <2>1, <2>2, <2>3, <2>4 DEF MotionTypeOK
<1>5. SourcesResolve
  BY <1>1, <1>2 DEF SourcesResolve, Resolves, Samples
<1>6. \A s \in Samples : Alike(samples[s].source, s)
  BY <1>2 DEF Alike
<1>7. phase = "import" /\ jobs = JobsToImport
  BY DEF MotionInit, JobsToImport
<1> QED
  BY <1>1, <1>2, <1>3, <1>4, <1>5, <1>6, <1>7
  DEF MotionInit, MotionInv, JobsAreOfOwners, SourcesAreFresh, SurfacesAreRead, RootsAreCarried,
      GuidesAreRebuilt, ClumpsAreBuilt, PassedOwnersDiffer

\* A job that only fills arrays of its sample leaves all sources.
LEMMA JobKeepsSources ==
  ASSUME MotionTypeOK, UNCHANGED motionInput, NEW s \in Samples, NEW r \in SampleRecords,
         r.source = samples[s].source, samples' = [samples EXCEPT ![s] = r]
  PROVE  /\ \A t \in Samples : samples'[t].source = samples[t].source
         /\ \A t \in Samples : t # s => samples'[t] = samples[t]
         /\ samples'[s] = r
         /\ samples' \in [Samples' -> SampleRecords']
         /\ Owners' = Owners
         /\ SourcesResolve' = SourcesResolve
         /\ (\A t \in Samples : Alike(samples[t].source, t))' =
              (\A t \in Samples : Alike(samples[t].source, t))
<1>1. Samples' = Samples /\ SampleRecords' = SampleRecords
  BY MotionInputIsFixed DEF SampleRecords, Surfaces
<1>2. samples \in [Samples -> SampleRecords]
  BY DEF MotionTypeOK
<1>3. /\ \A t \in Samples : t # s => samples'[t] = samples[t]
      /\ samples'[s] = r
      /\ samples' \in [Samples -> SampleRecords]
  BY <1>2
<1>4. \A t \in Samples : samples'[t].source = samples[t].source
  BY <1>3
<1>5. \A t \in Samples : samples[t].source \in Samples
  BY Types
<1>6. Owners' = Owners
  BY <1>1, <1>4 DEF Owners
<1>7. SourcesResolve' = SourcesResolve
  BY <1>1, <1>4, <1>5 DEF SourcesResolve, Resolves
<1>8. (\A t \in Samples : Alike(samples[t].source, t))' =
        (\A t \in Samples : Alike(samples[t].source, t))
  BY <1>1, <1>4, MotionInputIsFixed
<1> QED
  BY <1>1, <1>3, <1>4, <1>6, <1>7, <1>8

\* What a job that is over leaves of the invariant, whatever it has filled.
LEMMA JobFrame ==
  ASSUME MotionInv, UNCHANGED <<motionInput, phase, failed, index>>, NEW s \in jobs, jobs' = jobs \ {s},
         NEW r \in SampleRecords, r.source = samples[s].source,
         samples' = [samples EXCEPT ![s] = r]
  PROVE  /\ MotionTypeOK' /\ SourcesResolve' /\ Owners' = Owners
         /\ (static => \A t, u \in Samples : archive[t] = archive[u])'
         /\ (\A t \in Samples : Alike(samples[t].source, t))'
         /\ (phase = "import" => jobs \subseteq JobsToImport)'
         /\ JobsAreOfOwners' /\ SourcesAreFresh' /\ PassedOwnersDiffer'
<1>1. MotionTypeOK /\ s \in Samples /\ UNCHANGED motionInput
  BY DEF MotionInv, MotionTypeOK
<1>2. /\ samples' \in [Samples' -> SampleRecords'] /\ Owners' = Owners
      /\ SourcesResolve' /\ (\A t \in Samples : Alike(samples[t].source, t))'
  BY <1>1, JobKeepsSources DEF MotionInv
<1>3. Samples' = Samples /\ JobsToImport' = JobsToImport /\ size' = size /\ archive' = archive
      /\ static' = static /\ rootless' = rootless /\ \A t, u : Alike(t, u)' = Alike(t, u)
  BY <1>1, MotionInputIsFixed
<1>4. MotionTypeOK'
  <2>1. jobs' \subseteq Samples'
    BY <1>1, <1>3 DEF MotionTypeOK
  <2>2. archive' \in [Samples' -> Deformations']
    BY <1>1, <1>3 DEF MotionTypeOK, Deformations
  <2> QED
    BY <1>1, <1>2, <1>3, <2>1, <2>2 DEF MotionTypeOK
<1>5. (static => \A t, u \in Samples : archive[t] = archive[u])'
  BY <1>3 DEF MotionInv
<1>6. (phase = "import" => jobs \subseteq JobsToImport)' /\ JobsAreOfOwners'
  BY <1>2, <1>3 DEF MotionInv, JobsAreOfOwners
<1>7. SourcesAreFresh'
  BY <1>2, <1>3 DEF MotionInv, SourcesAreFresh
<1>8. PassedOwnersDiffer'
  BY <1>2, <1>3 DEF MotionInv, PassedOwnersDiffer
<1> QED
  BY <1>2, <1>4, <1>5, <1>6, <1>7, <1>8

LEMMA ImportStep == \A s \in Samples : MotionInv /\ ImportSample(s) => MotionInv'
<1> SUFFICES ASSUME MotionInv, NEW s \in Samples, ImportSample(s) PROVE MotionInv'
  OBVIOUS
<1> DEFINE r == [samples[s] EXCEPT !.surface = archive[s]]
<1>1. /\ phase = "import" /\ s \in jobs /\ jobs' = jobs \ {s}
      /\ samples' = [samples EXCEPT ![s] = r]
      /\ UNCHANGED <<motionInput, phase, failed, index>>
  BY DEF ImportSample, JobEnds
<1>2. r \in SampleRecords /\ r.source = samples[s].source
      /\ r.surface = archive[s] /\ r.roots = samples[s].roots /\ r.guides = samples[s].guides
  BY SMTT(30) DEF MotionInv, MotionTypeOK, SampleRecords, Surfaces
<1> HIDE DEF r
<1>3. /\ Samples' = Samples /\ JobsToImport' = JobsToImport /\ archive' = archive /\ static' = static
      /\ \A t \in Samples : t # s => samples'[t] = samples[t]
      /\ samples'[s] = r
  BY <1>1, <1>2, JobKeepsSources, MotionInputIsFixed DEF MotionInv
<1>4. SurfacesAreRead'
  BY <1>1, <1>2, <1>3 DEF MotionInv, SurfacesAreRead, JobsToImport
<1>5. RootsAreCarried' /\ GuidesAreRebuilt' /\ ClumpsAreBuilt'
  BY <1>1, <1>2, <1>3 DEF MotionInv, RootsAreCarried, GuidesAreRebuilt, ClumpsAreBuilt
<1>6. (rootless /\ phase = "deform" => jobs = {} /\ \A t \in Samples : samples[t].roots = None)'
  BY <1>1
<1> QED
  BY <1>1, <1>2, <1>4, <1>5, <1>6, JobFrame DEF MotionInv

LEMMA DeformStep == \A s \in Samples : MotionInv /\ DeformSample(s) => MotionInv'
<1> SUFFICES ASSUME MotionInv, NEW s \in Samples, DeformSample(s) PROVE MotionInv'
  OBVIOUS
<1> DEFINE r == [samples[s] EXCEPT !.roots = RootsOn(samples[s].surface)]
<1>1. /\ phase = "deform" /\ s \in jobs /\ jobs' = jobs \ {s}
      /\ samples' = [samples EXCEPT ![s] = r]
      /\ UNCHANGED <<motionInput, phase, failed, index>>
  BY DEF DeformSample, JobEnds
<1>2. ~rootless /\ s \in Owners /\ samples[s].surface = archive[s]
  BY <1>1 DEF MotionInv, JobsAreOfOwners, SurfacesAreRead
<1>3. RootsOn(samples[s].surface) = RootsOn(archive[s]) /\ RootsOn(archive[s]) \in RootData
  BY <1>2, Types DEF RootsOn, Deformations, MotionInv
<1>4. r \in SampleRecords /\ r.source = samples[s].source
      /\ r.surface = samples[s].surface /\ r.roots = RootsOn(archive[s])
      /\ r.guides = samples[s].guides
  <2>1. samples[s] \in SampleRecords
    BY DEF MotionInv, MotionTypeOK
  <2>2. r = [samples[s] EXCEPT !.roots = RootsOn(archive[s])]
    BY <1>3
  <2> QED
    BY <1>3, <2>1, <2>2 DEF SampleRecords
<1> HIDE DEF r
<1>5. /\ Samples' = Samples /\ JobsToImport' = JobsToImport /\ archive' = archive /\ rootless' = rootless
      /\ Owners' = Owners /\ RootsOn(archive[s])' = RootsOn(archive[s])
      /\ \A t : RootsOn(archive[t])' = RootsOn(archive[t])
      /\ \A t \in Samples : t # s => samples'[t] = samples[t]
      /\ samples'[s] = r
  BY <1>1, <1>4, JobKeepsSources, MotionInputIsFixed DEF MotionInv
<1>6. SurfacesAreRead'
  BY <1>1, <1>2, <1>4, <1>5 DEF MotionInv, SurfacesAreRead, Owners
<1>7. RootsAreCarried'
  BY <1>1, <1>4, <1>5 DEF MotionInv, RootsAreCarried, JobsToImport
<1>8. GuidesAreRebuilt' /\ ClumpsAreBuilt'
  BY <1>1, <1>4, <1>5 DEF MotionInv, GuidesAreRebuilt, ClumpsAreBuilt
<1>9. (rootless /\ phase = "deform" => jobs = {} /\ \A t \in Samples : samples[t].roots = None)'
  BY <1>2, <1>5
<1> QED
  BY <1>1, <1>4, <1>6, <1>7, <1>8, <1>9, JobFrame DEF MotionInv

LEMMA RebuildGuidesStep == \A s \in Samples : MotionInv /\ RebuildGuides(s) => MotionInv'
<1> SUFFICES ASSUME MotionInv, NEW s \in Samples, RebuildGuides(s) PROVE MotionInv'
  OBVIOUS
<1> DEFINE r == [samples[s] EXCEPT !.guides = samples[s].surface.guides]
<1>1. /\ phase = "guides" /\ s \in jobs /\ jobs' = jobs \ {s}
      /\ samples' = [samples EXCEPT ![s] = r]
      /\ UNCHANGED <<motionInput, phase, failed, index>>
  BY DEF RebuildGuides, JobEnds
<1>2. s \in Owners /\ samples[s].surface = archive[s] /\ archive[s].guides \in GuideData
  BY <1>1, Types DEF MotionInv, JobsAreOfOwners, SurfacesAreRead, Deformations
<1>3. r \in SampleRecords /\ r.source = samples[s].source
      /\ r.surface = samples[s].surface /\ r.roots = samples[s].roots
      /\ r.guides = archive[s].guides
  BY <1>2 DEF MotionInv, MotionTypeOK, SampleRecords
<1> HIDE DEF r
<1>4. /\ Samples' = Samples /\ JobsToImport' = JobsToImport /\ archive' = archive
      /\ Owners' = Owners /\ Owners \subseteq Samples
      /\ \A t : RootsOn(archive[t])' = RootsOn(archive[t])
      /\ \A t \in Samples : t # s => samples'[t] = samples[t]
      /\ samples'[s] = r
  BY <1>1, <1>3, JobKeepsSources, MotionInputIsFixed, Types DEF MotionInv
<1>5. SurfacesAreRead'
  BY <1>1, <1>3, <1>4 DEF MotionInv, SurfacesAreRead
<1>6. RootsAreCarried'
  BY <1>1, <1>3, <1>4 DEF MotionInv, RootsAreCarried
<1>7. GuidesAreRebuilt'
  BY <1>1, <1>2, <1>3, <1>4 DEF MotionInv, GuidesAreRebuilt
<1>8. ClumpsAreBuilt'
  BY <1>1 DEF MotionInv, ClumpsAreBuilt
<1>9. (rootless /\ phase = "deform" => jobs = {} /\ \A t \in Samples : samples[t].roots = None)'
  BY <1>1
<1> QED
  BY <1>1, <1>3, <1>5, <1>6, <1>7, <1>8, <1>9, JobFrame DEF MotionInv

LEMMA BuildClumpsStep == \A s \in Samples : MotionInv /\ BuildClumps(s) => MotionInv'
<1> SUFFICES ASSUME MotionInv, NEW s \in Samples, BuildClumps(s) PROVE MotionInv'
  OBVIOUS
<1> DEFINE r == [samples[s] EXCEPT !.clumps = Clumps(samples[s].surface, samples[s].roots)]
<1>1. /\ phase = "clumps" /\ s \in jobs /\ jobs' = jobs \ {s}
      /\ samples' = [samples EXCEPT ![s] = r]
      /\ UNCHANGED <<motionInput, phase, failed, index>>
  BY DEF BuildClumps, JobEnds
<1>2. s \in Owners /\ samples[s].surface = archive[s] /\ samples[s].roots = RootsOn(archive[s])
  BY <1>1 DEF MotionInv, JobsAreOfOwners, SurfacesAreRead, RootsAreCarried
<1>3. r \in SampleRecords /\ r.source = samples[s].source
      /\ r.surface = samples[s].surface /\ r.roots = samples[s].roots
      /\ r.guides = samples[s].guides /\ r.clumps = Clumps(archive[s], RootsOn(archive[s]))
  BY <1>2, Types DEF MotionInv, MotionTypeOK, SampleRecords, Clumps, Surfaces
<1> HIDE DEF r
<1>4. /\ Samples' = Samples /\ archive' = archive
      /\ Owners' = Owners /\ Owners \subseteq Samples
      /\ \A t : RootsOn(archive[t])' = RootsOn(archive[t])
      /\ \A t \in Samples : t # s => samples'[t] = samples[t]
      /\ samples'[s] = r
  BY <1>1, <1>3, JobKeepsSources, MotionInputIsFixed, Types DEF MotionInv
<1>5. SurfacesAreRead'
  BY <1>1, <1>3, <1>4 DEF MotionInv, SurfacesAreRead
<1>6. RootsAreCarried'
  BY <1>1, <1>3, <1>4 DEF MotionInv, RootsAreCarried
<1>7. GuidesAreRebuilt'
  BY <1>1, <1>3, <1>4 DEF MotionInv, GuidesAreRebuilt
<1>8. ClumpsAreBuilt'
  BY <1>1, <1>3, <1>4 DEF MotionInv, ClumpsAreBuilt, Clumps
<1>9. (rootless /\ phase = "deform" => jobs = {} /\ \A t \in Samples : samples[t].roots = None)'
  BY <1>1
<1> QED
  BY <1>1, <1>3, <1>5, <1>6, <1>7, <1>8, <1>9, JobFrame DEF MotionInv

LEMMA JobThrowsStep == \A s \in Samples : MotionInv /\ JobThrows(s) => MotionInv'
<1> SUFFICES ASSUME MotionInv, NEW s \in Samples, JobThrows(s) PROVE MotionInv'
  OBVIOUS
<1>1. /\ s \in jobs /\ jobs' = jobs \ {s} /\ failed' = TRUE
      /\ UNCHANGED <<motionInput, samples, phase, index>>
  BY DEF JobThrows
<1>2. /\ Samples' = Samples /\ JobsToImport' = JobsToImport /\ archive' = archive /\ static' = static
      /\ rootless' = rootless /\ size' = size
      /\ \A t : RootsOn(archive[t])' = RootsOn(archive[t])
      /\ \A t, u : Alike(t, u)' = Alike(t, u)
  BY <1>1, MotionInputIsFixed
<1>3. Owners' = Owners /\ SourcesResolve'
  BY <1>1, <1>2 DEF MotionInv, Owners, SourcesResolve, Resolves
<1>4. MotionTypeOK'
  BY <1>1, <1>2 DEF MotionInv, MotionTypeOK, SampleRecords, Surfaces, Deformations
<1>5. JobsAreOfOwners' /\ SourcesAreFresh' /\ SurfacesAreRead' /\ RootsAreCarried'
  BY <1>1, <1>2, <1>3
  DEF MotionInv, JobsAreOfOwners, SourcesAreFresh, SurfacesAreRead, RootsAreCarried
<1>6. GuidesAreRebuilt' /\ ClumpsAreBuilt' /\ PassedOwnersDiffer'
  BY <1>1, <1>2, <1>3 DEF MotionInv, GuidesAreRebuilt, ClumpsAreBuilt, PassedOwnersDiffer
<1> QED
  BY <1>1, <1>2, <1>3, <1>4, <1>5, <1>6 DEF MotionInv

\* Sample 0 owns its arrays.
LEMMA FirstIsOwner == MotionInv => 0 \in Owners
<1> SUFFICES ASSUME MotionInv PROVE 0 \in Owners
  OBVIOUS
<1>1. 0 \in Samples /\ samples[0].source \in Samples /\ Samples \subseteq Nat
  BY Types DEF MotionInv
<1>2. samples[0].source <= 0
  BY <1>1 DEF MotionInv, SourcesResolve, Resolves
<1>3. PICK z \in Nat : z = samples[0].source
  BY <1>1
<1>4. z = 0
  BY <1>2, <1>3
<1> QED
  BY <1>1, <1>3, <1>4 DEF Owners

LEMMA EndImportStep == MotionInv /\ EndImport => MotionInv'
<1> SUFFICES ASSUME MotionInv, EndImport PROVE MotionInv'
  OBVIOUS
<1>1. /\ phase = "import" /\ phase' = "reference" /\ jobs = {} /\ ~failed
      /\ samples' = [t \in Samples |-> [samples[t] EXCEPT !.source = IF static THEN 0 ELSE t]]
      /\ UNCHANGED <<motionInput, jobs, failed, index>>
  BY DEF EndImport, JobsOver
<1>2. /\ Samples' = Samples /\ JobsToImport' = JobsToImport /\ archive' = archive /\ static' = static
      /\ rootless' = rootless /\ size' = size
      /\ \A t, u : Alike(t, u)' = Alike(t, u)
  BY <1>1, MotionInputIsFixed
<1>3. /\ 0 \in Samples /\ Samples \subseteq Nat
      /\ \A t \in Samples : samples[t] \in SampleRecords
      /\ \A t \in Samples : samples[t].roots = None /\ samples[t].guides = None
      /\ \A t \in JobsToImport : samples[t].surface = archive[t]
  BY <1>1, Types DEF MotionInv, MotionTypeOK, RootsAreCarried, GuidesAreRebuilt, SurfacesAreRead
<1>4. \A t \in Samples :
        /\ samples'[t].source = IF static THEN 0 ELSE t
        /\ samples'[t].roots = None /\ samples'[t].guides = None
        /\ samples'[t].surface = samples[t].surface
        /\ samples'[t] \in SampleRecords
  <2> SUFFICES ASSUME NEW t \in Samples
               PROVE  /\ samples'[t].source = IF static THEN 0 ELSE t
                      /\ samples'[t].roots = None /\ samples'[t].guides = None
                      /\ samples'[t].surface = samples[t].surface
                      /\ samples'[t] \in SampleRecords
    OBVIOUS
  <2>1. PICK z \in Samples : z = IF static THEN 0 ELSE t
    BY <1>3
  <2>2. samples'[t] = [samples[t] EXCEPT !.source = z]
    BY <1>1, <2>1
  <2> QED
    BY <1>3, <2>1, <2>2 DEF SampleRecords
<1>5. Owners' = JobsToImport
  BY <1>2, <1>3, <1>4 DEF Owners, JobsToImport
<1>6. MotionTypeOK'
  <2>1. samples' \in [Samples -> SampleRecords]
    BY <1>1, <1>4
  <2>2. SampleRecords' = SampleRecords /\ Deformations' = Deformations
    BY <1>2 DEF SampleRecords, Surfaces, Deformations
  <2> QED
    BY <1>1, <1>2, <2>1, <2>2 DEF MotionInv, MotionTypeOK
<1>7. SourcesResolve'
  <2> SUFFICES ASSUME NEW t \in Samples PROVE Resolves(t)'
    BY <1>2 DEF SourcesResolve
  <2>1. PICK z \in Samples : z = IF static THEN 0 ELSE t
    BY <1>3
  <2>2. samples'[t].source = z /\ samples'[z].source = z /\ z <= t
    BY <1>3, <1>4, <2>1
  <2> QED
    BY <2>2 DEF Resolves
<1>8. (\A t \in Samples : Alike(samples[t].source, t))'
  <2>1. \A t \in Samples : Alike(IF static THEN 0 ELSE t, t)
    BY <1>3 DEF MotionInv, Alike
  <2> QED
    BY <1>2, <1>4, <2>1
<1>9. JobsAreOfOwners' /\ SourcesAreFresh' /\ SurfacesAreRead' /\ RootsAreCarried'
  BY <1>1, <1>2, <1>3, <1>4, <1>5
  DEF JobsAreOfOwners, SourcesAreFresh, SurfacesAreRead, RootsAreCarried, JobsToImport
<1>10. GuidesAreRebuilt' /\ ClumpsAreBuilt' /\ PassedOwnersDiffer'
  BY <1>1, <1>2, <1>4, <1>5 DEF MotionInv, GuidesAreRebuilt, ClumpsAreBuilt, PassedOwnersDiffer
<1> QED
  BY <1>1, <1>2, <1>6, <1>7, <1>8, <1>9, <1>10 DEF MotionInv

\* What a step leaves of the invariant that changes neither samples nor index.
LEMMA PlaceFrame ==
  ASSUME MotionInv, UNCHANGED <<motionInput, samples, index>>
  PROVE  /\ Samples' = Samples /\ JobsToImport' = JobsToImport /\ archive' = archive /\ static' = static
         /\ rootless' = rootless /\ size' = size /\ Owners' = Owners /\ Owners \subseteq Samples
         /\ 0 \in Owners
         /\ \A t : RootsOn(archive[t])' = RootsOn(archive[t])
         /\ \A t, u : Alike(t, u)' = Alike(t, u)
         /\ SourcesResolve' /\ (\A t \in Samples : Alike(samples[t].source, t))'
         /\ (static => \A t, u \in Samples : archive[t] = archive[u])'
         /\ /\ jobs' \subseteq Samples /\ failed' \in BOOLEAN
            /\ phase' \in {"import", "reference", "deform", "guides", "dedup", "clumps", "done", "thrown"}
            => MotionTypeOK'
<1>1. /\ Samples' = Samples /\ JobsToImport' = JobsToImport /\ archive' = archive /\ static' = static
      /\ rootless' = rootless /\ size' = size
      /\ \A t : RootsOn(archive[t])' = RootsOn(archive[t])
      /\ \A t, u : Alike(t, u)' = Alike(t, u)
  BY MotionInputIsFixed
<1>2. Owners' = Owners /\ Owners \subseteq Samples /\ 0 \in Owners
  BY <1>1, FirstIsOwner DEF Owners
<1>3. SourcesResolve' /\ (\A t \in Samples : Alike(samples[t].source, t))'
      /\ (static => \A t, u \in Samples : archive[t] = archive[u])'
  BY <1>1 DEF MotionInv, SourcesResolve, Resolves
<1>4. ASSUME jobs' \subseteq Samples, failed' \in BOOLEAN,
             phase' \in {"import", "reference", "deform", "guides", "dedup", "clumps", "done", "thrown"}
      PROVE  MotionTypeOK'
  BY <1>1, <1>4 DEF MotionInv, MotionTypeOK, SampleRecords, Surfaces, Deformations
<1> QED
  BY <1>1, <1>2, <1>3, <1>4

LEMMA BuildRootsStep == MotionInv /\ BuildRoots => MotionInv'
<1> SUFFICES ASSUME MotionInv, BuildRoots PROVE MotionInv'
  OBVIOUS
<1>1. /\ phase = "reference" /\ phase' = "deform" /\ ~failed'
      /\ jobs' = IF rootless \/ static THEN {} ELSE Samples \ {0}
      /\ UNCHANGED <<motionInput, samples, index>>
  BY DEF BuildRoots, StartJobs
<1>2. MotionTypeOK'
  <2>1. jobs' \subseteq Samples /\ failed' \in BOOLEAN
    BY <1>1 DEF BuildRoots, StartJobs
  <2> QED
    BY <1>1, <2>1, PlaceFrame
<1>3. Owners = JobsToImport /\ \A t \in Samples : samples[t].roots = None /\ samples[t].guides = None
  BY <1>1 DEF MotionInv, SourcesAreFresh, RootsAreCarried, GuidesAreRebuilt
<1>4. JobsAreOfOwners' /\ SourcesAreFresh'
  BY <1>1, <1>3, PlaceFrame DEF JobsAreOfOwners, SourcesAreFresh, JobsToImport
<1>5. SurfacesAreRead'
  BY <1>1, PlaceFrame DEF MotionInv, SurfacesAreRead
<1>6. RootsAreCarried'
  BY <1>1, <1>3, PlaceFrame DEF RootsAreCarried, RootsOn, JobsToImport
<1>7. GuidesAreRebuilt' /\ ClumpsAreBuilt' /\ PassedOwnersDiffer'
  BY <1>1, <1>3, PlaceFrame DEF MotionInv, GuidesAreRebuilt, ClumpsAreBuilt, PassedOwnersDiffer
<1>8. (rootless /\ phase = "deform" => jobs = {} /\ \A t \in Samples : samples[t].roots = None)'
  BY <1>1, <1>3, PlaceFrame
<1> QED
  BY <1>1, <1>2, <1>4, <1>5, <1>6, <1>7, <1>8, PlaceFrame DEF MotionInv

LEMMA EndDeformStep == MotionInv /\ EndDeform => MotionInv'
<1> SUFFICES ASSUME MotionInv, EndDeform PROVE MotionInv'
  OBVIOUS
<1> DEFINE r == [samples[0] EXCEPT !.roots = RootsOn(samples[0].surface)]
<1>1. /\ phase = "deform" /\ jobs = {} /\ ~failed /\ phase' = "guides" /\ ~failed'
      /\ jobs' = Owners
      /\ samples' = [samples EXCEPT ![0] = r]
      /\ UNCHANGED <<motionInput, index>>
  BY DEF EndDeform, StartJobs, JobsOver
<1>2. 0 \in Owners /\ 0 \in Samples /\ Owners \subseteq Samples /\ Owners = JobsToImport
      /\ samples[0].surface = archive[0]
  BY <1>1, FirstIsOwner, Types DEF MotionInv, SurfacesAreRead, SourcesAreFresh
<1>3. RootsOn(samples[0].surface) = RootsOn(archive[0])
      /\ RootsOn(archive[0]) \in RootData \cup {None}
  BY <1>2, Types DEF MotionInv
<1>4. r \in SampleRecords /\ r.source = samples[0].source
      /\ r.surface = samples[0].surface /\ r.roots = RootsOn(archive[0])
      /\ r.guides = samples[0].guides
  <2>1. samples[0] \in SampleRecords
    BY <1>2 DEF MotionInv, MotionTypeOK
  <2>2. r = [samples[0] EXCEPT !.roots = RootsOn(archive[0])]
    BY <1>3
  <2> QED
    BY <1>3, <2>1, <2>2 DEF SampleRecords
<1> HIDE DEF r
<1>5. /\ Samples' = Samples /\ JobsToImport' = JobsToImport /\ archive' = archive /\ rootless' = rootless
      /\ static' = static /\ size' = size /\ Owners' = Owners /\ SourcesResolve'
      /\ (\A t \in Samples : Alike(samples[t].source, t))'
      /\ \A t : RootsOn(archive[t])' = RootsOn(archive[t])
      /\ \A t \in Samples : t # 0 => samples'[t] = samples[t]
      /\ samples'[0] = r /\ samples' \in [Samples' -> SampleRecords']
  BY <1>1, <1>2, <1>4, JobKeepsSources, MotionInputIsFixed DEF MotionInv
<1>6. MotionTypeOK'
  <2>1. jobs' \subseteq Samples /\ failed' \in BOOLEAN
    BY <1>1, <1>2 DEF EndDeform, StartJobs
  <2>2. Deformations' = Deformations
    BY DEF Deformations
  <2>3. archive' \in [Samples' -> Deformations'] /\ index' \in 1 .. size'
    BY <1>1, <1>5, <2>2 DEF MotionInv, MotionTypeOK
  <2> QED
    BY <1>1, <1>5, <2>1, <2>3 DEF MotionInv, MotionTypeOK
<1>7. JobsAreOfOwners' /\ SourcesAreFresh'
  BY <1>1, <1>2, <1>5 DEF JobsAreOfOwners, SourcesAreFresh
<1>8. SurfacesAreRead'
  BY <1>1, <1>2, <1>4, <1>5 DEF MotionInv, SurfacesAreRead
<1>9. RootsAreCarried'
  <2>1. \A t \in JobsToImport \ {0} : samples[t].roots = RootsOn(archive[t])
    BY <1>1 DEF MotionInv, RootsAreCarried
  <2> QED
    BY <1>1, <1>2, <1>4, <1>5, <2>1 DEF RootsAreCarried
<1>10. GuidesAreRebuilt'
  BY <1>1, <1>2, <1>4, <1>5 DEF MotionInv, GuidesAreRebuilt
<1>11. ClumpsAreBuilt' /\ PassedOwnersDiffer'
  BY <1>1 DEF MotionInv, ClumpsAreBuilt, PassedOwnersDiffer
<1>12. (static => \A t, u \in Samples : archive[t] = archive[u])'
  BY <1>5 DEF MotionInv
<1> QED
  BY <1>1, <1>5, <1>6, <1>7, <1>8, <1>9, <1>10, <1>11, <1>12 DEF MotionInv

LEMMA EndGuidesStep == MotionInv /\ EndGuides => MotionInv'
<1> SUFFICES ASSUME MotionInv, EndGuides PROVE MotionInv'
  OBVIOUS
<1>1. /\ phase = "guides" /\ jobs = {} /\ ~failed /\ phase' = "dedup"
      /\ UNCHANGED <<motionInput, samples, jobs, failed, index>>
  BY DEF EndGuides, JobsOver
<1>2. MotionTypeOK'
  BY <1>1, PlaceFrame DEF MotionInv, MotionTypeOK
<1>3. JobsAreOfOwners' /\ SourcesAreFresh'
  <2>1. Owners = JobsToImport
    BY <1>1 DEF MotionInv, SourcesAreFresh
  <2>2. \A t \in Samples : samples[t].source \in {0, t}
    <3>1. CASE static
      <4>1. \A t \in Samples : Resolves(t) /\ samples[t].source \in Samples
        BY Types DEF MotionInv, SourcesResolve
      <4> QED
        BY <2>1, <3>1, <4>1 DEF Owners, Resolves, JobsToImport
    <3>2. CASE ~static
      BY <2>1, <3>2 DEF Owners, JobsToImport
    <3> QED
      BY <3>1, <3>2
  <2> QED
    BY <1>1, <2>2, PlaceFrame DEF JobsAreOfOwners, SourcesAreFresh
<1>4. SurfacesAreRead' /\ RootsAreCarried'
  BY <1>1, PlaceFrame DEF MotionInv, SurfacesAreRead, RootsAreCarried
<1>5. GuidesAreRebuilt' /\ ClumpsAreBuilt'
  BY <1>1, PlaceFrame DEF MotionInv, GuidesAreRebuilt, ClumpsAreBuilt
<1>6. PassedOwnersDiffer'
  <2>1. index = 1 /\ Owners \subseteq Nat
    BY <1>1, Types DEF MotionInv, PassedOwnersDiffer
  <2>2. \A t \in Owners : t < index => \A s \in Owners : ~(s < t)
    BY <2>1
  <2> QED
    BY <1>1, <2>2, PlaceFrame DEF PassedOwnersDiffer
<1> QED
  BY <1>1, <1>2, <1>3, <1>4, <1>5, <1>6, PlaceFrame DEF MotionInv

LEMMA EndDeduplicateStep == MotionInv /\ EndDeduplicate => MotionInv'
<1> SUFFICES ASSUME MotionInv, EndDeduplicate PROVE MotionInv'
  OBVIOUS
<1>1. /\ phase = "dedup" /\ index >= size /\ phase' = "clumps" /\ ~failed' /\ jobs' = Owners
      /\ UNCHANGED <<motionInput, samples, index>>
  BY DEF EndDeduplicate, StartJobs
<1>2. MotionTypeOK'
  <2>1. jobs' \subseteq Samples /\ failed' \in BOOLEAN
    BY <1>1, PlaceFrame DEF EndDeduplicate, StartJobs
  <2> QED
    BY <1>1, <2>1, PlaceFrame
<1>3. JobsAreOfOwners' /\ SourcesAreFresh'
  BY <1>1, PlaceFrame DEF JobsAreOfOwners, SourcesAreFresh
<1>4. SurfacesAreRead' /\ RootsAreCarried'
  BY <1>1, PlaceFrame DEF MotionInv, SurfacesAreRead, RootsAreCarried
<1>5. GuidesAreRebuilt' /\ ClumpsAreBuilt'
  BY <1>1, PlaceFrame DEF MotionInv, GuidesAreRebuilt, ClumpsAreBuilt
<1>6. PassedOwnersDiffer'
  <2>1. \A t \in Owners : t < index
    BY <1>1, Types DEF MotionInv, Owners, Samples
  <2>2. \A s, t \in Owners : s < t => ~Alike(s, t)
    BY <1>1, <2>1 DEF MotionInv, PassedOwnersDiffer
  <2> QED
    BY <1>1, <2>2, PlaceFrame DEF PassedOwnersDiffer
<1> QED
  BY <1>1, <1>2, <1>3, <1>4, <1>5, <1>6, PlaceFrame DEF MotionInv

LEMMA EndClumpsStep == MotionInv /\ EndClumps => MotionInv'
<1> SUFFICES ASSUME MotionInv, EndClumps PROVE MotionInv'
  OBVIOUS
<1>1. /\ phase = "clumps" /\ jobs = {} /\ ~failed /\ phase' = "done"
      /\ UNCHANGED <<motionInput, samples, jobs, failed, index>>
  BY DEF EndClumps, JobsOver
<1>2. MotionTypeOK'
  BY <1>1, PlaceFrame DEF MotionInv, MotionTypeOK
<1>3. JobsAreOfOwners' /\ SourcesAreFresh'
  BY <1>1 DEF JobsAreOfOwners, SourcesAreFresh
<1>4. SurfacesAreRead' /\ RootsAreCarried'
  BY <1>1, PlaceFrame DEF MotionInv, SurfacesAreRead, RootsAreCarried
<1>5. GuidesAreRebuilt' /\ PassedOwnersDiffer'
  BY <1>1, PlaceFrame DEF MotionInv, GuidesAreRebuilt, PassedOwnersDiffer
<1>6. ClumpsAreBuilt'
  BY <1>1, PlaceFrame DEF MotionInv, ClumpsAreBuilt, Clumps
<1> QED
  BY <1>1, <1>2, <1>3, <1>4, <1>5, <1>6, PlaceFrame DEF MotionInv

LEMMA ThrowStep == MotionInv /\ Throw => MotionInv'
<1> SUFFICES ASSUME MotionInv, Throw PROVE MotionInv'
  OBVIOUS
<1>1. phase' = "thrown" /\ UNCHANGED <<motionInput, samples, jobs, failed, index>>
  BY DEF Throw
<1>2. MotionTypeOK'
  BY <1>1, PlaceFrame DEF MotionInv, MotionTypeOK
<1> QED
  BY <1>1, <1>2, PlaceFrame
  DEF MotionInv, JobsAreOfOwners, SourcesAreFresh, SurfacesAreRead, RootsAreCarried,
      GuidesAreRebuilt, ClumpsAreBuilt, PassedOwnersDiffer

\* The loop: a sample keeps its arrays, or gives them up for those of the first
\* owner that has the same.
LEMMA DeduplicateStep == MotionInv /\ Deduplicate => MotionInv'
<1> SUFFICES ASSUME MotionInv, Deduplicate PROVE MotionInv'
  OBVIOUS
<1>1. /\ phase = "dedup" /\ index < size /\ index' = index + 1
      /\ UNCHANGED <<motionInput, phase, jobs, failed>>
  BY DEF Deduplicate
<1>2. /\ Samples' = Samples /\ archive' = archive /\ static' = static /\ rootless' = rootless
      /\ size' = size /\ \A t : RootsOn(archive[t])' = RootsOn(archive[t])
      /\ \A t, u : Alike(t, u)' = Alike(t, u)
  BY <1>1, MotionInputIsFixed
<1>3. /\ size \in Nat /\ index \in Samples /\ Samples \subseteq Nat /\ Owners \subseteq Samples
      /\ samples \in [Samples -> SampleRecords] /\ index \in Nat /\ index > 0
      /\ \A t \in Samples : samples[t].source \in Samples /\ archive[t] \in Deformations
  BY <1>1, Types DEF MotionInv, Samples
<1>4. /\ \A t \in Owners : /\ samples[t].surface = archive[t]
                           /\ samples[t].roots = RootsOn(archive[t])
                           /\ samples[t].guides = archive[t].guides
      /\ \A t \in Samples \ Owners : samples[t].guides = None
  BY <1>1 DEF MotionInv, SurfacesAreRead, RootsAreCarried, GuidesAreRebuilt
<1>5. \A t \in Owners : archive[t].guides # None
  BY <1>3, ClassicMotionAssumption DEF Deformations
<1>6. \A t \in Samples : Alike(samples[t].source, t) /\ Resolves(t)
  BY DEF MotionInv, SourcesResolve
<1>7. \A t \in Owners : t < index => \A s \in Owners : s < t => ~Alike(s, t)
  BY <1>1 DEF MotionInv, PassedOwnersDiffer
<1>8. \A t \in Samples : t >= index => samples[t].source \in {0, t}
  BY <1>1 DEF MotionInv, SourcesAreFresh
<1>9. ASSUME MotionTypeOK', SourcesResolve', (\A t \in Samples : Alike(samples[t].source, t))',
             \A t \in Owners' : t \in Owners /\ samples'[t] = samples[t],
             \A t \in Samples : t \notin Owners' => samples'[t].guides = None,
             \A t \in Samples : t > index => samples'[t] = samples[t],
             \A t \in Owners' : t < index + 1 => \A s \in Owners' : s < t => ~Alike(s, t)
      PROVE  MotionInv'
  <2>1. (static => \A t, u \in Samples : archive[t] = archive[u])'
    BY <1>2 DEF MotionInv
  <2>2. JobsAreOfOwners' /\ ClumpsAreBuilt'
    BY <1>1 DEF JobsAreOfOwners, ClumpsAreBuilt
  <2>3. SourcesAreFresh'
    <3>1. \A t \in Samples : t >= index + 1 => t > index /\ t >= index
      BY <1>3
    <3> QED
      BY <1>1, <1>2, <1>8, <1>9, <3>1 DEF SourcesAreFresh
  <2>4. SurfacesAreRead' /\ RootsAreCarried' /\ GuidesAreRebuilt'
    BY <1>1, <1>2, <1>4, <1>9 DEF SurfacesAreRead, RootsAreCarried, GuidesAreRebuilt
  <2>5. PassedOwnersDiffer'
    BY <1>1, <1>2, <1>9 DEF PassedOwnersDiffer
  <2> QED
    BY <1>1, <1>9, <2>1, <2>2, <2>3, <2>4, <2>5 DEF MotionInv
<1>10. samples' \in [Samples -> SampleRecords] => MotionTypeOK'
  <2>1. /\ SampleRecords' = SampleRecords /\ archive' \in [Samples' -> Deformations']
    BY <1>2 DEF SampleRecords, Surfaces, Deformations, MotionInv, MotionTypeOK
  <2>2. index' \in 1 .. size'
    BY <1>1, <1>2, <1>3
  <2> QED
    BY <1>1, <1>2, <2>1, <2>2 DEF MotionInv, MotionTypeOK
<1>11. CASE Earlier(index) = {}
  <2>1. samples' = samples /\ Owners' = Owners
    BY <1>2, <1>11 DEF Deduplicate, Share, Owners
  <2>2. MotionTypeOK' /\ SourcesResolve' /\ (\A t \in Samples : Alike(samples[t].source, t))'
    BY <1>2, <1>3, <1>6, <1>10, <2>1 DEF SourcesResolve, Resolves
  <2>3. ASSUME NEW t \in Owners, t < index + 1, NEW s \in Owners, s < t PROVE ~Alike(s, t)
    <3>1. CASE t < index
      BY <1>7, <2>3, <3>1
    <3>2. CASE t = index
      <4>1. s \in 0 .. index - 1
        BY <1>3, <2>3, <3>2
      <4>2. ~Same(index, s)
        BY <1>11, <4>1 DEF Earlier
      <4> QED
        BY <1>4, <3>2, <4>2 DEF Same, Alike
    <3> QED
      BY <1>3, <2>3, <3>1, <3>2
  <2> QED
    BY <1>4, <1>9, <2>1, <2>2, <2>3
<1>12. CASE Earlier(index) # {}
  <2>1. PICK c \in Earlier(index) :
          samples' = [samples EXCEPT ![index] =
            [source |-> c, surface |-> None, roots |-> None, guides |-> None,
             clumps |-> samples[index].clumps]]
    <3>1. \E c \in Earlier(index) : \A d \in Earlier(index) : c <= d
      <4>1. Earlier(index) \in SUBSET Nat
        BY <1>3 DEF Earlier
      <4> QED
        BY <1>12, <4>1, LeastNatural
    <3>2. (CHOOSE c \in Earlier(index) : \A d \in Earlier(index) : c <= d)
            \in Earlier(index)
      BY <3>1
    <3> QED
      BY <1>12, <3>2 DEF Deduplicate, Share
  <2>2. c \in Owners /\ c \in 0 .. index - 1 /\ Same(index, c)
    BY DEF Earlier
  <2>3. c \in Samples /\ c < index /\ c # index /\ samples[c].source = c
    BY <1>3, <2>2 DEF Owners
  <2>4. index \in Owners
    BY <1>3, <1>4, <1>5, <2>2 DEF Same
  <2>5. Alike(c, index)
    BY <1>4, <2>2, <2>4 DEF Same, Alike
  <2>6. /\ samples'[index].source = c /\ samples'[index].guides = None
        /\ \A t \in Samples : t # index => samples'[t] = samples[t]
    BY <1>3, <2>1
  <2>7. Owners' = Owners \ {index}
    BY <1>2, <1>3, <2>3, <2>6 DEF Owners
  <2>8. \A t \in Samples : t # index => samples[t].source # index
    <3>1. \A t \in Samples : samples[t].source <= t
      BY <1>6 DEF Resolves
    <3>2. \A t \in Samples : t # index => t < index \/ t > index
      BY <1>3
    <3>3. \A t \in Samples : t < index => samples[t].source # index
      BY <1>3, <3>1
    <3>4. \A t \in Samples : t > index => samples[t].source # index
      BY <1>3, <1>8
    <3> QED
      BY <3>2, <3>3, <3>4
  <2>9. SourcesResolve'
    <3> SUFFICES ASSUME NEW t \in Samples PROVE Resolves(t)'
      BY <1>2 DEF SourcesResolve
    <3>1. CASE t = index
      <4>1. c <= index /\ samples'[c].source = c
        BY <1>3, <2>3, <2>6
      <4> QED
        BY <2>6, <3>1, <4>1 DEF Resolves
    <3>2. CASE t # index
      <4>1. samples[t].source \in Samples /\ samples[t].source # index
        BY <1>3, <2>8, <3>2
      <4> QED
        BY <1>6, <2>6, <3>2, <4>1 DEF Resolves
    <3> QED
      BY <3>1, <3>2
  <2>10. (\A t \in Samples : Alike(samples[t].source, t))'
    BY <1>2, <1>6, <2>5, <2>6
  <2>11. MotionTypeOK'
    <3>1. [source |-> c, surface |-> None, roots |-> None, guides |-> None,
           clumps |-> samples[index].clumps] \in SampleRecords
      <4>1. samples[index].clumps
              \in [surface : Surfaces, roots : RootData \cup {None}] \cup {None}
        BY <1>3 DEF SampleRecords
      <4> QED
        BY <2>3, <4>1 DEF SampleRecords, Surfaces
    <3>2. samples' \in [Samples -> SampleRecords]
      BY <1>3, <2>1, <3>1
    <3> QED
      BY <1>10, <3>2
  <2>12. \A t \in Samples : t > index => samples'[t] = samples[t]
    <3>1. \A t \in Samples : t > index => t # index
      BY <1>3
    <3> QED
      BY <2>6, <3>1, Zenon
  <2>13. \A t \in Owners' : t < index + 1 => \A s \in Owners' : s < t => ~Alike(s, t)
    <3>1. \A t \in Owners' : t < index + 1 => t < index
      BY <1>3, <2>7
    <3> QED
      BY <1>7, <2>7, <3>1
  <2>14. /\ \A t \in Owners' : t \in Owners /\ samples'[t] = samples[t]
         /\ \A t \in Samples : t \notin Owners' => samples'[t].guides = None
    BY <1>3, <1>4, <2>6, <2>7
  <2> QED
    BY <1>9, <2>9, <2>10, <2>11, <2>12, <2>13, <2>14
<1> QED
  BY <1>11, <1>12

\* The invariant is inductive.
THEOREM MotionInvariant == MotionSpec => []MotionInv
<1>1. MotionInv /\ [MotionNext]_motionVars => MotionInv'
  <2> SUFFICES ASSUME MotionInv, [MotionNext]_motionVars PROVE MotionInv'
    OBVIOUS
  <2>1. CASE UNCHANGED motionVars
    <3>1. UNCHANGED <<motionInput, samples, index>> /\ UNCHANGED <<phase, jobs, failed>>
      BY <2>1 DEF motionVars, motionInput
    <3> QED
      BY <3>1, PlaceFrame
      DEF MotionInv, MotionTypeOK, JobsAreOfOwners, SourcesAreFresh, SurfacesAreRead, RootsAreCarried,
          GuidesAreRebuilt, ClumpsAreBuilt, PassedOwnersDiffer, Clumps
  <2>2. CASE MotionTerminated
    BY <2>1, <2>2 DEF MotionTerminated
  <2> QED
    BY <2>1, <2>2, ImportStep, DeformStep, RebuildGuidesStep, BuildClumpsStep, JobThrowsStep,
       EndImportStep, BuildRootsStep, EndDeformStep, EndGuidesStep, DeduplicateStep,
       EndDeduplicateStep, EndClumpsStep, ThrowStep DEF MotionNext
<1> QED
  BY <1>1, InitEstablishes, PTL DEF MotionSpec

\* MotionTypeOK, for any number of samples.
THEOREM MotionTypeCorrect == MotionSpec => []MotionTypeOK
<1>1. MotionInv => MotionTypeOK
  BY DEF MotionInv
<1> QED
  BY <1>1, MotionInvariant, PTL

\* The table of sources of a plan passes resolve_xgen_classic_motion_deformation()
\* and the checks of encode_motion(), for any number of samples.
THEOREM SourcesAlwaysResolve == MotionSpec => []SourcesResolve
<1>1. MotionInv => SourcesResolve
  BY DEF MotionInv
<1> QED
  BY <1>1, MotionInvariant, PTL

\* A sample that shares its roots and guides shares those it would have had.
THEOREM SharesItsOwn == MotionSpec => []SamplesAreTheirOwn
<1>1. MotionInv => SamplesAreTheirOwn
  <2> SUFFICES ASSUME MotionInv, phase = "done", NEW s \in Samples
               PROVE  /\ Resolved(s).roots = RootsOn(archive[s])
                      /\ Resolved(s).guides = archive[s].guides
    BY DEF SamplesAreTheirOwn
  <2>1. samples[s].source \in Owners
    BY Types DEF MotionInv, SourcesResolve, Resolves, Owners
  <2>2. Alike(samples[s].source, s)
    BY DEF MotionInv
  <2> QED
    BY <2>1, <2>2 DEF MotionInv, RootsAreCarried, GuidesAreRebuilt, Resolved, Alike
<1> QED
  BY <1>1, MotionInvariant, PTL

\* The clumps that are dispatched were built on the surface of their sample.
THEOREM OwnersHaveClumps == MotionSpec => []OwnersAreComplete
<1>1. MotionInv => OwnersAreComplete
  BY DEF MotionInv, OwnersAreComplete, ClumpsAreBuilt
<1> QED
  BY <1>1, MotionInvariant, PTL

\* Samples with the same roots and guides are dispatched once.
THEOREM RepeatsAreShared == MotionSpec => []OwnersDiffer
<1>1. MotionInv => OwnersDiffer
  <2> SUFFICES ASSUME MotionInv, phase = "done", NEW s \in Owners, NEW t \in Owners, s # t
               PROVE  ~Alike(s, t)
    BY DEF OwnersDiffer, Alike
  <2>1. s \in Nat /\ t \in Nat
    BY Types DEF MotionInv
  <2>2. \A u, v \in Owners : u < v => ~Alike(u, v)
    BY DEF MotionInv, PassedOwnersDiffer
  <2>3. CASE s < t
    BY <2>2, <2>3
  <2>4. CASE t < s
    BY <2>2, <2>4 DEF Alike
  <2> QED
    BY <2>1, <2>3, <2>4
<1> QED
  BY <1>1, MotionInvariant, PTL

-----------------------------------------------------------------------------
(* Folds that are not over numbers *)

\* A step of the evaluations of expressions, of the way of a scene and of an import.
FoldStep(kind, what, c, x, m) ==
  CASE kind = "exact" -> ExactStep(what, c, x, what.instructions[m])
    [] kind = "float" -> FloatStep(what, c, x, what.instructions[m])
    [] kind = "kernel" -> KernelStep(what, c, x, what.instructions[m])
    [] kind = "ramp" -> RampPart(what, c, x, m)
    [] kind = "hash" -> HashStep(x, HashComponent(what[m]))
    [] kind = "stage" -> Stage(x, what[m])
    [] kind = "vector" -> Plus(x, what[m])
    [] kind = "join" -> IF m = 1 THEN what[1] ELSE x \o what[m]
    [] kind = "patch" -> AddPatch(x, what[c.turns[m]], c.meshes[c.turns[m]], c.limits)

\* What a fold does step by step; f[m] is what it has after m steps.
AreSteps(f, n, base, kind, what, c) ==
  f[0] = base /\ \A m \in 1 .. n : f[m] = FoldStep(kind, what, c, f[m - 1], m)

\* The function whose value a fold is, on the sets of places.
FoldsTo(g, n, base, kind, what, c) ==
  g = [s \in SUBSET (1 .. n) |-> IF s = {} THEN base ELSE FoldStep(kind, what, c, g[s \ {Max(s)}], Max(s))]

\* Such a function exists, however many places there are.
LEMMA FoldIsThere ==
  ASSUME NEW n \in Nat, NEW base, NEW kind, NEW what, NEW c
  PROVE  \E g : FoldsTo(g, n, base, kind, what, c)
<1> DEFINE Once(x, m) == FoldStep(kind, what, c, x, m)
           Of(g, s) == IF s = {} THEN base ELSE Once(g[s \ {Max(s)}], Max(s))
           T == {m \in 0 .. n : \E g : g = [s \in SUBSET (1 .. m) |-> Of(g, s)]}
<1>1. 0 \in T
  <2> DEFINE g == [s \in SUBSET (1 .. 0) |-> base]
  <2>1. ASSUME NEW s \in SUBSET (1 .. 0) PROVE Of(g, s) = base
    <3>1. s = {}
      OBVIOUS
    <3> QED
      BY <3>1, Zenon
  <2>2. g = [s \in SUBSET (1 .. 0) |-> Of(g, s)]
    <3>1. PICK h : h = g
      OBVIOUS
    <3>2. \A s \in SUBSET (1 .. 0) : Of(h, s) = base
      BY <2>1, <3>1, Zenon
    <3> HIDE DEF Of
    <3>3. [s \in SUBSET (1 .. 0) |-> Of(h, s)] = [s \in SUBSET (1 .. 0) |-> base]
      BY <3>2, Zenon
    <3> QED
      BY <3>1, <3>3, Zenon
  <2> HIDE DEF g, Of
  <2> QED
    BY <2>2
<1>2. ASSUME NEW m \in 1 .. n, m - 1 \in T PROVE m \in T
  <2>1. PICK g : g = [s \in SUBSET (1 .. m - 1) |-> Of(g, s)]
    BY <1>2
  <2> DEFINE h == [s \in SUBSET (1 .. m) |-> IF m \in s THEN Once(g[s \ {m}], m) ELSE g[s]]
  <2>2. ASSUME NEW s \in SUBSET (1 .. m), m \in s
        PROVE  h[s] = Of(h, s)
    <3>1. Max(s) \in 1 .. m /\ Max(s) >= m
      <4>1. m \in Nat /\ s # {}
        BY <2>2
      <4>2. Max(s) \in s /\ \A y \in s : Max(s) >= y
        BY <4>1, MaxIsLast
      <4> QED
        BY <2>2, <4>2
    <3>2. Max(s) = m /\ s # {}
      BY <2>2, <3>1
    <3>3. s \ {m} \in SUBSET (1 .. m) /\ m \notin s \ {m}
      OBVIOUS
    <3> HIDE DEF Once
    <3>4. h[s] = Once(g[s \ {m}], m) /\ h[s \ {m}] = g[s \ {m}]
      BY <2>2, <3>3
    <3> HIDE DEF h
    <3> QED
      BY <3>2, <3>4, Zenon
  <2>3. ASSUME NEW s \in SUBSET (1 .. m), m \notin s
        PROVE  h[s] = Of(h, s)
    <3>1. s \in SUBSET (1 .. m - 1)
      BY <2>3
    <3> HIDE DEF Once
    <3>2. h[s] = g[s]
      BY <2>3
    <3>3. g[s] = Of(g, s)
      <4> HIDE DEF Of
      <4> QED
        BY <2>1, <3>1
    <3>4. CASE s = {}
      <4> HIDE DEF h
      <4> QED
        BY <3>2, <3>3, <3>4, Zenon
    <3>5. CASE s # {}
      <4>1. s \ {Max(s)} \in SUBSET (1 .. m) /\ m \notin s \ {Max(s)}
        BY <2>3
      <4>2. h[s \ {Max(s)}] = g[s \ {Max(s)}]
        BY <4>1
      <4> HIDE DEF h
      <4> QED
        BY <3>2, <3>3, <3>5, <4>2, Zenon
    <3> QED
      BY <3>4, <3>5
  <2>4. h = [s \in SUBSET (1 .. m) |-> Of(h, s)]
    <3>1. PICK f : f = h
      OBVIOUS
    <3> HIDE DEF Once
    <3>2. f = [s \in SUBSET (1 .. m) |-> f[s]]
      BY <3>1
    <3> HIDE DEF h, Of
    <3>3. \A s \in SUBSET (1 .. m) : f[s] = Of(f, s)
      BY <2>2, <2>3, <3>1, Zenon
    <3>4. [s \in SUBSET (1 .. m) |-> f[s]] = [s \in SUBSET (1 .. m) |-> Of(f, s)]
      BY <3>3, Zenon
    <3> QED
      BY <3>1, <3>2, <3>4, Zenon
  <2> HIDE DEF h, Of
  <2> QED
    BY <2>4
<1>3. n \in T
  <2> HIDE DEF T
  <2>1. \A m \in 0 .. n : m \in T
    BY <1>1, <1>2, Induct
  <2> QED
    BY <2>1
<1>4. PICK g : g = [s \in SUBSET (1 .. n) |-> Of(g, s)]
  BY <1>3
<1> QED
  BY <1>4, Zenon DEF FoldsTo

\* A fold is what it has after the last step.
LEMMA FoldBySteps ==
  ASSUME NEW n \in Nat, NEW base, NEW kind, NEW what, NEW c, NEW f, FoldsTo(f, n, base, kind, what, c)
  PROVE  \E steps : AreSteps(steps, n, base, kind, what, c) /\ f[1 .. n] = steps[n]
<1> DEFINE Once(x, m) == FoldStep(kind, what, c, x, m)
           steps == [m \in 0 .. n |-> f[1 .. m]]
<1>1. f = [s \in SUBSET (1 .. n) |-> IF s = {} THEN base ELSE Once(f[s \ {Max(s)}], Max(s))]
  BY Zenon DEF FoldsTo
<1> HIDE DEF Once
<1>2. \A s \in SUBSET (1 .. n) : f[s] = IF s = {} THEN base ELSE Once(f[s \ {Max(s)}], Max(s))
  BY <1>1
<1>3. f[1 .. 0] = base
  <2>1. 1 .. 0 = {} /\ {} \in SUBSET (1 .. n)
    OBVIOUS
  <2>2. f[{}] = base
    BY <1>2, <2>1, Zenon
  <2> QED
    BY <2>1, <2>2, Zenon
<1>4. ASSUME NEW m \in 1 .. n PROVE f[1 .. m] = Once(f[1 .. m - 1], m)
  <2>1. /\ 1 .. m \in SUBSET (1 .. n) /\ 1 .. m # {} /\ Max(1 .. m) = m
        /\ (1 .. m) \ {m} = 1 .. m - 1
    BY UpTo
  <2>2. f[1 .. m] = Once(f[(1 .. m) \ {Max(1 .. m)}], Max(1 .. m))
    BY <1>2, <2>1, Zenon
  <2> QED
    BY <2>1, <2>2, Zenon
<1>5. steps[0] = base /\ \A m \in 1 .. n : steps[m] = Once(steps[m - 1], m)
  BY <1>3, <1>4
<1>6. f[1 .. n] = steps[n]
  OBVIOUS
<1>7. AreSteps(steps, n, base, kind, what, c)
  BY <1>5, Zenon DEF Once, AreSteps
<1> HIDE DEF steps
<1> QED
  BY <1>6, <1>7

-----------------------------------------------------------------------------
(* The way of a scene *)

\* A way is what its stages make of it, one after the other.
LEMMA StagesInTurn ==
  ASSUME NEW n \in Nat, NEW stages, DOMAIN stages = 1 .. n
  PROVE  \E steps : AreSteps(steps, n, Start, "stage", stages, 0) /\ FoldLeft(Stage, Start, stages) = steps[n]
<1> DEFINE Of(g, s) == IF s = {} THEN Start ELSE Stage(g[s \ {Max(s)}], stages[Max(s)])
           Step(g, s) == IF s = {} THEN Start ELSE FoldStep("stage", stages, 0, g[s \ {Max(s)}], Max(s))
<1>1. PICK f : f = CHOOSE g : g = [s \in SUBSET (DOMAIN stages) |-> Of(g, s)]
  OBVIOUS
<1>2. FoldLeft(Stage, Start, stages) = f[1 .. n]
  BY <1>1 DEF FoldLeft, MapThenFoldSet
<1>3. \A g, s : Of(g, s) = Step(g, s)
  BY Zenon DEF FoldStep
<1>4. \A g : FoldsTo(g, n, Start, "stage", stages, 0) <=> g = [s \in SUBSET (1 .. n) |-> Step(g, s)]
  BY Zenon DEF FoldsTo
<1> HIDE DEF Of, Step
<1>5. \A g : [s \in SUBSET (1 .. n) |-> Of(g, s)] = [s \in SUBSET (1 .. n) |-> Step(g, s)]
  BY <1>3, Zenon
<1>6. f = CHOOSE g : g = [s \in SUBSET (1 .. n) |-> Of(g, s)]
  BY <1>1
<1>7. \E g : g = [s \in SUBSET (1 .. n) |-> Of(g, s)]
  <2>1. PICK g : FoldsTo(g, n, Start, "stage", stages, 0)
    BY FoldIsThere
  <2>2. g = [s \in SUBSET (1 .. n) |-> Step(g, s)]
    BY <1>4, <2>1, Zenon
  <2>3. [s \in SUBSET (1 .. n) |-> Of(g, s)] = [s \in SUBSET (1 .. n) |-> Step(g, s)]
    BY <1>5, Zenon
  <2>4. g = [s \in SUBSET (1 .. n) |-> Of(g, s)]
    BY <2>2, <2>3
  <2> QED
    BY <2>4
<1>8. f = [s \in SUBSET (1 .. n) |-> Of(f, s)]
  BY <1>6, <1>7
<1>9. FoldsTo(f, n, Start, "stage", stages, 0)
  BY <1>4, <1>5, <1>8, Zenon
<1>10. \E steps : AreSteps(steps, n, Start, "stage", stages, 0) /\ f[1 .. n] = steps[n]
  BY <1>9, FoldBySteps
<1> QED
  BY <1>2, <1>10, Zenon

\* A sequence that is made again is the same.
LEMMA EvaluatedIsSame ==
  ASSUME NEW T, NEW s \in Seq(T)
  PROVE  Evaluated(s) = s
<1>1. s \o <<>> = s
  BY ConcatEmptySeq
<1> QED
  BY <1>1, Zenon DEF Evaluated

\* What a stage before the import leaves has the fields of a way.
LEMMA StageKeepsFields ==
  ASSUME NEW w, NEW stage \in {"lookups", "directory", "compile", "inspect"}
  PROVE  DOMAIN Stage(w, stage) = DOMAIN w
<1>1. DOMAIN Failed(w) = DOMAIN w
  BY DEF Failed
<1>2. \A p : DOMAIN [w EXCEPT !.plan = p] = DOMAIN w
  OBVIOUS
<1>3. DOMAIN ValidateLookups(w) = DOMAIN w
  BY <1>1, Zenon DEF ValidateLookups
<1>4. DOMAIN FindDirectory(w) = DOMAIN w
  BY <1>1, Zenon DEF FindDirectory
<1>5. DOMAIN Compile(w) = DOMAIN w
  BY <1>1, <1>2, Zenon DEF Compile
<1>6. DOMAIN Inspect(w) = DOMAIN w
  BY <1>1, Zenon DEF Inspect
<1> QED
  BY <1>3, <1>4, <1>5, <1>6 DEF Stage

\* An import that does not fail is the surfaces of all lookups, or of the first.
LEMMA ImportIsTaken ==
  ASSUME NEW w, DOMAIN w = DOMAIN Start, Still, Import(w).ok
  PROVE  Import(w).surfaces[1] = Imported(1)
<1> DEFINE n == IF Still THEN 1 ELSE Cardinality(Lookups)
           ins == [k \in 1 .. n |-> Imported(k)]
<1>1. n = 1
  OBVIOUS
<1>2. ins = [k \in 1 .. 1 |-> Imported(1)]
  BY <1>1
<1>3. ins \in Seq({Imported(1)}) /\ ins[1] = Imported(1)
  BY <1>2
<1>4. Evaluated(ins) = ins
  <2> HIDE DEF ins
  <2> QED
    BY <1>3, EvaluatedIsSame
<1>5. "ok" \in DOMAIN w /\ "surfaces" \in DOMAIN w
  BY DEF Start
<1>6. Import(w) = IF Refused \in Range(Evaluated(ins)) THEN Failed(w) ELSE [w EXCEPT !.surfaces = Evaluated(ins)]
  BY Zenon DEF Import
<1> HIDE DEF ins
<1>7. ~Failed(w).ok
  BY <1>5 DEF Failed
<1>8. Import(w) = [w EXCEPT !.surfaces = ins]
  BY <1>4, <1>6, <1>7, Zenon
<1>9. Import(w).surfaces = ins
  BY <1>5, <1>8
<1> QED
  BY <1>3, <1>9

\* The way of a motion that has been imported: its lookups were found valid, and
\* the last thing done was the import.
LEMMA ImportedMotion ==
  ASSUME Moves, NEW w \in WaysAfter("import")
  PROVE  \E v : DOMAIN v = DOMAIN Start /\ w = Import(v) /\ w.ok /\ ValidateLookups(Start).ok
<1> DEFINE stages == Stages["motion"]
           first == SubSeq(stages, 1, 5)
<1>1. /\ stages = <<"lookups", "directory", "compile", "inspect", "import", "roots", "inputs", "deform", "share",
                    "clumps", "limit", "identify", "curves">>
      /\ S.tool = "motion"
  BY DEF Moves, Stages
<1>2. Min({i \in DOMAIN stages : stages[i] = "import"}) = 5
  <2>1. {i \in DOMAIN stages : stages[i] = "import"} = {5}
    BY <1>1
  <2>2. Min({5}) = 5
    BY DEF Min
  <2> QED
    BY <2>1, <2>2
<1>3. /\ first[1] = "lookups" /\ first[2] = "directory" /\ first[3] = "compile"
      /\ first[4] = "inspect" /\ first[5] = "import" /\ DOMAIN first = 1 .. 5
  BY <1>1
<1>4. w = FoldLeft(Stage, Start, first) /\ w.ok
  <2> HIDE DEF stages
  <2>1. stages = Stages[S.tool]
    BY <1>1 DEF stages
  <2> QED
    BY <1>2, <2>1 DEF WaysAfter
<1> HIDE DEF first, stages
<1>5. PICK steps : AreSteps(steps, 5, Start, "stage", first, 0) /\ FoldLeft(Stage, Start, first) = steps[5]
  BY <1>3, StagesInTurn
<1>6. /\ steps[0] = Start
      /\ \A m \in 1 .. 5 : steps[m] = FoldStep("stage", first, 0, steps[m - 1], m)
  BY <1>5, Zenon DEF AreSteps
<1>7. \A m \in 1 .. 5 : steps[m] = Stage(steps[m - 1], first[m])
  <2>1. \A x, m : FoldStep("stage", first, 0, x, m) = Stage(x, first[m])
    BY Zenon DEF FoldStep
  <2> QED
    BY <1>6, <2>1, Zenon
<1>8. /\ steps[1] = Stage(steps[0], "lookups") /\ steps[2] = Stage(steps[1], "directory")
      /\ steps[3] = Stage(steps[2], "compile") /\ steps[4] = Stage(steps[3], "inspect")
      /\ steps[5] = Stage(steps[4], "import")
  BY <1>3, <1>7
<1>9. DOMAIN steps[4] = DOMAIN Start
  BY <1>6, <1>8, StageKeepsFields
<1>10. steps[4].ok /\ steps[5] = Import(steps[4])
  <2>1. steps[5] = IF ~steps[4].ok THEN steps[4] ELSE Import(steps[4])
    BY <1>8, Zenon DEF Stage
  <2> QED
    BY <1>4, <1>5, <2>1
<1>11. \A m \in 1 .. 5 : steps[m].ok => steps[m - 1].ok
  BY <1>7, Zenon DEF Stage
<1>12. ValidateLookups(Start).ok
  <2>1. steps[4].ok /\ steps[3].ok /\ steps[2].ok /\ steps[1].ok
    BY <1>10, <1>11
  <2>2. Start.ok
    BY DEF Start
  <2>3. steps[1] = ValidateLookups(Start)
    BY <1>6, <1>8, <2>2, Zenon DEF Stage
  <2> QED
    BY <2>1, <2>3
<1> QED
  BY <1>4, <1>5, <1>9, <1>10, <1>12

\* The import of every lookup of a motion that stands still is that of the first.
LEMMA LookupsAreAlike ==
  ASSUME Still, IsWalk(S.archive), OpensCache => IsWalk(S.disk[CachePath].archive),
         S.lookups \in Seq([placement : Int, frame : Int, offset : Int, fps : Int, mode : STRING]),
         \A k \in DOMAIN S.lookups : S.lookups[k].fps > 0,
         NEW k \in Lookups
  PROVE  Imported(k) = Imported(1)
<1>1. PICK lookups : lookups = S.lookups
  OBVIOUS
<1>2. PICK cache : cache = S.disk[CachePath].archive
  OBVIOUS
<1>3. Len(lookups) > 1 /\ lookups \in Seq([placement : Int, frame : Int, offset : Int, fps : Int, mode : STRING])
  BY <1>1, Zenon DEF Still
<1>4. lookups # <<>> /\ 1 \in DOMAIN lookups
  BY <1>3
<1>5. k \in DOMAIN lookups
  BY <1>1, <1>4, Zenon DEF Lookups
<1>6. lookups[k].fps \in Nat \ {0} /\ lookups[1].fps \in Nat \ {0}
  <2>1. \A j \in DOMAIN lookups : lookups[j].fps > 0 /\ lookups[j].fps \in Int
    <3>1. ASSUME NEW j \in DOMAIN lookups PROVE lookups[j].fps \in Int
      <4>1. PICK T : T = [placement : Int, frame : Int, offset : Int, fps : Int, mode : STRING]
        OBVIOUS
      <4>2. lookups \in Seq(T)
        BY <1>3, <4>1, Zenon
      <4>3. lookups[j] \in T
        BY <4>2
      <4> QED
        BY <4>1, <4>3
    <3>2. \A j \in DOMAIN lookups : lookups[j].fps > 0
      BY <1>1, Zenon
    <3> QED
      BY <3>1, <3>2, Zenon
  <2> QED
    BY <1>4, <1>5, <2>1
<1>7. DeformationIsStatic(S.archive, {p.name : p \in Range(D.patches)}, S.limits.objects) = "static"
  BY Zenon DEF Still, Deformation
<1>8. UsesCache => OpensCache /\ GuideCacheIsStatic(cache, S.limits.objects) = "static"
  BY <1>2 DEF Still, CacheMotion
<1>9. /\ BuildAssetInputAt(D.patches, S.archive, lookups[k], S.limits)
           = BuildAssetInputAt(D.patches, S.archive, lookups[1], S.limits)
      /\ UsesCache => \A in, wires : ApplyGuideCacheAt(in, cache, lookups[k], S.limits, wires)
                                       = ApplyGuideCacheAt(in, cache, lookups[1], S.limits, wires)
  <2>1. PICK a : a = lookups[k]
    OBVIOUS
  <2>2. PICK b : b = lookups[1]
    OBVIOUS
  <2>3. PICK objects : objects = S.archive
    OBVIOUS
  <2>4. PICK limits : limits = S.limits
    OBVIOUS
  <2>5. PICK patches : patches = D.patches
    OBVIOUS
  <2>6. a.fps \in Nat \ {0} /\ b.fps \in Nat \ {0} /\ IsWalk(objects)
    BY <1>6, <2>1, <2>2, <2>3
  <2>7. BuildAssetInputAt(patches, objects, a, limits) = BuildAssetInputAt(patches, objects, b, limits)
    <3>1. PICK names : names = {p.name : p \in Range(D.patches)}
      OBVIOUS
    <3>2. \A p \in Range(patches) : p.name \in names
      BY <2>5, <3>1
    <3>3. DeformationIsStatic(objects, names, limits.objects) = "static"
      BY <1>7, <2>3, <2>4, <3>1
    <3> QED
      BY <2>6, <3>2, <3>3, StillPatchesAgree
  <2>8. ASSUME UsesCache
        PROVE  \A in, wires : ApplyGuideCacheAt(in, cache, a, limits, wires) = ApplyGuideCacheAt(in, cache, b, limits, wires)
    <3>1. IsWalk(cache) /\ GuideCacheIsStatic(cache, limits.objects) = "static"
      BY <1>2, <1>8, <2>4, <2>8
    <3> QED
      BY <2>6, <3>1, StillCachesAgree
  <2> QED
    BY <2>1, <2>2, <2>3, <2>4, <2>5, <2>7, <2>8
<1> QED
  BY <1>1, <1>2, <1>4, <1>8, <1>9 DEF Imported

\* The lookups of a motion that has been imported are numbers of frames per second.
LEMMA LookupsAreValid ==
  ASSUME ValidateLookups(Start).ok
  PROVE  \A k \in DOMAIN S.lookups : S.lookups[k].fps > 0
<1> DEFINE Fits == /\ Len(S.lookups) \in 1 .. 20
                   /\ \A k \in DOMAIN S.lookups :
                        /\ S.lookups[k].fps > 0
                        /\ k > 1 => [j \in DOMAIN S.lookups |-> S.lookups[j].placement][k - 1]
                                     < [j \in DOMAIN S.lookups |-> S.lookups[j].placement][k]
<1>1. ValidateLookups(Start) = IF Fits THEN Start ELSE Failed(Start)
  BY Zenon DEF ValidateLookups
<1>2. ~Failed(Start).ok
  BY DEF Failed, Start
<1>3. Fits
  <2> HIDE DEF Fits
  <2> QED
    BY <1>1, <1>2, Zenon
<1> QED
  BY <1>3, Zenon

\* The scene stays what it is, while the tool runs.
LEMMA SceneStays == SceneSpec => [](scene \in DOMAIN Scenes)
<1>1. SceneInit => scene \in DOMAIN Scenes
  BY DEF SceneInit
<1>2. scene \in DOMAIN Scenes /\ [SceneNext]_sceneVars => (scene \in DOMAIN Scenes)'
  BY DEF SceneNext, Run, Ask, sceneVars
<1> QED
  BY <1>1, <1>2, PTL DEF SceneSpec

\* Where one import is taken for every motion sample, each of them would have been
\* imported the same.
THEOREM StaticScenesAreStill == SceneSpec => StaticMeansStatic
<1> DEFINE Taken == \A w \in WaysAfter("import") : \A k \in Lookups : Imported(k) = w.surfaces[1]
<1>1. ASSUME scene \in DOMAIN Scenes, Moves, Still PROVE Taken
  <2> SUFFICES ASSUME NEW w \in WaysAfter("import"), NEW k \in Lookups
               PROVE  Imported(k) = w.surfaces[1]
    OBVIOUS
  <2>1. PICK v : DOMAIN v = DOMAIN Start /\ w = Import(v) /\ w.ok /\ ValidateLookups(Start).ok
    BY <1>1, ImportedMotion
  <2>2. w.surfaces[1] = Imported(1)
    BY <1>1, <2>1, ImportIsTaken
  <2>3. \A j \in DOMAIN S.lookups : S.lookups[j].fps > 0
    BY <2>1, LookupsAreValid
  <2>4. /\ IsWalk(S.archive)
        /\ OpensCache => IsWalk(S.disk[CachePath].archive)
        /\ S.lookups \in Seq([placement : Int, frame : Int, offset : Int, fps : Int, mode : STRING])
    BY <1>1, SceneAssumption, Zenon DEF S, OpensCache, IsArchive
  <2>5. Imported(k) = Imported(1)
    BY <1>1, <2>3, <2>4, LookupsAreAlike
  <2> QED
    BY <2>2, <2>5
<1> HIDE DEF Taken
<1>2. ASSUME scene \in DOMAIN Scenes PROVE [Runs /\ Moves /\ Still => Taken]_sceneVars
  BY <1>1, <1>2, Zenon
<1>3. SceneSpec => [](scene \in DOMAIN Scenes)
  BY SceneStays
<1>4. SceneSpec => [][Runs /\ Moves /\ Still => Taken]_sceneVars
  BY <1>2, <1>3, PTL
<1> QED
  BY <1>4 DEF StaticMeansStatic, Taken

-----------------------------------------------------------------------------
(* What an import is made of *)

\* Of some places of a row one has the least value.
LEMMA LeastIsThere ==
  ASSUME NEW n \in Nat, NEW s \in SUBSET (1 .. n), s # {}
  PROVE  Min(s) \in s /\ \A y \in s : Min(s) <= y
<1>1. \A x \in s : x \in Nat
  OBVIOUS
<1>2. s \in SUBSET Nat
  OBVIOUS
<1>3. PICK x \in s : \A y \in s : x <= y
  BY <1>2, LeastNatural
<1> QED
  BY <1>3 DEF Min

\* What is selected for a time.
IsBlend(blend, n) ==
  /\ blend.lower \in 1 .. n /\ blend.upper \in 1 .. n
  /\ blend.whole \in Nat \ {0} /\ blend.part \in Int

\* What is selected is there, and its parts are a share of a whole.
LEMMA SelectedWithin ==
  ASSUME NEW o, o.times \in Seq(Int), o.times # <<>>, NEW sel, sel.time \in Int
  PROVE  IsBlend(SelectSamples(o, sel), Len(o.times))
<1>1. PICK t \in Seq(Int) : t = o.times
  OBVIOUS
<1>2. PICK time \in Int : time = sel.time
  OBVIOUS
<1>3. PICK n \in Nat : n = Len(t) /\ DOMAIN t = 1 .. n
  OBVIOUS
<1>4. n # 0 /\ 1 \in 1 .. n /\ n \in 1 .. n
  <2>1. n # 0
    BY <1>1, <1>3
  <2> QED
    BY <2>1
<1>5. \A i \in 1 .. n : t[i] \in Int
  BY <1>3
<1> DEFINE lower == FloorIndex(t, time)
           upper == CeilIndex(t, time)
<1>6. lower \in 1 .. n
  <2> DEFINE L == {i \in DOMAIN t : t[i] <= time} \cup {1}
  <2>1. L \in SUBSET (1 .. n) /\ L # {}
    BY <1>3, <1>4
  <2>2. lower = Max(L)
    BY DEF FloorIndex
  <2> HIDE DEF L
  <2> QED
    BY <2>1, <2>2, MaxIsLast
<1>7. upper \in 1 .. n
  <2> DEFINE U == {i \in DOMAIN t : t[i] >= time} \cup {Len(t)}
  <2>1. U \in SUBSET (1 .. n) /\ U # {}
    BY <1>3, <1>4
  <2>2. upper = Min(U)
    BY DEF CeilIndex
  <2> HIDE DEF U
  <2> QED
    BY <2>1, <2>2, LeastIsThere
<1> HIDE DEF lower, upper
<1> DEFINE Only(i) == [lower |-> i, upper |-> i, part |-> 0, whole |-> 1]
           mixed == [lower |-> lower, upper |-> upper, whole |-> t[upper] - t[lower],
                     part |-> Max({0, Min({time - t[lower], t[upper] - t[lower]})})]
<1>8. \A i \in 1 .. n : IsBlend(Only(i), n)
  BY DEF IsBlend
<1>9. ASSUME ~(t[upper] <= t[lower]) PROVE IsBlend(mixed, n)
  <2>1. PICK a \in Int, b \in Int : a = t[lower] /\ b = t[upper]
    BY <1>5, <1>6, <1>7
  <2>2. b - a \in Nat \ {0} /\ b - a \in Int /\ time - a \in Int
    <3>1. ~(b <= a)
      BY <1>9, <2>1, Zenon
    <3> QED
      BY <3>1
  <2>3. \A x, y \in Int : Min({x, y}) \in Int /\ Max({x, y}) \in Int
    <3> TAKE x, y \in Int
    <3>1. \E z \in {x, y} : \A v \in {x, y} : z <= v
      OBVIOUS
    <3>2. \E z \in {x, y} : \A v \in {x, y} : z >= v
      OBVIOUS
    <3>3. Min({x, y}) \in {x, y}
      BY <3>1 DEF Min
    <3>4. Max({x, y}) \in {x, y}
      BY <3>2 DEF Max
    <3> QED
      BY <3>3, <3>4
  <2>4. Max({0, Min({time - a, b - a})}) \in Int
    <3>1. PICK c \in Int : c = Min({time - a, b - a})
      BY <2>2, <2>3, Zenon
    <3>2. 0 \in Int
      OBVIOUS
    <3> QED
      BY <2>3, <3>1, <3>2, Zenon
  <2> QED
    BY <1>6, <1>7, <2>1, <2>2, <2>4 DEF IsBlend
<1>10. SelectSamples(o, sel) = IF sel.first \/ Len(t) = 1 THEN Only(1)
                               ELSE IF sel.mode = "none" \/ t[upper] <= t[lower] THEN Only(lower)
                               ELSE mixed
  BY <1>1, <1>2, Zenon DEF SelectSamples, lower, upper
<1> HIDE DEF Only, mixed
<1>11. IsBlend(SelectSamples(o, sel), n)
  BY <1>4, <1>6, <1>8, <1>9, <1>10, Zenon
<1> QED
  BY <1>1, <1>3, <1>11, Zenon

\* Between two points is a point.
LEMMA BlendedTyped ==
  ASSUME NEW a \in Coordinates, NEW b \in Coordinates, NEW blend, NEW n, IsBlend(blend, n)
  PROVE  Blended(a, b, blend) \in Coordinates
<1>1. PICK w \in Nat \ {0}, p \in Int : w = blend.whole /\ p = blend.part
  BY DEF IsBlend
<1>2. ASSUME NEW i \in 1 .. 3 PROVE (a[i] * (w - p) + b[i] * p) \div w \in Int
  <2>1. PICK x \in Int, y \in Int : x = a[i] /\ y = b[i]
    BY DEF Coordinates
  <2>2. x * (w - p) \in Int /\ y * p \in Int
    OBVIOUS
  <2>3. PICK z \in Int : z = x * (w - p) + y * p
    BY <2>2
  <2>4. z \div w \in Int
    OBVIOUS
  <2> QED
    BY <2>1, <2>3, <2>4
<1>3. [i \in 1 .. 3 |-> (a[i] * (w - p) + b[i] * p) \div w] \in [1 .. 3 -> Int]
  BY <1>2
<1> QED
  BY <1>1, <1>3, Zenon DEF Blended, Coordinates

\* Vectors that are added or subtracted are vectors.
LEMMA PlusTyped ==
  ASSUME NEW a \in Coordinates, NEW b \in Coordinates
  PROVE  Plus(a, b) \in Coordinates /\ Minus(a, b) \in Coordinates
BY DEF Plus, Minus, Coordinates

LEMMA ZeroTyped == Zero \in Coordinates
BY DEF Zero, Coordinates

\* A sum of vectors is what has been added so far.
LEMMA VectorsInTurn ==
  ASSUME NEW n \in Nat, NEW vectors, DOMAIN vectors = 1 .. n
  PROVE  \E steps : AreSteps(steps, n, Zero, "vector", vectors, 0) /\ VectorSum(vectors) = steps[n]
<1> DEFINE Of(g, s) == IF s = {} THEN Zero ELSE Plus(g[s \ {Max(s)}], vectors[Max(s)])
           Step(g, s) == IF s = {} THEN Zero ELSE FoldStep("vector", vectors, 0, g[s \ {Max(s)}], Max(s))
<1>1. PICK f : f = CHOOSE g : g = [s \in SUBSET (DOMAIN vectors) |-> Of(g, s)]
  OBVIOUS
<1>2. VectorSum(vectors) = f[1 .. n]
  BY <1>1 DEF VectorSum, FoldLeft, MapThenFoldSet
<1>3. \A g, s : Of(g, s) = Step(g, s)
  BY Zenon DEF FoldStep
<1>4. \A g : FoldsTo(g, n, Zero, "vector", vectors, 0) <=> g = [s \in SUBSET (1 .. n) |-> Step(g, s)]
  BY Zenon DEF FoldsTo
<1> HIDE DEF Of, Step
<1>5. \A g : [s \in SUBSET (1 .. n) |-> Of(g, s)] = [s \in SUBSET (1 .. n) |-> Step(g, s)]
  BY <1>3, Zenon
<1>6. f = CHOOSE g : g = [s \in SUBSET (1 .. n) |-> Of(g, s)]
  BY <1>1
<1>7. \E g : g = [s \in SUBSET (1 .. n) |-> Of(g, s)]
  <2>1. PICK g : FoldsTo(g, n, Zero, "vector", vectors, 0)
    BY FoldIsThere
  <2>2. g = [s \in SUBSET (1 .. n) |-> Step(g, s)]
    BY <1>4, <2>1, Zenon
  <2>3. [s \in SUBSET (1 .. n) |-> Of(g, s)] = [s \in SUBSET (1 .. n) |-> Step(g, s)]
    BY <1>5, Zenon
  <2>4. g = [s \in SUBSET (1 .. n) |-> Of(g, s)]
    BY <2>2, <2>3
  <2> QED
    BY <2>4
<1>8. f = [s \in SUBSET (1 .. n) |-> Of(f, s)]
  BY <1>6, <1>7
<1>9. FoldsTo(f, n, Zero, "vector", vectors, 0)
  BY <1>4, <1>5, <1>8, Zenon
<1>10. \E steps : AreSteps(steps, n, Zero, "vector", vectors, 0) /\ f[1 .. n] = steps[n]
  BY <1>9, FoldBySteps
<1> QED
  BY <1>2, <1>10, Zenon

\* So is the sum of vectors.
LEMMA VectorSumTyped ==
  ASSUME NEW n \in Nat, NEW vectors \in [1 .. n -> Coordinates]
  PROVE  VectorSum(vectors) \in Coordinates
<1>1. PICK steps : AreSteps(steps, n, Zero, "vector", vectors, 0) /\ VectorSum(vectors) = steps[n]
  <2>1. DOMAIN vectors = 1 .. n
    OBVIOUS
  <2> QED
    BY <2>1, VectorsInTurn, Zenon
<1>2. /\ steps[0] = Zero
      /\ \A m \in 1 .. n : steps[m] = Plus(steps[m - 1], vectors[m])
  <2>1. \A x, m : FoldStep("vector", vectors, 0, x, m) = Plus(x, vectors[m])
    BY Zenon DEF FoldStep
  <2> QED
    BY <1>1, <2>1, Zenon DEF AreSteps
<1> DEFINE T == {m \in 0 .. n : steps[m] \in Coordinates}
<1>3. 0 \in T
  BY <1>2, ZeroTyped
<1>4. ASSUME NEW m \in 1 .. n, m - 1 \in T PROVE m \in T
  <2>1. steps[m - 1] \in Coordinates /\ vectors[m] \in Coordinates
    BY <1>4
  <2>2. Plus(steps[m - 1], vectors[m]) \in Coordinates
    BY <2>1, PlusTyped
  <2> QED
    BY <1>2, <2>2
<1>5. n \in T
  <2> HIDE DEF T
  <2>1. \A m \in 0 .. n : m \in T
    BY <1>3, <1>4, Induct
  <2> QED
    BY <2>1
<1> QED
  BY <1>1, <1>5

\* The positions of an object that is read, at the selected time.
LEMMA PositionsTyped ==
  ASSUME NEW o, IsRead(o), o.kind \in {"mesh", "subd", "curves"}, o.times \in Seq(Int), o.times # <<>>,
         NEW sel, sel.time \in Int, TopologyStays(o, sel)
  PROVE  LET blend == SelectSamples(o, sel)
             v == o.values[blend.lower]
         IN /\ v \in Shapes /\ IsBlend(blend, Len(o.times))
            /\ PositionsAt(o, sel) \in Seq(Coordinates)
            /\ Len(PositionsAt(o, sel)) = Len(v.positions)
<1>1. PICK blend : blend = SelectSamples(o, sel)
  OBVIOUS
<1>2. PICK n \in Nat : n = Len(o.times)
  OBVIOUS
<1>3. IsBlend(blend, n)
  BY <1>1, <1>2, SelectedWithin, Zenon
<1>4. PICK values \in Seq(Shapes) : values = o.values
  BY DEF IsRead
<1>5. Len(values) = n
  BY <1>2, <1>4 DEF IsRead
<1>6. values[blend.lower] \in Shapes /\ values[blend.upper] \in Shapes
  BY <1>3, <1>5 DEF IsBlend
<1>7. PICK a \in Seq(Coordinates), b \in Seq(Coordinates) : a = values[blend.lower].positions /\ b = values[blend.upper].positions
  BY <1>6 DEF Shapes
<1>8. Len(a) = Len(b)
  BY <1>1, <1>4, <1>7 DEF TopologyStays
<1>9. PICK k \in Nat : k = Len(a) /\ DOMAIN a = 1 .. k /\ DOMAIN b = 1 .. k
  BY <1>8
<1>10. \A i \in 1 .. k : Blended(a[i], b[i], blend) \in Coordinates
  <2> TAKE i \in 1 .. k
  <2>1. a[i] \in Coordinates /\ b[i] \in Coordinates
    BY <1>9
  <2> QED
    BY <1>3, <2>1, BlendedTyped, Zenon
<1>11. [i \in 1 .. k |-> Blended(a[i], b[i], blend)] \in Seq(Coordinates) /\ Len([i \in 1 .. k |-> Blended(a[i], b[i], blend)]) = k
  BY <1>10
<1>12. PositionsAt(o, sel) = [i \in 1 .. k |-> Blended(a[i], b[i], blend)]
  BY <1>1, <1>4, <1>7, <1>9, Zenon DEF PositionsAt
<1> QED
  BY <1>1, <1>2, <1>3, <1>4, <1>6, <1>7, <1>9, <1>11, <1>12, Zenon

\* What an object of an archive is moved by.
LEMMA TransformTyped ==
  ASSUME NEW objects, IsArchive(objects), NEW i \in DOMAIN objects, NEW sel, sel.time \in Int
  PROVE  Transform(objects, i, sel) \in Coordinates
<1>1. PICK n \in Nat : n = Len(objects) /\ DOMAIN objects = 1 .. n
  <2>1. Len(objects) \in Nat /\ DOMAIN objects = 1 .. Len(objects)
    BY Zenon DEF IsArchive, IsWalk
  <2> QED
    BY <2>1, Zenon
<1>2. ASSUME NEW j \in 1 .. n, MovesWith(objects, i, j) PROVE MoveAt(objects[j], sel) \in Coordinates
  <2>1. PICK o : o = objects[j]
    OBVIOUS
  <2>2. IsRead(o) /\ o.kind = "xform" /\ o.times # <<>> /\ o.times \in Seq(Int)
    BY <1>1, <1>2, <2>1, Zenon DEF IsArchive, IsWalk, MovesWith
  <2>3. PICK blend : blend = SelectSamples(o, sel)
    OBVIOUS
  <2>4. PICK k \in Nat : k = Len(o.times)
    BY <2>2
  <2>5. IsBlend(blend, k)
    BY <2>2, <2>3, <2>4, SelectedWithin, Zenon
  <2>6. o.values \in Seq(Coordinates) /\ Len(o.values) = k
    BY <2>2, <2>4 DEF IsRead
  <2>7. PICK values \in Seq(Coordinates) : values = o.values
    BY <2>6
  <2>8. values[blend.lower] \in Coordinates /\ values[blend.upper] \in Coordinates
    BY <2>5, <2>6, <2>7 DEF IsBlend
  <2>9. Blended(values[blend.lower], values[blend.upper], blend) \in Coordinates
    BY <2>5, <2>8, BlendedTyped, Zenon
  <2> QED
    BY <2>1, <2>3, <2>7, <2>9, Zenon DEF MoveAt
<1>3. \A j \in 1 .. n : (IF MovesWith(objects, i, j) THEN MoveAt(objects[j], sel) ELSE Zero) \in Coordinates
  BY <1>2, ZeroTyped
<1>4. [j \in 1 .. n |-> IF MovesWith(objects, i, j) THEN MoveAt(objects[j], sel) ELSE Zero] \in [1 .. n -> Coordinates]
  BY <1>3
<1> QED
  BY <1>1, <1>4, VectorSumTyped, Zenon DEF Transform

\* The surface of a patch: faces of three vertices at least, which are all there.
IsSurface(mesh) ==
  /\ mesh.positions \in Seq(Coordinates)
  /\ mesh.counts \in Seq(Int) /\ mesh.indices \in Seq(Int)
  /\ \A f \in DOMAIN mesh.counts : mesh.counts[f] >= 3
  /\ IndexSum(mesh.counts) = Len(mesh.indices)
  /\ \A v \in DOMAIN mesh.indices : mesh.indices[v] \in 0 .. Len(mesh.positions) - 1

\* Points that are moved are points.
LEMMA MovedTyped ==
  ASSUME NEW points \in Seq(Coordinates), NEW move \in Coordinates
  PROVE  LET moved == Evaluated([p \in DOMAIN points |-> Plus(points[p], move)])
         IN moved \in Seq(Coordinates) /\ Len(moved) = Len(points)
<1> DEFINE moved == [p \in DOMAIN points |-> Plus(points[p], move)]
<1>1. \A p \in DOMAIN points : Plus(points[p], move) \in Coordinates
  <2> TAKE p \in DOMAIN points
  <2>1. points[p] \in Coordinates
    OBVIOUS
  <2> QED
    BY <2>1, PlusTyped
<1>2. moved \in Seq(Coordinates) /\ Len(moved) = Len(points)
  BY <1>1
<1>3. Evaluated(moved) = moved
  <2> HIDE DEF moved
  <2> QED
    BY <1>2, EvaluatedIsSame
<1> QED
  BY <1>2, <1>3

\* A patch that is imported is a surface: its faces have the vertices that they name.
LEMMA PatchIsSurface ==
  ASSUME NEW objects, IsArchive(objects), NEW name, NEW sel, sel.time \in Int, NEW limits,
         PatchObjectFits(objects, name, sel, limits)
  PROVE  IsSurface(PatchMesh(objects, name, sel))
<1>1. PICK i : i = CHOOSE m \in Meshes(objects, name) : TRUE
  OBVIOUS
<1>2. PICK o : o = objects[i]
  OBVIOUS
<1>3. i \in Meshes(objects, name)
  <2>1. Cardinality({}) = 0 /\ Cardinality(Meshes(objects, name)) = 1
    BY FS_EmptySet, Zenon DEF PatchObjectFits
  <2>2. Meshes(objects, name) # {}
    BY <2>1
  <2> QED
    BY <1>1, <2>2, Zenon
<1>4. i \in DOMAIN objects /\ o.kind \in {"mesh", "subd"}
  BY <1>2, <1>3, Zenon DEF Meshes
<1>5. IsRead(o) /\ o.kind \in {"mesh", "subd", "curves"} /\ o.times \in Seq(Int)
  <2>1. o.kind \in {"mesh", "subd", "curves"}
    BY <1>4
  <2> QED
    BY <1>2, <1>4, <2>1, Zenon DEF IsArchive, IsWalk
<1>6. PICK lower : lower = o.values[SelectSamples(o, sel).lower]
  OBVIOUS
<1>7. o.times # <<>> /\ TopologyStays(o, sel) /\ TopologyFits(lower, limits)
  BY <1>1, <1>2, <1>6, Zenon DEF PatchObjectFits
<1>8. PICK points \in Seq(Coordinates) : points = PositionsAt(o, sel) /\ Len(points) = Len(lower.positions)
  BY <1>5, <1>6, <1>7, PositionsTyped, Zenon
<1>9. lower \in Shapes
  BY <1>5, <1>6, <1>7, PositionsTyped, Zenon
<1>10. PICK move \in Coordinates : move = Transform(objects, i, sel)
  BY <1>4, TransformTyped, Zenon
<1> DEFINE moved == Evaluated([p \in DOMAIN points |-> Plus(points[p], move)])
<1>11. PICK mesh : mesh = PatchMesh(objects, name, sel)
  OBVIOUS
<1>12. mesh.positions = moved /\ mesh.counts = lower.counts /\ mesh.indices = lower.indices
  <2> DEFINE from == IF o.pref # <<>> THEN o.pref ELSE lower.positions
             reference == Evaluated([p \in DOMAIN from |-> Plus(from[p], move)])
  <2>1. points = PositionsAt(o, sel) /\ move = Transform(objects, i, sel)
    BY <1>8, <1>10
  <2>2. mesh = [positions |-> moved, reference |-> reference, counts |-> lower.counts, indices |-> lower.indices]
    <3>1. PatchMesh(objects, name, sel) =
            [positions |-> Evaluated([p \in DOMAIN PositionsAt(o, sel) |-> Plus(PositionsAt(o, sel)[p], Transform(objects, i, sel))]),
             reference |-> Evaluated([p \in DOMAIN from |-> Plus(from[p], Transform(objects, i, sel))]),
             counts |-> lower.counts, indices |-> lower.indices]
      BY <1>1, <1>2, <1>6 DEF PatchMesh
    <3> QED
      BY <1>11, <2>1, <3>1, Zenon
  <2> HIDE DEF moved, reference
  <2> QED
    BY <2>2
<1>13. moved \in Seq(Coordinates) /\ Len(moved) = Len(points)
  BY MovedTyped, Zenon
<1>14. lower.counts \in Seq(Int) /\ lower.indices \in Seq(Int)
  BY <1>9 DEF Shapes
<1>15. /\ \A f \in DOMAIN lower.counts : lower.counts[f] >= 3
       /\ IndexSum(lower.counts) = Len(lower.indices)
       /\ \A v \in DOMAIN lower.indices : lower.indices[v] \in 0 .. Len(lower.positions) - 1
  <2>1. \A v \in DOMAIN lower.indices : lower.indices[v] \in Range(lower.indices)
    BY Zenon DEF Range
  <2> QED
    BY <1>7, <2>1, Zenon DEF TopologyFits
<1>16. IsSurface(mesh)
  <2>1. /\ mesh.positions \in Seq(Coordinates) /\ Len(mesh.positions) = Len(lower.positions)
    BY <1>8, <1>12, <1>13, Zenon
  <2> QED
    BY <1>12, <1>14, <1>15, <2>1, Zenon DEF IsSurface
<1> QED
  BY <1>11, <1>16, Zenon

\* The vertices of the faces before a face, and of the face.
LEMMA OffsetsGrow ==
  ASSUME NEW counts \in Seq(Int), \A f \in DOMAIN counts : counts[f] >= 0, NEW f \in 1 .. Len(counts)
  PROVE  /\ IndexSum(SubSeq(counts, 1, f - 1)) \in Nat
         /\ IndexSum(SubSeq(counts, 1, f)) = IndexSum(SubSeq(counts, 1, f - 1)) + counts[f]
         /\ IndexSum(SubSeq(counts, 1, f)) <= IndexSum(counts)
<1>1. PICK n \in Nat : n = Len(counts) /\ DOMAIN counts = 1 .. n
  OBVIOUS
<1>2. ASSUME NEW m \in 1 .. n PROVE counts[m] \in Nat
  <2>1. PICK x \in Int : x = counts[m]
    BY <1>1
  <2>2. x >= 0
    BY <1>1, <2>1
  <2> QED
    BY <2>1, <2>2
<1>3. PICK totals : totals = [m \in 0 .. n |-> IndexSum(SubSeq(counts, 1, m))]
  OBVIOUS
<1>4. \A m \in 0 .. n : SubSeq(counts, 1, m) \in [1 .. m -> Nat] /\ \A k \in 1 .. m : SubSeq(counts, 1, m)[k] = counts[k]
  <2> TAKE m \in 0 .. n
  <2>1. SubSeq(counts, 1, m) = [k \in 1 .. m |-> counts[k]]
    BY <1>1
  <2>2. \A k \in 1 .. m : counts[k] \in Nat
    BY <1>2
  <2> QED
    BY <2>1, <2>2
<1>5. \A m \in 0 .. n : totals[m] \in Nat
  <2> TAKE m \in 0 .. n
  <2>1. PICK b \in [1 .. m -> Nat] : b = SubSeq(counts, 1, m)
    BY <1>4
  <2>2. NumberSum(b) \in Nat
    BY SumOfNaturals
  <2> QED
    BY <1>3, <2>1, <2>2 DEF IndexSum
<1>6. \A m \in 1 .. n : totals[m] = totals[m - 1] + counts[m]
  <2> TAKE m \in 1 .. n
  <2>1. m \in 0 .. n /\ m - 1 \in 0 .. n
    OBVIOUS
  <2>2. PICK a \in [1 .. m -> Int] : a = SubSeq(counts, 1, m) /\ \A k \in 1 .. m : a[k] = counts[k]
    <3>1. SubSeq(counts, 1, m) \in [1 .. m -> Nat] /\ \A k \in 1 .. m : SubSeq(counts, 1, m)[k] = counts[k]
      BY <1>4, <2>1, Zenon
    <3>2. SubSeq(counts, 1, m) \in [1 .. m -> Int]
      BY <3>1
    <3> QED
      BY <3>1, <3>2
  <2>3. PICK b \in [1 .. m - 1 -> Int] : b = SubSeq(counts, 1, m - 1) /\ \A k \in 1 .. m - 1 : b[k] = counts[k]
    <3>1. /\ SubSeq(counts, 1, m - 1) \in [1 .. m - 1 -> Nat]
          /\ \A k \in 1 .. m - 1 : SubSeq(counts, 1, m - 1)[k] = counts[k]
      BY <1>4, <2>1, Zenon
    <3>2. SubSeq(counts, 1, m - 1) \in [1 .. m - 1 -> Int]
      BY <3>1
    <3> QED
      BY <3>1, <3>2
  <2>4. m \in Nat /\ m > 0 /\ (\A k \in 1 .. m - 1 : b[k] = a[k]) /\ a[m] = counts[m]
    BY <1>4, <2>2, <2>3
  <2>5. NumberSum(a) = NumberSum(b) + a[m]
    BY <2>4, SumOfLast
  <2> QED
    BY <1>3, <2>2, <2>3, <2>4, <2>5 DEF IndexSum
<1>7. SubSeq(counts, 1, n) = counts
  BY <1>1
<1>8. totals[n] = IndexSum(counts)
  BY <1>3, <1>7
<1> DEFINE T == {m \in 0 .. n : \A k \in 0 .. m : totals[k] <= totals[m]}
<1>9. 0 \in T
  BY <1>5
<1>10. ASSUME NEW m \in 1 .. n, m - 1 \in T PROVE m \in T
  <2>1. totals[m - 1] <= totals[m] /\ totals[m] \in Nat /\ totals[m - 1] \in Nat
    <3>1. m - 1 \in 0 .. n /\ m \in 0 .. n
      OBVIOUS
    <3>2. totals[m] \in Nat /\ totals[m - 1] \in Nat /\ counts[m] \in Nat /\ totals[m] = totals[m - 1] + counts[m]
      BY <1>2, <1>5, <1>6, <3>1
    <3> QED
      BY <3>2
  <2>2. \A k \in 0 .. m - 1 : totals[k] <= totals[m - 1] /\ totals[k] \in Nat
    BY <1>5, <1>10
  <2>3. \A k \in 0 .. m : totals[k] <= totals[m]
    <3> TAKE k \in 0 .. m
    <3>1. CASE k = m
      BY <2>1, <3>1
    <3>2. CASE k # m
      <4>1. k \in 0 .. m - 1
        BY <3>2
      <4> QED
        BY <2>1, <2>2, <4>1
    <3> QED
      BY <3>1, <3>2
  <2> QED
    BY <2>3
<1>11. n \in T
  <2> HIDE DEF T
  <2>1. \A m \in 0 .. n : m \in T
    BY <1>9, <1>10, Induct
  <2> QED
    BY <2>1
<1>12. totals[f] <= totals[n]
  BY <1>1, <1>11
<1>13. f \in 1 .. n /\ f - 1 \in 0 .. n /\ f \in 0 .. n
  BY <1>1
<1>14. /\ totals[f - 1] \in Nat /\ totals[f] = totals[f - 1] + counts[f]
       /\ totals[f] = IndexSum(SubSeq(counts, 1, f)) /\ totals[f - 1] = IndexSum(SubSeq(counts, 1, f - 1))
  BY <1>3, <1>5, <1>6, <1>13
<1> QED
  BY <1>8, <1>12, <1>14, Zenon

\* A corner of a face is a vertex of the mesh, whichever way round it is counted.
LEMMA CornerIsThere ==
  ASSUME NEW mesh, IsSurface(mesh), NEW face \in 0 .. Len(mesh.counts) - 1, NEW c \in Int
  PROVE  Corner(mesh, face, c) \in 0 .. Len(mesh.positions) - 1
<1>1. PICK counts \in Seq(Int) : counts = mesh.counts
  BY Zenon DEF IsSurface
<1>2. PICK indices \in Seq(Int) : indices = mesh.indices
  BY Zenon DEF IsSurface
<1>3. PICK places : places = 0 .. Len(mesh.positions) - 1
  OBVIOUS
<1>4. /\ \A f \in DOMAIN counts : counts[f] >= 3
      /\ IndexSum(counts) = Len(indices)
      /\ \A v \in DOMAIN indices : indices[v] \in places
  BY <1>1, <1>2, <1>3, Zenon DEF IsSurface
<1>5. PICK f : f = face + 1
  OBVIOUS
<1>6. f \in 1 .. Len(counts) /\ f - 1 = face
  BY <1>1, <1>5
<1>7. /\ IndexSum(SubSeq(counts, 1, f - 1)) \in Nat
      /\ IndexSum(SubSeq(counts, 1, f)) = IndexSum(SubSeq(counts, 1, f - 1)) + counts[f]
      /\ IndexSum(SubSeq(counts, 1, f)) <= IndexSum(counts)
  <2>1. \A i \in DOMAIN counts : counts[i] >= 0
    BY <1>4
  <2> QED
    BY <1>6, <2>1, OffsetsGrow, Zenon
<1>8. PICK a \in Nat : a = IndexSum(SubSeq(counts, 1, f - 1))
  BY <1>7
<1>9. PICK k \in Nat : k = counts[f] /\ k >= 3
  <2>1. counts[f] \in Int /\ f \in DOMAIN counts
    BY <1>6
  <2> QED
    BY <1>4, <2>1
<1>10. PICK n \in Nat : n = Len(indices) /\ DOMAIN indices = 1 .. n
  OBVIOUS
<1>11. a + k <= n
  BY <1>4, <1>7, <1>8, <1>9, <1>10
<1>12. FaceVertices(mesh, face) = SubSeq(indices, a + 1, a + k)
  <2>1. IndexSum(SubSeq(counts, 1, face)) = a /\ IndexSum(SubSeq(counts, 1, face + 1)) = a + k
    BY <1>5, <1>6, <1>7, <1>8, <1>9
  <2> QED
    BY <1>1, <1>2, <2>1, Zenon DEF FaceVertices, FaceOffset
<1>13. PICK vs : vs = SubSeq(indices, a + 1, a + k)
  OBVIOUS
<1>14. Len(vs) = k /\ \A p \in 1 .. k : vs[p] \in places
  <2>1. vs = [p \in 1 .. k |-> indices[a + p]]
    BY <1>10, <1>11, <1>13
  <2>2. \A p \in 1 .. k : a + p \in DOMAIN indices
    BY <1>10, <1>11
  <2>3. \A p \in 1 .. k : vs[p] \in places
    BY <1>4, <2>1, <2>2
  <2>4. Len(vs) = k
    BY <1>10, <1>11, <1>13
  <2> QED
    BY <2>3, <2>4
<1>15. (c % k) + 1 \in 1 .. k
  <2>1. k \in Nat /\ k >= 3
    BY <1>9
  <2>2. c % k \in 0 .. k - 1
    <3> HIDE <1>9
    <3> QED
      BY <2>1
  <2> QED
    BY <2>1, <2>2
<1>16. Corner(mesh, face, c) = vs[(c % k) + 1]
  BY <1>12, <1>13, <1>14, Zenon DEF Corner
<1> QED
  BY <1>3, <1>14, <1>15, <1>16

\* The mesh has a point for it.
LEMMA PointIsThere ==
  ASSUME NEW mesh, IsSurface(mesh), NEW face \in 0 .. Len(mesh.counts) - 1, NEW c \in Int
  PROVE  At(mesh.positions, Corner(mesh, face, c)) \in Coordinates
<1>1. PICK v : v = Corner(mesh, face, c)
  OBVIOUS
<1>2. PICK points \in Seq(Coordinates) : points = mesh.positions
  BY DEF IsSurface
<1>3. v \in 0 .. Len(points) - 1
  BY <1>1, <1>2, CornerIsThere
<1>4. points[v + 1] \in Coordinates
  BY <1>3
<1> QED
  BY <1>1, <1>2, <1>4 DEF At

-----------------------------------------------------------------------------
(* Sequences that are joined *)

\* f[m] is the first m sequences joined.
AreJoined(f, n, seqs) == f[1] = seqs[1] /\ \A m \in 2 .. n : f[m] = f[m - 1] \o seqs[m]

\* What sequences are joined to is joined step by step.
LEMMA JoinedInTurn ==
  ASSUME NEW n \in Nat, n # 0, NEW seqs, Len(seqs) = n
  PROVE  \E f : AreJoined(f, n, seqs) /\ FlattenSeq(seqs) = f[n]
<1> DEFINE Of(f, i) == IF i = 1 THEN seqs[i] ELSE f[i - 1] \o seqs[i]
<1>1. PICK flatten : flatten = CHOOSE f : f = [i \in 1 .. n |-> Of(f, i)]
  OBVIOUS
<1>2. FlattenSeq(seqs) = flatten[n]
  BY <1>1 DEF FlattenSeq
<1>3. PICK g : FoldsTo(g, n, seqs, "join", seqs, 0)
  BY FoldIsThere
<1>4. PICK steps : AreSteps(steps, n, seqs, "join", seqs, 0)
  BY <1>3, FoldBySteps
<1>5. \A m \in 1 .. n : steps[m] = IF m = 1 THEN seqs[1] ELSE steps[m - 1] \o seqs[m]
  <2>1. \A x, m : FoldStep("join", seqs, 0, x, m) = IF m = 1 THEN seqs[1] ELSE x \o seqs[m]
    BY Zenon DEF FoldStep
  <2>2. \A m \in 1 .. n : steps[m] = FoldStep("join", seqs, 0, steps[m - 1], m)
    BY <1>4, Zenon DEF AreSteps
  <2> QED
    BY <2>1, <2>2, ZenonT(30)
<1>6. PICK h : h = [i \in 1 .. n |-> steps[i]]
  OBVIOUS
<1>7. \A i \in 1 .. n : h[i] = Of(h, i)
  <2> TAKE i \in 1 .. n
  <2>1. CASE i = 1
    BY <1>5, <1>6, <2>1
  <2>2. CASE i # 1
    <3>1. i - 1 \in 1 .. n
      BY <2>2
    <3>2. h[i - 1] = steps[i - 1] /\ h[i] = steps[i]
      BY <1>6, <3>1
    <3> QED
      BY <1>5, <2>2, <3>2
  <2> QED
    BY <2>1, <2>2
<1> HIDE DEF Of
<1>8. h = [i \in 1 .. n |-> Of(h, i)]
  <2>1. h = [i \in 1 .. n |-> h[i]]
    BY <1>6
  <2>2. [i \in 1 .. n |-> h[i]] = [i \in 1 .. n |-> Of(h, i)]
    BY <1>7, Zenon
  <2> QED
    BY <2>1, <2>2, Zenon
<1>9. flatten = [i \in 1 .. n |-> Of(flatten, i)]
  BY <1>1, <1>8
<1>10. \A i \in 1 .. n : flatten[i] = IF i = 1 THEN seqs[i] ELSE flatten[i - 1] \o seqs[i]
  <2>1. \A i \in 1 .. n : flatten[i] = Of(flatten, i)
    BY <1>9
  <2> QED
    BY <2>1, Zenon DEF Of
<1>11. flatten[1] = seqs[1] /\ \A m \in 2 .. n : flatten[m] = flatten[m - 1] \o seqs[m]
  <2>1. 1 \in 1 .. n
    OBVIOUS
  <2>2. flatten[1] = seqs[1]
    BY <1>10, <2>1, Zenon
  <2>3. ASSUME NEW m \in 2 .. n PROVE flatten[m] = flatten[m - 1] \o seqs[m]
    <3>1. m \in 1 .. n /\ m # 1
      OBVIOUS
    <3> QED
      BY <1>10, <3>1, Zenon
  <2> QED
    BY <2>2, <2>3
<1>12. AreJoined(flatten, n, seqs)
  BY <1>11, Zenon DEF AreJoined
<1> QED
  BY <1>2, <1>12, Zenon

\* What is joined of sequences has their elements.
LEMMA JoinedTyped ==
  ASSUME NEW T, NEW n \in Nat, NEW seqs \in [1 .. n -> Seq(T)]
  PROVE  FlattenSeq(seqs) \in Seq(T)
<1>1. Len(seqs) = n
  <2>1. seqs \in Seq(Seq(T))
    OBVIOUS
  <2> QED
    BY <2>1
<1>2. CASE n = 0
  <2>1. FlattenSeq(seqs) = seqs
    BY <1>1, <1>2 DEF FlattenSeq
  <2>2. seqs \in Seq(T)
    BY <1>2
  <2> QED
    BY <2>1, <2>2
<1>3. CASE n # 0
  <2>1. PICK f : AreJoined(f, n, seqs) /\ FlattenSeq(seqs) = f[n]
    BY <1>1, <1>3, JoinedInTurn, Zenon
  <2>2. FlattenSeq(seqs) = f[n] /\ f[1] = seqs[1] /\ \A m \in 2 .. n : f[m] = f[m - 1] \o seqs[m]
    BY <2>1, Zenon DEF AreJoined
  <2> DEFINE Done == {m \in 0 .. n : m # 0 => f[m] \in Seq(T)}
  <2>3. 0 \in Done
    OBVIOUS
  <2>4. ASSUME NEW m \in 1 .. n, m - 1 \in Done PROVE m \in Done
    <3>1. CASE m = 1
      <4>1. f[m] \in Seq(T)
        BY <1>3, <2>2, <3>1
      <4> QED
        BY <4>1
    <3>2. CASE m # 1
      <4>1. m - 1 # 0 /\ m \in 2 .. n
        BY <3>2
      <4>2. f[m - 1] \in Seq(T) /\ seqs[m] \in Seq(T)
        BY <2>4, <4>1
      <4>3. f[m] = f[m - 1] \o seqs[m]
        BY <2>2, <4>1
      <4>4. f[m - 1] \o seqs[m] \in Seq(T)
        BY <4>2
      <4>5. f[m] \in Seq(T)
        BY <4>3, <4>4, Zenon
      <4> QED
        BY <4>5
    <3> QED
      BY <3>1, <3>2
  <2>5. n \in Done
    <3> HIDE DEF Done
    <3>1. \A m \in 0 .. n : m \in Done
      BY <2>3, <2>4, Induct
    <3> QED
      BY <3>1
  <2> QED
    BY <1>3, <2>2, <2>5
<1> QED
  BY <1>2, <1>3

-----------------------------------------------------------------------------
(* The root of a guide *)

\* Vectors that are scaled are vectors.
LEMMA TimesTyped ==
  ASSUME NEW a \in Coordinates, NEW s \in Int
  PROVE  Times(a, s) \in Coordinates
<1>1. PICK x \in Int, y \in Int, z \in Int : x = a[1] /\ y = a[2] /\ z = a[3]
  BY DEF Coordinates
<1>2. x * s \in Int /\ y * s \in Int /\ z * s \in Int
  OBVIOUS
<1>3. PICK p \in Int, q \in Int, r \in Int : p = x * s /\ q = y * s /\ r = z * s
  BY <1>2
<1>4. <<p, q, r>> \in [1 .. 3 -> Int]
  OBVIOUS
<1> QED
  BY <1>1, <1>3, <1>4, Zenon DEF Times, Coordinates

\* A direction is one whatever it is taken from.
LEMMA NormalizeTyped ==
  ASSUME NEW a
  PROVE  Normalize(a) \in Coordinates
<1>1. \A x : Sign(x) \in Int
  BY DEF Sign
<1>2. PICK p \in Int, q \in Int, r \in Int : p = Sign(a[1]) /\ q = Sign(a[2]) /\ r = Sign(a[3])
  BY <1>1
<1>3. <<p, q, r>> \in [1 .. 3 -> Int] /\ <<0, 1, 0>> \in [1 .. 3 -> Int]
  OBVIOUS
<1> QED
  BY <1>2, <1>3, Zenon DEF Normalize, Coordinates

\* The middle of points is a point.
LEMMA SharedTyped ==
  ASSUME NEW n \in Nat \ {0}, NEW vectors \in [1 .. n -> Coordinates]
  PROVE  [i \in 1 .. 3 |-> VectorSum(vectors)[i] \div Len(vectors)] \in Coordinates
<1>1. Len(vectors) = n
  <2>1. vectors \in Seq(Coordinates)
    OBVIOUS
  <2> QED
    BY <2>1
<1>2. PICK sum \in Coordinates : sum = VectorSum(vectors)
  BY VectorSumTyped
<1>3. \A i \in 1 .. 3 : sum[i] \div n \in Int
  <2> TAKE i \in 1 .. 3
  <2>1. PICK x \in Int : x = sum[i]
    BY DEF Coordinates
  <2>2. x \div n \in Int
    OBVIOUS
  <2> QED
    BY <2>1, <2>2
<1>4. [i \in 1 .. 3 |-> sum[i] \div n] \in [1 .. 3 -> Int]
  BY <1>3
<1> QED
  BY <1>1, <1>2, <1>4, Zenon DEF Coordinates

\* Where PTEX faces are on a mesh.
PtexPlaces(mesh) == [face : 0 .. Len(mesh.counts) - 1, quadrant : Int, count : Int]

\* The PTEX faces of a surface are faces of it.
LEMMA PtexFacesTyped ==
  ASSUME NEW mesh, IsSurface(mesh)
  PROVE  PtexFaces(mesh) \in Seq(PtexPlaces(mesh))
<1>1. PICK counts \in Seq(Int) : counts = mesh.counts
  BY DEF IsSurface
<1>2. PICK n \in Nat : n = Len(counts) /\ DOMAIN counts = 1 .. n
  OBVIOUS
<1> DEFINE Count(i) == IF counts[i] = 4 THEN 1 ELSE counts[i]
           Quads(i) == [q \in 1 .. Count(i) |-> [face |-> i - 1, quadrant |-> q - 1, count |-> Count(i)]]
<1>3. ASSUME NEW i \in 1 .. n PROVE Quads(i) \in Seq(PtexPlaces(mesh))
  <2>1. PICK k \in Int : k = Count(i) /\ k \in Nat
    <3>1. \A f \in DOMAIN counts : counts[f] >= 3
      BY <1>1, Zenon DEF IsSurface
    <3>2. PICK x \in Int : x = counts[i]
      BY <1>2
    <3>3. x >= 3
      BY <1>2, <3>1, <3>2
    <3> QED
      BY <3>2, <3>3
  <2>2. i - 1 \in 0 .. Len(mesh.counts) - 1
    BY <1>1, <1>2
  <2>3. \A q \in 1 .. k : [face |-> i - 1, quadrant |-> q - 1, count |-> k] \in PtexPlaces(mesh)
    BY <2>2 DEF PtexPlaces
  <2>4. PICK T : T = PtexPlaces(mesh)
    OBVIOUS
  <2> DEFINE Quad(q) == [face |-> i - 1, quadrant |-> q - 1, count |-> k]
  <2>5. \A q \in 1 .. k : Quad(q) \in T
    BY <2>3, <2>4
  <2> HIDE DEF Quad
  <2>6. [q \in 1 .. k |-> Quad(q)] \in Seq(T)
    <3>1. PICK m \in Nat : m = k
      BY <2>1
    <3>2. [q \in 1 .. m |-> Quad(q)] \in [1 .. m -> T]
      BY <2>5, <3>1
    <3>3. \A f \in [1 .. m -> T] : f \in Seq(T)
      OBVIOUS
    <3> QED
      BY <3>1, <3>2, <3>3, Zenon
  <2> QED
    BY <2>1, <2>4, <2>6, Zenon DEF Quad
<1> DEFINE parts == [i \in 1 .. n |-> Quads(i)]
<1>4. parts \in [1 .. n -> Seq(PtexPlaces(mesh))]
  <2> HIDE DEF Quads
  <2> QED
    BY <1>3
<1>5. PtexFaces(mesh) = FlattenSeq(parts)
  BY <1>1, <1>2, Zenon DEF PtexFaces
<1> HIDE DEF parts
<1>6. FlattenSeq(parts) \in Seq(PtexPlaces(mesh))
  BY <1>4, JoinedTyped
<1> QED
  BY <1>5, <1>6

\* Their corners are points.
LEMMA PtexCornersTyped ==
  ASSUME NEW mesh, IsSurface(mesh), NEW location \in PtexPlaces(mesh)
  PROVE  PtexCorners(mesh, mesh.positions, location) \in [1 .. 4 -> Coordinates]
<1> DEFINE Point(c) == At(mesh.positions, Corner(mesh, location.face, c))
<1>1. location.face \in 0 .. Len(mesh.counts) - 1 /\ location.quadrant \in Int
  BY DEF PtexPlaces
<1>2. \A c \in Int : Point(c) \in Coordinates
  BY <1>1, PointIsThere
<1>3. PICK counts \in Seq(Int) : counts = mesh.counts
  BY DEF IsSurface
<1>4. PICK n \in Nat \ {0} : n = At(mesh.counts, location.face)
  <2>1. location.face + 1 \in 1 .. Len(counts)
    BY <1>1, <1>3
  <2>2. counts[location.face + 1] \in Int /\ counts[location.face + 1] >= 3
    <3>1. \A f \in DOMAIN counts : counts[f] >= 3
      BY <1>3 DEF IsSurface
    <3> QED
      BY <2>1, <3>1
  <2> QED
    BY <1>3, <2>2 DEF At
<1>5. PICK own \in Int : own = n - 1 - location.quadrant
  BY <1>1
<1> DEFINE Mean(vectors) == [i \in 1 .. 3 |-> VectorSum(vectors)[i] \div Len(vectors)]
<1> HIDE DEF Point
<1>6. \A a, b \in Int : Mean(<<Point(a), Point(b)>>) \in Coordinates
  <2> TAKE a, b \in Int
  <2>1. PICK pair \in [1 .. 2 -> Coordinates] : pair = <<Point(a), Point(b)>>
    <3>1. PICK x \in Coordinates, y \in Coordinates : x = Point(a) /\ y = Point(b)
      BY <1>2
    <3>2. <<x, y>> \in [1 .. 2 -> Coordinates]
      OBVIOUS
    <3> QED
      BY <3>1, <3>2, Zenon
  <2>2. 2 \in Nat \ {0}
    OBVIOUS
  <2>3. Mean(pair) \in Coordinates
    BY <2>2, SharedTyped, Zenon
  <2> QED
    BY <2>1, <2>3
<1>7. Mean([c \in 1 .. n |-> Point(c - 1)]) \in Coordinates
  <2>1. \A c \in 1 .. n : Point(c - 1) \in Coordinates
    BY <1>2
  <2>2. PICK all \in [1 .. n -> Coordinates] : all = [c \in 1 .. n |-> Point(c - 1)]
    BY <2>1
  <2>3. Mean(all) \in Coordinates
    BY SharedTyped
  <2> QED
    BY <2>2, <2>3
<1>8. own \in Int /\ own + 1 \in Int /\ own + n - 1 \in Int
  OBVIOUS
<1> DEFINE split == << Mean(<<Point(own), Point(own + 1)>>), Mean([c \in 1 .. n |-> Point(c - 1)]),
                       Mean(<<Point(own), Point(own + n - 1)>>), Point(own) >>
<1>9. PtexCorners(mesh, mesh.positions, location) = IF location.count = 1 THEN [c \in 1 .. 4 |-> Point(c - 1)] ELSE split
  BY <1>4, <1>5, Zenon DEF PtexCorners, Point
<1>10. split \in [1 .. 4 -> Coordinates]
  <2>1. PICK p \in Coordinates : p = Mean(<<Point(own), Point(own + 1)>>)
    BY <1>6, <1>8
  <2>2. PICK q \in Coordinates : q = Mean([c \in 1 .. n |-> Point(c - 1)])
    BY <1>7
  <2>3. PICK r \in Coordinates : r = Mean(<<Point(own), Point(own + n - 1)>>)
    BY <1>6, <1>8
  <2>4. PICK s \in Coordinates : s = Point(own)
    BY <1>2
  <2>5. <<p, q, r, s>> \in [1 .. 4 -> Coordinates]
    OBVIOUS
  <2> HIDE DEF Mean
  <2> QED
    BY <2>1, <2>2, <2>3, <2>4, <2>5, Zenon
<1>11. [c \in 1 .. 4 |-> Point(c - 1)] \in [1 .. 4 -> Coordinates]
  <2>1. \A c \in 1 .. 4 : Point(c - 1) \in Coordinates
    BY <1>2
  <2> QED
    BY <2>1
<1> HIDE DEF split
<1> QED
  BY <1>9, <1>10, <1>11

\* The faces that a patch may have are those of its surface.
LEMMA SurfaceCornersTyped ==
  ASSUME NEW mesh, IsSurface(mesh), NEW patch, NEW id \in Nat,
         id < IF Subdivided(patch) THEN Len(PtexFaces(mesh)) ELSE Len(mesh.counts)
  PROVE  SurfaceCorners(patch, mesh, mesh.positions, id) \in [1 .. 4 -> Coordinates]
<1>1. CASE Subdivided(patch)
  <2>1. PICK faces \in Seq(PtexPlaces(mesh)) : faces = PtexFaces(mesh)
    BY PtexFacesTyped
  <2>2. id + 1 \in 1 .. Len(faces)
    BY <1>1, <2>1
  <2>3. At(PtexFaces(mesh), id) \in PtexPlaces(mesh)
    BY <2>1, <2>2 DEF At
  <2>4. PtexCorners(mesh, mesh.positions, At(PtexFaces(mesh), id)) \in [1 .. 4 -> Coordinates]
    BY <2>3, PtexCornersTyped
  <2> QED
    BY <1>1, <2>4, Zenon DEF SurfaceCorners
<1>2. CASE ~Subdivided(patch)
  <2>1. PICK n \in Nat : n = Len(mesh.counts)
    <3>1. mesh.counts \in Seq(Int)
      BY DEF IsSurface
    <3> QED
      BY <3>1
  <2>2. id \in 0 .. Len(mesh.counts) - 1
    BY <1>2, <2>1
  <2>3. \A c \in 1 .. 4 : At(mesh.positions, Corner(mesh, id, c - 1)) \in Coordinates
    <3> TAKE c \in 1 .. 4
    <3>1. c - 1 \in Int
      OBVIOUS
    <3> QED
      BY <2>2, <3>1, PointIsThere
  <2>4. [c \in 1 .. 4 |-> At(mesh.positions, Corner(mesh, id, c - 1))] \in [1 .. 4 -> Coordinates]
    BY <2>3
  <2> QED
    BY <1>2, <2>4, Zenon DEF SurfaceCorners
<1> QED
  BY <1>1, <1>2

\* A place between corners is a point.
LEMMA BilinearTyped ==
  ASSUME NEW c \in [1 .. 4 -> Coordinates], NEW uv, uv[1] \in Int, uv[2] \in Int
  PROVE  Bilinear(c, uv) \in Coordinates
<1>1. PICK u \in Int, v \in Int, g \in Nat \ {0} : u = uv[1] /\ v = Grid - uv[2] /\ g = Grid
  BY ClassicFilesAssumption
<1>2. PICK p \in Int, q \in Int, r \in Int, s \in Int :
        p = (g - u) * (g - v) /\ q = u * (g - v) /\ r = u * v /\ s = (g - u) * v
  OBVIOUS
<1>3. c[1] \in Coordinates /\ c[2] \in Coordinates /\ c[3] \in Coordinates /\ c[4] \in Coordinates
  OBVIOUS
<1>4. PICK sum \in Coordinates : sum = Plus(Plus(Times(c[1], p), Times(c[2], q)), Plus(Times(c[3], r), Times(c[4], s)))
  <2>1. Times(c[1], p) \in Coordinates /\ Times(c[2], q) \in Coordinates /\ Times(c[3], r) \in Coordinates
        /\ Times(c[4], s) \in Coordinates
    BY <1>3, TimesTyped
  <2>2. Plus(Times(c[1], p), Times(c[2], q)) \in Coordinates /\ Plus(Times(c[3], r), Times(c[4], s)) \in Coordinates
    BY <2>1, PlusTyped
  <2> QED
    BY <2>2, PlusTyped
<1>5. PICK k \in Nat \ {0} : k = g * g
  <2>1. g * g \in Nat \ {0}
    OBVIOUS
  <2> QED
    BY <2>1
<1>6. <<sum[1] \div k, sum[2] \div k, sum[3] \div k>> \in [1 .. 3 -> Int]
  <2>1. PICK x \in Int, y \in Int, z \in Int : x = sum[1] /\ y = sum[2] /\ z = sum[3]
    BY DEF Coordinates
  <2>2. x \div k \in Int /\ y \div k \in Int /\ z \div k \in Int
    OBVIOUS
  <2> QED
    BY <2>1, <2>2
<1>7. Bilinear(c, uv) = <<sum[1] \div k, sum[2] \div k, sum[3] \div k>>
  BY <1>1, <1>2, <1>4, <1>5, Zenon DEF Bilinear
<1> QED
  BY <1>6, <1>7, Zenon DEF Coordinates

\* A guide that is imported has points, as many as it was written with.
LEMMA ImportedGuideTyped ==
  ASSUME NEW mesh, IsSurface(mesh), NEW patch, IsPatch(patch), NEW g \in Range(patch.guides),
         GuideFits(patch, mesh, g), NEW first, NEW resolution,
         \A f \in Range(patch.faces) : f < IF Subdivided(patch) THEN Len(PtexFaces(mesh)) ELSE Len(mesh.counts)
  PROVE  LET guide == ImportedGuide(patch, mesh, g, first, resolution)
         IN "cvs" \in DOMAIN guide /\ guide.cvs \in Seq(Coordinates)
<1>1. g \in PatchGuides
  BY DEF IsPatch, Range
<1>2. PICK cvs \in Seq(Coordinates) : cvs = g.cvs
  BY <1>1 DEF PatchGuides
<1>3. g.face \in Range(patch.faces) /\ g.uv[1] \in 0 .. Grid /\ g.uv[2] \in 0 .. Grid
  BY Zenon DEF GuideFits
<1>4. g.face \in Nat /\ g.face < IF Subdivided(patch) THEN Len(PtexFaces(mesh)) ELSE Len(mesh.counts)
  <2>1. g.face \in Nat
    BY <1>1 DEF PatchGuides
  <2> QED
    BY <1>3, <2>1, Zenon
<1>5. PICK c \in [1 .. 4 -> Coordinates] : c = SurfaceCorners(patch, mesh, mesh.positions, g.face)
  BY <1>4, SurfaceCornersTyped
<1>6. PICK root \in Coordinates : root = Bilinear(c, g.uv)
  <2>1. g.uv[1] \in Int /\ g.uv[2] \in Int
    BY <1>3, ClassicFilesAssumption
  <2> QED
    BY <2>1, BilinearTyped
<1>7. PICK tangent \in Coordinates, normal \in Coordinates, binormal \in Coordinates :
        LET frame == SurfaceFrame(AlongU(c, g.uv), AlongV(c, g.uv))
        IN tangent = frame.tangent /\ normal = frame.normal /\ binormal = frame.binormal
  BY NormalizeTyped DEF SurfaceFrame
<1> DEFINE InFrame(cv) == Plus(root, Plus(Times(tangent, cv[1]), Plus(Times(normal, cv[2]), Times(binormal, cv[3]))))
<1>8. \A k \in DOMAIN cvs : InFrame(cvs[k]) \in Coordinates
  <2> TAKE k \in DOMAIN cvs
  <2>1. cvs[k][1] \in Int /\ cvs[k][2] \in Int /\ cvs[k][3] \in Int
    <3>1. cvs[k] \in Coordinates
      OBVIOUS
    <3> QED
      BY <3>1 DEF Coordinates
  <2>2. /\ Times(tangent, cvs[k][1]) \in Coordinates /\ Times(normal, cvs[k][2]) \in Coordinates
        /\ Times(binormal, cvs[k][3]) \in Coordinates
    BY <2>1, TimesTyped
  <2>3. Plus(Times(normal, cvs[k][2]), Times(binormal, cvs[k][3])) \in Coordinates
    BY <2>2, PlusTyped
  <2>4. Plus(Times(tangent, cvs[k][1]), Plus(Times(normal, cvs[k][2]), Times(binormal, cvs[k][3]))) \in Coordinates
    BY <2>2, <2>3, PlusTyped
  <2> QED
    BY <2>4, PlusTyped
<1>9. [k \in DOMAIN cvs |-> InFrame(cvs[k])] \in Seq(Coordinates)
  <2> HIDE DEF InFrame
  <2> QED
    BY <1>8
<1>10. PICK guide : guide = ImportedGuide(patch, mesh, g, first, resolution)
  OBVIOUS
<1>11. "cvs" \in DOMAIN guide /\ guide.cvs = [k \in DOMAIN cvs |-> InFrame(cvs[k])]
  BY <1>2, <1>5, <1>6, <1>7, <1>10 DEF ImportedGuide
<1> QED
  BY <1>9, <1>10, <1>11, Zenon

-----------------------------------------------------------------------------
(* The guides of an import *)

\* Guides that have points.
HavePoints(guides) ==
  /\ guides \in Seq(Range(guides))
  /\ \A g \in DOMAIN guides : "cvs" \in DOMAIN guides[g] /\ guides[g].cvs \in Seq(Coordinates)

\* Guides that are joined have points.
LEMMA PointsOfBoth ==
  ASSUME NEW a, HavePoints(a), NEW b, HavePoints(b)
  PROVE  HavePoints(a \o b)
<1>1. PICK T : T = Range(a) \cup Range(b)
  OBVIOUS
<1>2. a \in Seq(T) /\ b \in Seq(T)
  <2>1. a \in Seq(Range(a)) /\ b \in Seq(Range(b))
    BY Zenon DEF HavePoints
  <2>2. Range(a) \subseteq T /\ Range(b) \subseteq T
    BY <1>1
  <2>3. \A X, Y, s : X \subseteq Y /\ s \in Seq(X) => s \in Seq(Y)
    OBVIOUS
  <2> QED
    BY <2>1, <2>2, <2>3, Zenon
<1>3. PICK m \in Nat, n \in Nat : m = Len(a) /\ n = Len(b) /\ DOMAIN a = 1 .. m /\ DOMAIN b = 1 .. n
  BY <1>2
<1>4. PICK c : c = a \o b
  OBVIOUS
<1>5. DOMAIN c = 1 .. m + n /\ \A i \in 1 .. m + n : c[i] = IF i <= m THEN a[i] ELSE b[i - m]
  BY <1>2, <1>3, <1>4, ConcatProperties
<1>6. c \in Seq(Range(c))
  <2>1. c \in Seq(T)
    BY <1>2, <1>4
  <2>2. \A i \in DOMAIN c : c[i] \in Range(c)
    BY Zenon DEF Range
  <2> QED
    BY <2>1, <2>2
<1>7. ASSUME NEW i \in DOMAIN c PROVE "cvs" \in DOMAIN c[i] /\ c[i].cvs \in Seq(Coordinates)
  <2>1. i \in 1 .. m + n
    BY <1>5
  <2>2. CASE i <= m
    <3>1. c[i] = a[i] /\ i \in DOMAIN a
      BY <1>3, <1>5, <2>1, <2>2
    <3> QED
      BY <3>1, Zenon DEF HavePoints
  <2>3. CASE ~(i <= m)
    <3>1. c[i] = b[i - m] /\ i - m \in DOMAIN b
      BY <1>3, <1>5, <2>1, <2>3
    <3> QED
      BY <3>1, Zenon DEF HavePoints
  <2> QED
    BY <2>2, <2>3
<1>8. HavePoints(c)
  BY <1>6, <1>7, Zenon DEF HavePoints
<1> QED
  BY <1>4, <1>8

\* An import has guides that have points.
IsImport(in) == "guides" \in DOMAIN in /\ HavePoints(in.guides)

\* An import begins as one.
LEMMA NothingIsImport == IsImport(EmptyInput)
<1>1. EmptyInput.guides = <<>> /\ "guides" \in DOMAIN EmptyInput
  BY DEF EmptyInput
<1>2. HavePoints(<<>>)
  BY DEF HavePoints, Range
<1> QED
  BY <1>1, <1>2, Zenon DEF IsImport

\* A patch adds its guides.
LEMMA PatchIsAdded ==
  ASSUME NEW in, IsImport(in), NEW patch, IsPatch(patch), NEW mesh, IsSurface(mesh), NEW limits,
         \A g \in Range(patch.guides) : GuideFits(patch, mesh, g),
         \A f \in Range(patch.faces) : f < IF Subdivided(patch) THEN Len(PtexFaces(mesh)) ELSE Len(mesh.counts)
  PROVE  IsImport(AddPatch(in, patch, mesh, limits))
<1> DEFINE perFace == [i \in DOMAIN patch.faces |-> PatchTriangles(patch, mesh, i, Len(in.positions), limits.resolution)]
           First(i) == Len(in.triangles) + Len(FlattenSeq(SubSeq(perFace, 1, i - 1)))
           OfFace(id) == CHOOSE i \in DOMAIN patch.faces :
                           patch.faces[i] = id /\ \A j \in DOMAIN patch.faces : patch.faces[j] = id => i <= j
           Guide(k) == ImportedGuide(patch, mesh, patch.guides[k], First(OfFace(patch.guides[k].face)), limits.resolution)
           guides == [k \in DOMAIN patch.guides |-> Guide(k)]
<1>1. PICK now : now = AddPatch(in, patch, mesh, limits)
  OBVIOUS
<1>2. "guides" \in DOMAIN now /\ now.guides = in.guides \o guides
  <2> DEFINE Made(a, b, c, d, e, f, g, h) ==
               [positions |-> a, normals |-> b, reference |-> c, referenceNormals |-> d, texcoords |-> <<>>,
                triangles |-> e, faces |-> f, surfaces |-> g, guides |-> h]
  <2>1. \A a, b, c, d, e, f, g, h : "guides" \in DOMAIN Made(a, b, c, d, e, f, g, h) /\ Made(a, b, c, d, e, f, g, h).guides = h
    OBVIOUS
  <2>2. PICK joined : joined = in.guides \o guides
    OBVIOUS
  <2>3. \E a, b, c, d, e, f, g : now = Made(a, b, c, d, e, f, g, joined)
    BY <1>1, <2>2, Zenon DEF AddPatch
  <2> HIDE DEF Made, guides
  <2>4. "guides" \in DOMAIN now /\ now.guides = joined
    BY <2>1, <2>3
  <2> QED
    BY <2>2, <2>4
<1>3. \A k \in DOMAIN patch.guides : "cvs" \in DOMAIN Guide(k) /\ Guide(k).cvs \in Seq(Coordinates)
  <2> TAKE k \in DOMAIN patch.guides
  <2>1. patch.guides[k] \in Range(patch.guides)
    BY Zenon DEF Range
  <2>2. GuideFits(patch, mesh, patch.guides[k])
    BY <2>1, Zenon
  <2>3. PICK g, first : g \in Range(patch.guides) /\ g = patch.guides[k] /\ first = First(OfFace(patch.guides[k].face))
    BY <2>1
  <2>4. "cvs" \in DOMAIN ImportedGuide(patch, mesh, g, first, limits.resolution)
        /\ ImportedGuide(patch, mesh, g, first, limits.resolution).cvs \in Seq(Coordinates)
    BY <2>2, <2>3, ImportedGuideTyped, Zenon
  <2> HIDE DEF First, OfFace
  <2> QED
    BY <2>3, <2>4, Zenon
<1>4. PICK n \in Nat : DOMAIN patch.guides = 1 .. n
  BY DEF IsPatch
<1> HIDE DEF Guide
<1>5. HavePoints(guides)
  <2>1. guides \in Seq(Range(guides))
    <3>1. PICK f : f = guides
      OBVIOUS
    <3>2. f \in [1 .. n -> Range(f)]
      BY <1>4, <3>1 DEF Range
    <3>3. \A X, h : h \in [1 .. n -> X] => h \in Seq(X)
      OBVIOUS
    <3> QED
      BY <3>1, <3>2, <3>3, Zenon
  <2>2. \A g \in DOMAIN guides : guides[g] = Guide(g) /\ g \in DOMAIN patch.guides
    OBVIOUS
  <2> QED
    BY <1>3, <2>1, <2>2, Zenon DEF HavePoints
<1> HIDE DEF guides
<1>6. HavePoints(in.guides \o guides)
  <2>1. HavePoints(in.guides)
    BY Zenon DEF IsImport
  <2> QED
    BY <1>5, <2>1, PointsOfBoth, Zenon
<1> QED
  BY <1>1, <1>2, <1>6, Zenon DEF IsImport

\* The patches are added one after another.
AreImports(steps, n, patches, meshes, limits) ==
  /\ steps[0] = EmptyInput
  /\ \A m \in 1 .. n : steps[m] = AddPatch(steps[m - 1], patches[m], meshes[m], limits)

\* An import is what its patches make of it, one after the other.
LEMMA PatchesInTurn ==
  ASSUME NEW n \in Nat, NEW patches, DOMAIN patches = 1 .. n, NEW meshes, NEW limits
  PROVE  \E steps : AreImports(steps, n, patches, meshes, limits) /\ AddPatches(patches, meshes, limits) = steps[n]
<1> DEFINE turns == [m \in 1 .. n |-> m]
<1>1. PICK c : c = [turns |-> turns, meshes |-> meshes, limits |-> limits]
  OBVIOUS
<1> DEFINE Of(g, s) == IF s = {} THEN EmptyInput
                       ELSE AddPatch(g[s \ {Max(s)}], patches[turns[Max(s)]], meshes[turns[Max(s)]], limits)
           Step(g, s) == IF s = {} THEN EmptyInput ELSE FoldStep("patch", patches, c, g[s \ {Max(s)}], Max(s))
<1>2. PICK f : f = CHOOSE g : g = [s \in SUBSET (DOMAIN turns) |-> Of(g, s)]
  OBVIOUS
<1>3. AddPatches(patches, meshes, limits) = f[DOMAIN turns]
  BY <1>2 DEF AddPatches, FoldLeft, MapThenFoldSet
<1>4. DOMAIN turns = 1 .. n
  OBVIOUS
<1> HIDE DEF turns
<1>5. \A g, s : Of(g, s) = Step(g, s)
  <2>1. c.turns = turns /\ c.meshes = meshes /\ c.limits = limits
    BY <1>1
  <2> QED
    BY <2>1, Zenon DEF FoldStep
<1>6. \A g : FoldsTo(g, n, EmptyInput, "patch", patches, c) <=> g = [s \in SUBSET (1 .. n) |-> Step(g, s)]
  BY Zenon DEF FoldsTo
<1> HIDE DEF Of, Step
<1>7. \A g : [s \in SUBSET (1 .. n) |-> Of(g, s)] = [s \in SUBSET (1 .. n) |-> Step(g, s)]
  BY <1>5, Zenon
<1>8. f = CHOOSE g : g = [s \in SUBSET (1 .. n) |-> Of(g, s)]
  BY <1>2, <1>4
<1>9. \E g : g = [s \in SUBSET (1 .. n) |-> Of(g, s)]
  <2>1. PICK g : FoldsTo(g, n, EmptyInput, "patch", patches, c)
    BY FoldIsThere
  <2>2. g = [s \in SUBSET (1 .. n) |-> Step(g, s)]
    BY <1>6, <2>1, Zenon
  <2>3. [s \in SUBSET (1 .. n) |-> Of(g, s)] = [s \in SUBSET (1 .. n) |-> Step(g, s)]
    BY <1>7, Zenon
  <2>4. g = [s \in SUBSET (1 .. n) |-> Of(g, s)]
    BY <2>2, <2>3
  <2> QED
    BY <2>4
<1>10. f = [s \in SUBSET (1 .. n) |-> Of(f, s)]
  BY <1>8, <1>9
<1>11. FoldsTo(f, n, EmptyInput, "patch", patches, c)
  BY <1>6, <1>7, <1>10, Zenon
<1>12. PICK steps : AreSteps(steps, n, EmptyInput, "patch", patches, c) /\ f[1 .. n] = steps[n]
  BY <1>11, FoldBySteps
<1>13. AddPatches(patches, meshes, limits) = steps[n]
  BY <1>3, <1>4, <1>12
<1>14. ASSUME NEW m \in 1 .. n PROVE steps[m] = AddPatch(steps[m - 1], patches[m], meshes[m], limits)
  <2>1. PICK turn : turn = c.turns[m]
    OBVIOUS
  <2>2. turn = m
    <3>1. c.turns = turns
      BY <1>1
    <3> QED
      BY <2>1, <3>1 DEF turns
  <2>3. c.meshes = meshes /\ c.limits = limits
    BY <1>1
  <2>4. steps[m] = FoldStep("patch", patches, c, steps[m - 1], m)
    BY <1>12, Zenon DEF AreSteps
  <2>5. \A x : FoldStep("patch", patches, c, x, m) = AddPatch(x, patches[turn], c.meshes[turn], c.limits)
    BY <2>1, Zenon DEF FoldStep
  <2> QED
    BY <2>2, <2>3, <2>4, <2>5
<1>15. AreImports(steps, n, patches, meshes, limits)
  <2>1. steps[0] = EmptyInput
    BY <1>12, Zenon DEF AreSteps
  <2> QED
    BY <1>14, <2>1, Zenon DEF AreImports
<1> QED
  BY <1>13, <1>15, Zenon

\* An import that is not refused has guides with points.
LEMMA ImportTyped ==
  ASSUME NEW objects, IsArchive(objects), NEW patches, patches \in Seq(Range(patches)), \A p \in Range(patches) : IsPatch(p),
         NEW sel, sel.time \in Int, NEW limits, BuildAssetInput(patches, objects, sel, limits) # Refused
  PROVE  IsImport(BuildAssetInput(patches, objects, sel, limits))
<1>1. PICK meshes : meshes = [i \in DOMAIN patches |-> PatchMesh(objects, patches[i].name, sel)]
  OBVIOUS
<1>2. /\ \A p \in Range(patches) : PatchFits(p, objects, sel, limits)
      /\ BuildAssetInput(patches, objects, sel, limits) = AddPatches(patches, meshes, limits)
  BY <1>1, Zenon DEF BuildAssetInput
<1>3. PICK n \in Nat : DOMAIN patches = 1 .. n
  OBVIOUS
<1>4. PICK steps : AreImports(steps, n, patches, meshes, limits) /\ AddPatches(patches, meshes, limits) = steps[n]
  BY <1>3, PatchesInTurn
<1>5. /\ steps[0] = EmptyInput
      /\ \A m \in 1 .. n : steps[m] = AddPatch(steps[m - 1], patches[m], meshes[m], limits)
  BY <1>4, Zenon DEF AreImports
<1>6. ASSUME NEW m \in 1 .. n, NEW in, IsImport(in) PROVE IsImport(AddPatch(in, patches[m], meshes[m], limits))
  <2>1. PICK patch \in Range(patches) : patch = patches[m]
    <3>1. patches[m] \in Range(patches)
      BY <1>3, Zenon DEF Range
    <3> QED
      BY <3>1
  <2>2. PICK mesh : mesh = PatchMesh(objects, patch.name, sel)
    OBVIOUS
  <2>3. meshes[m] = mesh
    BY <1>1, <1>3, <2>1, <2>2
  <2>4. PatchFits(patch, objects, sel, limits) /\ IsPatch(patch)
    BY <1>2
  <2>5. IsSurface(mesh)
    <3>1. PatchObjectFits(objects, patch.name, sel, limits)
      BY <2>4, Zenon DEF PatchFits
    <3> QED
      BY <2>2, <3>1, PatchIsSurface
  <2>6. /\ \A g \in Range(patch.guides) : GuideFits(patch, mesh, g)
        /\ \A f \in Range(patch.faces) : f < IF Subdivided(patch) THEN Len(PtexFaces(mesh)) ELSE Len(mesh.counts)
    BY <2>2, <2>4, Zenon DEF PatchFits
  <2>7. IsImport(AddPatch(in, patch, mesh, limits))
    BY <1>6, <2>4, <2>5, <2>6, PatchIsAdded, Zenon
  <2> QED
    BY <2>1, <2>3, <2>7
<1> DEFINE T == {m \in 0 .. n : IsImport(steps[m])}
<1>7. 0 \in T
  BY <1>5, NothingIsImport
<1>8. ASSUME NEW m \in 1 .. n, m - 1 \in T PROVE m \in T
  <2>1. IsImport(steps[m - 1])
    BY <1>8
  <2>2. IsImport(steps[m])
    BY <1>5, <1>6, <2>1, Zenon
  <2> QED
    BY <2>2
<1>9. n \in T
  <2> HIDE DEF T
  <2>1. \A m \in 0 .. n : m \in T
    BY <1>7, <1>8, Induct
  <2> QED
    BY <2>1
<1> QED
  BY <1>2, <1>4, <1>9, Zenon

\* Guides that turn keep their points.
LEMMA TurnedTyped ==
  ASSUME NEW guides, HavePoints(guides)
  PROVE  LET turned == [i \in DOMAIN guides |-> TurnedGuide(guides, i)]
         IN HavePoints(turned) /\ Len(turned) = Len(guides)
<1>1. PICK n \in Nat : n = Len(guides) /\ DOMAIN guides = 1 .. n
  BY DEF HavePoints
<1>2. PICK turned : turned = [i \in DOMAIN guides |-> TurnedGuide(guides, i)]
  OBVIOUS
<1>3. ASSUME NEW i \in DOMAIN guides PROVE "cvs" \in DOMAIN turned[i] /\ turned[i].cvs = guides[i].cvs
  <2>1. PICK g : g = guides[i] /\ "cvs" \in DOMAIN g
    BY DEF HavePoints
  <2>2. \A frame : "cvs" \in DOMAIN [g EXCEPT !.referenceFrame = frame] /\ [g EXCEPT !.referenceFrame = frame].cvs = g.cvs
    BY <2>1
  <2>3. TurnedGuide(guides, i) = g \/ \E frame : TurnedGuide(guides, i) = [g EXCEPT !.referenceFrame = frame]
    BY <2>1, Zenon DEF TurnedGuide
  <2>4. turned[i] = TurnedGuide(guides, i)
    BY <1>2
  <2> QED
    BY <2>1, <2>2, <2>3, <2>4, Zenon
<1>4. turned \in Seq(Range(turned)) /\ Len(turned) = n
  <2>1. DOMAIN turned = 1 .. n
    BY <1>1, <1>2
  <2>2. turned \in [1 .. n -> Range(turned)]
    BY <1>1, <1>2 DEF Range
  <2>3. \A X, h : h \in [1 .. n -> X] => h \in Seq(X) /\ Len(h) = n
    OBVIOUS
  <2> QED
    BY <2>2, <2>3, Zenon
<1>5. HavePoints(turned)
  <2>1. DOMAIN turned = DOMAIN guides
    BY <1>2
  <2>2. \A i \in DOMAIN guides : guides[i].cvs \in Seq(Coordinates)
    BY Zenon DEF HavePoints
  <2> QED
    BY <1>3, <1>4, <2>1, <2>2, Zenon DEF HavePoints
<1> QED
  BY <1>1, <1>2, <1>4, <1>5

-----------------------------------------------------------------------------
(* The curves of a cache *)

\* Curves that have points.
Drawn(names) == [name : names, cvs : {s \in Seq(Coordinates) : s # <<>>}]

\* The curves of an object of an archive have points, and its name.
LEMMA ObjectCurvesTyped ==
  ASSUME NEW objects, IsArchive(objects), NEW i \in Curves(objects), NEW sel, sel.time \in Int,
         CurveObjectFits(objects[i], sel), NEW names, objects[i].name \in names
  PROVE  ObjectCurves(objects, i, sel) \in Seq(Drawn(names))
<1>1. PICK o : o = objects[i]
  OBVIOUS
<1>2. i \in DOMAIN objects /\ o.kind = "curves"
  BY <1>1, Zenon DEF Curves
<1>3. IsRead(o) /\ o.kind \in {"mesh", "subd", "curves"} /\ o.times \in Seq(Int)
  <2>1. o.kind \in {"mesh", "subd", "curves"}
    BY <1>2
  <2> QED
    BY <1>1, <1>2, <2>1, Zenon DEF IsArchive, IsWalk
<1>4. PICK v : v = o.values[SelectSamples(o, sel).lower]
  OBVIOUS
<1>5. o.times # <<>> /\ TopologyStays(o, sel) /\ (\A c \in Range(v.counts) : c >= 2) /\ IndexSum(v.counts) = Len(v.positions)
  BY <1>1, <1>4, Zenon DEF CurveObjectFits
<1>6. PICK points \in Seq(Coordinates) : points = PositionsAt(o, sel) /\ Len(points) = Len(v.positions)
  BY <1>3, <1>4, <1>5, PositionsTyped, Zenon
<1>7. v \in Shapes
  BY <1>3, <1>4, <1>5, PositionsTyped, Zenon
<1>8. PICK counts \in Seq(Int) : counts = v.counts
  BY <1>7 DEF Shapes
<1>9. PICK n \in Nat : n = Len(counts) /\ DOMAIN counts = 1 .. n
  OBVIOUS
<1>10. \A c \in DOMAIN counts : counts[c] >= 2 /\ counts[c] \in Int
  <2>1. \A c \in DOMAIN counts : counts[c] \in Range(counts)
    BY Zenon DEF Range
  <2> QED
    BY <1>5, <1>8, <2>1
<1>11. PICK move \in Coordinates : move = Transform(objects, i, sel)
  BY <1>2, TransformTyped, Zenon
<1> DEFINE First(c) == IndexSum(SubSeq(counts, 1, c - 1))
           Points(c) == [k \in 1 .. counts[c] |-> Plus(points[First(c) + k], move)]
           Curve(c) == [name |-> o.name, cvs |-> Points(c)]
<1>12. ASSUME NEW c \in 1 .. n PROVE Curve(c) \in Drawn(names)
  <2>1. \A f \in DOMAIN counts : counts[f] >= 0
    BY <1>10
  <2>2. /\ IndexSum(SubSeq(counts, 1, c - 1)) \in Nat
        /\ IndexSum(SubSeq(counts, 1, c)) = IndexSum(SubSeq(counts, 1, c - 1)) + counts[c]
        /\ IndexSum(SubSeq(counts, 1, c)) <= IndexSum(counts)
    <3>1. c \in 1 .. Len(counts)
      BY <1>9
    <3> QED
      BY <2>1, <3>1, OffsetsGrow, Zenon
  <2>3. PICK a \in Nat : a = First(c)
    BY <2>2
  <2>4. PICK k \in Nat : k = counts[c] /\ k >= 2
    <3>1. counts[c] >= 2 /\ counts[c] \in Int
      BY <1>9, <1>10
    <3>2. counts[c] \in Nat
      BY <3>1
    <3> QED
      BY <3>1, <3>2
  <2>5. PICK total \in Nat : total = Len(points)
    OBVIOUS
  <2>6. a + k <= total
    BY <1>5, <1>6, <1>8, <2>2, <2>3, <2>4, <2>5
  <2>7. \A p \in 1 .. k : Plus(points[a + p], move) \in Coordinates
    <3> TAKE p \in 1 .. k
    <3>1. points[a + p] \in Coordinates
      BY <2>5, <2>6
    <3> QED
      BY <3>1, PlusTyped
  <2>8. PICK line : line = [p \in 1 .. k |-> Plus(points[a + p], move)]
    OBVIOUS
  <2>9. line \in Seq(Coordinates) /\ line # <<>>
    <3>1. line \in [1 .. k -> Coordinates]
      BY <2>7, <2>8
    <3>2. \A h \in [1 .. k -> Coordinates] : h \in Seq(Coordinates) /\ Len(h) = k
      OBVIOUS
    <3>3. line \in Seq(Coordinates) /\ Len(line) = k
      BY <3>1, <3>2, Zenon
    <3> QED
      BY <2>4, <3>3
  <2>10. Points(c) = line
    BY <2>3, <2>4, <2>8, Zenon
  <2>11. o.name \in names
    BY <1>1
  <2> HIDE DEF Points
  <2> QED
    BY <2>9, <2>10, <2>11 DEF Drawn
<1>13. ObjectCurves(objects, i, sel) = [c \in 1 .. n |-> Curve(c)]
  BY <1>1, <1>4, <1>6, <1>8, <1>9, <1>11, Zenon DEF ObjectCurves
<1> HIDE DEF Curve
<1>14. [c \in 1 .. n |-> Curve(c)] \in Seq(Drawn(names))
  <2>1. PICK T : T = Drawn(names)
    OBVIOUS
  <2>2. [c \in 1 .. n |-> Curve(c)] \in [1 .. n -> T]
    BY <1>12, <2>1
  <2>3. \A h \in [1 .. n -> T] : h \in Seq(T)
    OBVIOUS
  <2> QED
    BY <2>1, <2>2, <2>3, Zenon
<1> QED
  BY <1>13, <1>14

\* So have the curves of a cache.
LEMMA CacheCurvesTyped ==
  ASSUME NEW objects, IsArchive(objects), NEW sel, sel.time \in Int, NEW limits, CacheFits(objects, sel, limits)
  PROVE  CacheCurves(objects, sel) \in Seq(Drawn({objects[i].name : i \in DOMAIN objects}))
<1>1. PICK names : names = {objects[i].name : i \in DOMAIN objects}
  OBVIOUS
<1>2. PICK n \in Nat : DOMAIN objects = 1 .. n
  <2>1. Len(objects) \in Nat /\ DOMAIN objects = 1 .. Len(objects)
    BY Zenon DEF IsArchive, IsWalk
  <2> QED
    BY <2>1, Zenon
<1>3. \A i \in Curves(objects) : CurveObjectFits(objects[i], sel)
  BY Zenon DEF CacheFits
<1> DEFINE Part(i) == IF i \in Curves(objects) THEN ObjectCurves(objects, i, sel) ELSE <<>>
<1>4. PICK T : T = Drawn(names)
  OBVIOUS
<1>5. \A i \in 1 .. n : Part(i) \in Seq(T)
  <2> TAKE i \in 1 .. n
  <2>1. CASE i \in Curves(objects)
    <3>1. objects[i].name \in names
      BY <1>1, <1>2
    <3>2. ObjectCurves(objects, i, sel) \in Seq(T)
      BY <1>3, <1>4, <2>1, <3>1, ObjectCurvesTyped, Zenon
    <3> QED
      BY <2>1, <3>2, Zenon
  <2>2. CASE i \notin Curves(objects)
    <3>1. <<>> \in Seq(T)
      OBVIOUS
    <3> QED
      BY <2>2, <3>1, Zenon
  <2> QED
    BY <2>1, <2>2
<1>6. CacheCurves(objects, sel) = FlattenSeq([i \in 1 .. n |-> Part(i)])
  BY <1>2, Zenon DEF CacheCurves
<1> HIDE DEF Part
<1>7. PICK parts \in [1 .. n -> Seq(T)] : parts = [i \in 1 .. n |-> Part(i)]
  BY <1>5
<1>8. FlattenSeq(parts) \in Seq(T)
  BY JoinedTyped
<1> QED
  BY <1>1, <1>4, <1>6, <1>7, <1>8, Zenon

-----------------------------------------------------------------------------
(* The costs of an assignment *)

\* Of two numbers one is the larger.
LEMMA LargerOfTwo ==
  ASSUME NEW x \in Int, NEW y \in Int
  PROVE  Max({x, y}) \in {x, y} /\ Max({x, y}) >= x /\ Max({x, y}) >= y
<1>1. \E z \in {x, y} : \A v \in {x, y} : z >= v
  OBVIOUS
<1>2. Max({x, y}) \in {x, y} /\ \A v \in {x, y} : Max({x, y}) >= v
  BY <1>1 DEF Max
<1> QED
  BY <1>2

\* A distance is a number.
LEMMA DistanceTyped ==
  ASSUME NEW p \in Coordinates, NEW q \in Coordinates
  PROVE  Distance(p, q) \in Nat
<1>1. PICK d \in Coordinates : d = Minus(p, q)
  BY PlusTyped
<1>2. \A x \in Int : Size(x) \in Nat
  BY DEF Size
<1>3. d[1] \in Int /\ d[2] \in Int /\ d[3] \in Int
  BY DEF Coordinates
<1>4. PICK x \in Nat, y \in Nat, z \in Nat : x = Size(d[1]) /\ y = Size(d[2]) /\ z = Size(d[3])
  BY <1>2, <1>3
<1> QED
  BY <1>1, <1>4 DEF Distance, Length

\* Some number of a row is the largest.
LEMMA LargestPlace ==
  ASSUME NEW n \in Nat, n # 0, NEW f, \A c \in 1 .. n : f[c] \in Int
  PROVE  \E x \in 1 .. n : \A y \in 1 .. n : f[x] >= f[y]
<1>1. PICK g : g = [c \in 1 .. n |-> 0 - f[c]]
  OBVIOUS
<1>2. \A c \in 1 .. n : g[c] \in Int
  BY <1>1
<1>3. PICK s : s = 1 .. n
  OBVIOUS
<1>4. s \in SUBSET (1 .. n) /\ s # {}
  BY <1>3
<1>5. PICK x \in s : \A y \in s : g[x] <= g[y]
  BY <1>2, <1>4, LeastPlace, Zenon
<1>6. ASSUME NEW y \in 1 .. n PROVE f[x] >= f[y]
  <2>1. PICK a \in Int, b \in Int : a = f[x] /\ b = f[y]
    BY <1>3
  <2>2. g[x] = 0 - a /\ g[y] = 0 - b
    BY <1>1, <1>3, <2>1
  <2>3. 0 - a <= 0 - b
    BY <1>3, <1>5, <2>2
  <2>4. a >= b
    BY <2>3
  <2> QED
    BY <2>1, <2>4
<1> QED
  BY <1>3, <1>6

\* So is the largest of the distances.
LEMMA ScaleTyped ==
  ASSUME NEW n \in Nat, n # 0, NEW roots \in [1 .. n -> Coordinates]
  PROVE  Scale(roots) \in Nat
<1> DEFINE far == [a \in 1 .. n |-> [b \in 1 .. n |-> Distance(roots[a], roots[b])]]
<1>1. \A a, b \in 1 .. n : far[a][b] \in Nat /\ far[a][b] = Distance(roots[a], roots[b])
  <2> TAKE a, b \in 1 .. n
  <2>1. roots[a] \in Coordinates /\ roots[b] \in Coordinates
    OBVIOUS
  <2>2. Distance(roots[a], roots[b]) \in Nat
    BY <2>1, DistanceTyped
  <2> QED
    BY <2>2
<1> HIDE DEF far
<1>2. \A a \in 1 .. n : \E b \in 1 .. n : \A y \in 1 .. n : far[a][b] >= far[a][y]
  <2> TAKE a \in 1 .. n
  <2>1. PICK row : row = far[a]
    OBVIOUS
  <2>2. \A c \in 1 .. n : row[c] \in Int
    BY <1>1, <2>1
  <2>3. \E b \in 1 .. n : \A y \in 1 .. n : row[b] >= row[y]
    BY <2>2, LargestPlace, Zenon
  <2> QED
    BY <2>1, <2>3
<1>3. PICK best : best = [a \in 1 .. n |-> CHOOSE b \in 1 .. n : \A y \in 1 .. n : far[a][b] >= far[a][y]]
  OBVIOUS
<1>4. \A a \in 1 .. n : best[a] \in 1 .. n /\ \A y \in 1 .. n : far[a][best[a]] >= far[a][y]
  <2> TAKE a \in 1 .. n
  <2>1. best[a] = CHOOSE b \in 1 .. n : \A y \in 1 .. n : far[a][b] >= far[a][y]
    BY <1>3
  <2> QED
    BY <1>2, <2>1, Zenon
<1>5. PICK tops : tops = [a \in 1 .. n |-> far[a][best[a]]]
  OBVIOUS
<1>6. \A a \in 1 .. n : tops[a] \in Nat /\ tops[a] \in Int
  BY <1>1, <1>4, <1>5
<1>7. PICK x \in 1 .. n : \A a \in 1 .. n : tops[x] >= tops[a]
  BY <1>6, LargestPlace
<1>8. \A a, b \in 1 .. n : tops[x] >= far[a][b]
  <2> TAKE a, b \in 1 .. n
  <2>1. tops[a] >= far[a][b] /\ tops[x] >= tops[a] /\ tops[a] \in Nat /\ tops[x] \in Nat /\ far[a][b] \in Nat
    BY <1>1, <1>4, <1>5, <1>6, <1>7
  <2> QED
    BY <2>1
<1> DEFINE lengths == {0} \cup {Distance(roots[a], roots[b]) : a, b \in DOMAIN roots}
<1>9. Scale(roots) = Max(lengths)
  BY DEF Scale
<1>10. \A d \in lengths : d = 0 \/ \E a, b \in 1 .. n : d = Distance(roots[a], roots[b])
  OBVIOUS
<1>11. \A a, b \in 1 .. n : Distance(roots[a], roots[b]) \in lengths
  OBVIOUS
<1> HIDE DEF lengths
<1>12. \A d \in lengths : tops[x] >= d
  <2> TAKE d \in lengths
  <2>1. CASE d = 0
    BY <1>6, <2>1
  <2>2. CASE \E a, b \in 1 .. n : d = Distance(roots[a], roots[b])
    BY <1>1, <1>8, <2>2
  <2> QED
    BY <1>10, <2>1, <2>2
<1>13. tops[x] \in lengths
  <2>1. tops[x] = Distance(roots[x], roots[best[x]]) /\ best[x] \in 1 .. n
    BY <1>1, <1>4, <1>5
  <2> QED
    BY <1>11, <2>1
<1>14. Max(lengths) \in lengths /\ \A d \in lengths : Max(lengths) >= d
  BY <1>12, <1>13 DEF Max
<1>15. \A d \in lengths : d \in Nat
  <2>1. \A a, b \in 1 .. n : Distance(roots[a], roots[b]) \in Nat
    BY <1>1, Zenon
  <2>2. 0 \in Nat
    OBVIOUS
  <2> TAKE d \in lengths
  <2>3. CASE d = 0
    BY <2>2, <2>3
  <2>4. CASE d # 0
    <3>1. PICK a \in 1 .. n, b \in 1 .. n : d = Distance(roots[a], roots[b])
      BY <1>10, <2>4
    <3> QED
      BY <2>1, <3>1, Zenon
  <2> QED
    BY <2>3, <2>4
<1> QED
  BY <1>9, <1>14, <1>15

\* Numbers have ranks.
LEMMA RankedTyped ==
  ASSUME NEW m \in Nat, NEW s \in [1 .. m -> Int]
  PROVE  Ranked(s) \in [1 .. m -> Int]
<1>1. ASSUME NEW k \in 1 .. m
      PROVE  Min({x \in Range(s) : Cardinality({i \in DOMAIN s : s[i] <= x}) >= k}) \in Int
  <2>1. PICK X : X = {x \in Range(s) : Cardinality({i \in DOMAIN s : s[i] <= x}) >= k}
    OBVIOUS
  <2>2. PICK last \in 1 .. m : \A y \in 1 .. m : s[last] >= s[y]
    <3>1. m # 0 /\ \A c \in 1 .. m : s[c] \in Int
      OBVIOUS
    <3> QED
      BY <3>1, LargestPlace
  <2>3. s[last] \in X
    <3>1. {i \in DOMAIN s : s[i] <= s[last]} = 1 .. m
      BY <2>2
    <3>2. Cardinality(1 .. m) = m
      BY FS_Interval
    <3>3. PICK x : x = s[last]
      OBVIOUS
    <3>4. x \in Range(s)
      BY <2>2, <3>3 DEF Range
    <3>5. DOMAIN s = 1 .. m
      OBVIOUS
    <3>6. {i \in DOMAIN s : s[i] <= x} = 1 .. m
      BY <3>1, <3>3
    <3>7. Cardinality({i \in DOMAIN s : s[i] <= x}) = m
      BY <3>2, <3>6, Zenon
    <3>8. Cardinality({i \in DOMAIN s : s[i] <= x}) >= k
      BY <3>7
    <3> QED
      BY <2>1, <3>3, <3>4, <3>8, Zenon
  <2>4. PICK places : places = {i \in 1 .. m : s[i] \in X}
    OBVIOUS
  <2>5. PICK first \in places : \A y \in places : s[first] <= s[y]
    <3>1. places \in SUBSET (1 .. m) /\ places # {} /\ \A c \in 1 .. m : s[c] \in Int
      BY <2>3, <2>4
    <3> QED
      BY <3>1, LeastPlace, Zenon
  <2>6. \A x \in X : \E i \in places : x = s[i]
    <3>1. \A x \in X : \E i \in 1 .. m : x = s[i]
      BY <2>1 DEF Range
    <3> QED
      BY <2>4, <3>1
  <2>7. s[first] \in X /\ \A x \in X : s[first] <= x
    BY <2>4, <2>5, <2>6
  <2>8. Min(X) \in X
    BY <2>7 DEF Min
  <2>9. \A x \in X : x \in Int
    BY <2>4, <2>6
  <2> QED
    BY <2>1, <2>8, <2>9
<1> DEFINE Rank(k) == Min({x \in Range(s) : Cardinality({i \in DOMAIN s : s[i] <= x}) >= k})
<1>2. Ranked(s) = [k \in 1 .. m |-> Rank(k)]
  BY Zenon DEF Ranked
<1>3. \A k \in 1 .. m : Rank(k) \in Int
  BY <1>1
<1> HIDE DEF Rank
<1> QED
  BY <1>2, <1>3

\* The distances to the others are numbers, where the scale is not 0.
LEMMA FingerprintTyped ==
  ASSUME NEW n \in Nat, n > 1, NEW roots \in [1 .. n -> Coordinates], Scale(roots) # 0, NEW a \in 1 .. n
  PROVE  Fingerprint(roots, a) \in [1 .. n - 1 -> Int]
<1>1. PICK scale \in Nat \ {0} : scale = Scale(roots)
  <2>1. Scale(roots) \in Nat
    BY ScaleTyped
  <2> QED
    BY <2>1
<1>2. Len(roots) = n
  <2>1. roots \in Seq(Coordinates)
    OBVIOUS
  <2> QED
    BY <2>1
<1> DEFINE Other(k) == roots[IF k < a THEN k ELSE k + 1]
           Far(k) == ShareOf(Distance(roots[a], Other(k)), scale)
<1>3. \A k \in 1 .. n - 1 : Far(k) \in Int
  <2> TAKE k \in 1 .. n - 1
  <2>1. roots[a] \in Coordinates /\ Other(k) \in Coordinates
    <3>1. (IF k < a THEN k ELSE k + 1) \in 1 .. n
      OBVIOUS
    <3> QED
      BY <3>1
  <2>2. PICK d \in Nat : d = Distance(roots[a], Other(k))
    BY <2>1, DistanceTyped
  <2>3. (d * Shares) \div scale \in Int
    BY DEF Shares
  <2> QED
    BY <2>2, <2>3 DEF ShareOf
<1> HIDE DEF Far
<1>4. PICK m \in Nat : m = n - 1
  OBVIOUS
<1>5. PICK far \in [1 .. m -> Int] : far = [k \in 1 .. m |-> Far(k)]
  BY <1>3, <1>4
<1>6. Ranked(far) \in [1 .. m -> Int]
  BY RankedTyped
<1>7. Fingerprint(roots, a) = Ranked([k \in 1 .. n - 1 |-> Far(k)])
  BY <1>1, <1>2, Zenon DEF Fingerprint, Far
<1> QED
  BY <1>4, <1>5, <1>6, <1>7

\* The first points of guides or curves.
LEMMA HeadsTyped ==
  ASSUME NEW n \in Nat, NEW s, DOMAIN s = 1 .. n, \A g \in 1 .. n : s[g].cvs \in Seq(Coordinates) /\ s[g].cvs # <<>>
  PROVE  [g \in DOMAIN s |-> Head(s[g].cvs)] \in [1 .. n -> Coordinates]
<1>1. \A g \in 1 .. n : Head(s[g].cvs) \in Coordinates
  <2> TAKE g \in 1 .. n
  <2>1. PICK cvs \in Seq(Coordinates) : cvs = s[g].cvs /\ cvs # <<>>
    OBVIOUS
  <2>2. Head(cvs) \in Coordinates
    BY <2>1
  <2> QED
    BY <2>1, <2>2
<1> QED
  BY <1>1

\* Guides or curves that have points, and first points that are not all the same.
AreLaid(n, s) ==
  /\ DOMAIN s = 1 .. n /\ \A g \in 1 .. n : s[g].cvs \in Seq(Coordinates) /\ s[g].cvs # <<>>
  /\ n > 1 => Scale([g \in DOMAIN s |-> Head(s[g].cvs)]) # 0

\* A row of n costs for each of n guides.
AreCosts(n, costs) ==
  costs \in Seq(Seq(Int)) /\ Len(costs) = n /\ \A g \in 1 .. n : Len(costs[g]) = n

\* What it costs to give a guide a curve is a number.
LEMMA CostsTyped ==
  ASSUME NEW n \in Nat, NEW guides, Len(guides) = n, AreLaid(n, guides), NEW curves, AreLaid(n, curves)
  PROVE  AreCosts(n, Costs(guides, curves))
<1>1. DOMAIN guides = 1 .. n
  BY DEF AreLaid
<1>2. PICK from \in [1 .. n -> Coordinates] : from = [g \in DOMAIN guides |-> Head(guides[g].cvs)]
  BY HeadsTyped DEF AreLaid
<1>3. PICK to \in [1 .. n -> Coordinates] : to = [c \in DOMAIN curves |-> Head(curves[c].cvs)]
  BY HeadsTyped DEF AreLaid
<1>4. n > 1 => Scale(from) # 0 /\ Scale(to) # 0
  BY <1>2, <1>3, Zenon DEF AreLaid
<1> DEFINE Apart(g, c) == [k \in DOMAIN Fingerprint(from, g) |-> Size(Fingerprint(from, g)[k] - Fingerprint(to, c)[k])]
           Differs(g, c) == NumberSum(Apart(g, c)) \div Max({n - 1, 1})
           Far(g, c) == ShareOf(Distance(from[g], to[c]), Max({Scale(from), Scale(to)}))
           Cost(g, c) == IF Len(guides[g].cvs) # Len(curves[c].cvs) THEN Incompatible
                         ELSE IF n = 1 THEN 0
                         ELSE Far(g, c) * Shares + Differs(g, c)
<1>5. ASSUME NEW g \in 1 .. n, NEW c \in 1 .. n, n # 1 PROVE Differs(g, c) \in Int
  <2>1. n > 1
    BY <1>5
  <2>2. PICK a \in [1 .. n - 1 -> Int] : a = Fingerprint(from, g)
    BY <1>4, <2>1, FingerprintTyped
  <2>3. PICK b \in [1 .. n - 1 -> Int] : b = Fingerprint(to, c)
    BY <1>4, <2>1, FingerprintTyped
  <2>4. PICK m \in Nat : m = n - 1
    BY <2>1
  <2>5. \A k \in 1 .. m : Size(a[k] - b[k]) \in Int
    <3> TAKE k \in 1 .. m
    <3>1. PICK x \in Int, y \in Int : x = a[k] /\ y = b[k]
      BY <2>4
    <3> QED
      BY <3>1 DEF Size
  <2>6. PICK apart \in [1 .. m -> Int] : apart = [k \in 1 .. m |-> Size(a[k] - b[k])]
    BY <2>5
  <2>7. PICK sum \in Int : sum = NumberSum(apart)
    <3>1. PICK off : AreTotals(off, m, apart) /\ NumberSum(apart) = off[m]
      BY SumTotals
    <3>2. off[m] \in Int
      BY <3>1 DEF AreTotals
    <3> QED
      BY <3>1, <3>2
  <2>8. PICK over \in Nat \ {0} : over = Max({n - 1, 1})
    <3>1. m \in Int /\ 1 \in Int
      OBVIOUS
    <3>2. Max({m, 1}) \in {m, 1} /\ Max({m, 1}) >= 1
      BY <3>1, LargerOfTwo, Zenon
    <3> QED
      BY <2>4, <3>2
  <2>9. sum \div over \in Int
    OBVIOUS
  <2>10. Apart(g, c) = apart
    <3>1. DOMAIN a = 1 .. m
      BY <2>4
    <3> QED
      BY <2>2, <2>3, <2>6, <3>1, Zenon
  <2> HIDE DEF Apart
  <2> QED
    BY <2>7, <2>8, <2>9, <2>10
<1>6. ASSUME NEW g \in 1 .. n, NEW c \in 1 .. n, n # 1 PROVE Far(g, c) * Shares \in Int
  <2>1. PICK p \in Coordinates, q \in Coordinates : p = from[g] /\ q = to[c]
    OBVIOUS
  <2>2. PICK d \in Nat : d = Distance(p, q)
    BY DistanceTyped
  <2>3. PICK x \in Nat, y \in Nat : x = Scale(from) /\ y = Scale(to) /\ x # 0
    <3>1. n # 0 /\ n > 1
      BY <1>6
    <3> QED
      BY <1>4, <3>1, ScaleTyped
  <2>4. PICK over \in Nat \ {0} : over = Max({x, y})
    <3>1. x \in Int /\ y \in Int
      OBVIOUS
    <3>2. Max({x, y}) \in {x, y} /\ Max({x, y}) >= x
      BY <3>1, LargerOfTwo, Zenon
    <3> QED
      BY <2>3, <3>2
  <2>5. (d * Shares) \div over \in Int
    BY DEF Shares
  <2>6. PICK share \in Int : share = Far(g, c)
    BY <2>1, <2>2, <2>3, <2>4, <2>5 DEF ShareOf
  <2> HIDE DEF Far
  <2> QED
    BY <2>6 DEF Shares
<1>7. Incompatible \in Int
  BY DEF Incompatible, Shares
<1> HIDE DEF Far, Differs
<1>8. \A g, c \in 1 .. n : Cost(g, c) \in Int
  <2> TAKE g, c \in 1 .. n
  <2>1. CASE Len(guides[g].cvs) # Len(curves[c].cvs)
    BY <1>7, <2>1
  <2>2. CASE n = 1
    BY <1>7, <2>2
  <2>3. CASE n # 1
    <3>1. PICK x \in Int, y \in Int : x = Far(g, c) * Shares /\ y = Differs(g, c)
      BY <1>5, <1>6, <2>3
    <3>2. PICK z \in Int : z = Far(g, c) * Shares + Differs(g, c)
      BY <3>1
    <3> QED
      BY <1>7, <2>3, <3>2, Zenon
  <2> QED
    BY <2>2, <2>3
<1>9. PICK costs : costs = Costs(guides, curves)
  OBVIOUS
<1>10. costs = [g \in 1 .. n |-> [c \in 1 .. n |-> Cost(g, c)]]
  BY <1>1, <1>2, <1>3, <1>9, Zenon DEF Costs, Far, Differs
<1> HIDE DEF Cost
<1>11. \A g \in 1 .. n : costs[g] = [c \in 1 .. n |-> Cost(g, c)]
  BY <1>10
<1>12. ASSUME NEW g \in 1 .. n PROVE costs[g] \in [1 .. n -> Int]
  <2>1. \A c \in 1 .. n : Cost(g, c) \in Int
    BY <1>8
  <2>2. [c \in 1 .. n |-> Cost(g, c)] \in [1 .. n -> Int]
    BY <2>1
  <2> QED
    BY <1>11, <2>2, Zenon
<1>13. \A h \in [1 .. n -> Int] : h \in Seq(Int) /\ Len(h) = n
  OBVIOUS
<1>14. costs \in [1 .. n -> Seq(Int)] /\ \A g \in 1 .. n : Len(costs[g]) = n
  BY <1>10, <1>12, <1>13
<1>15. \A h \in [1 .. n -> Seq(Int)] : h \in Seq(Seq(Int)) /\ Len(h) = n
  OBVIOUS
<1> QED
  BY <1>9, <1>14, <1>15, Zenon DEF AreCosts

-----------------------------------------------------------------------------
(* The curves that guides are given *)

\* A guide that is given a curve keeps its first point.
LEMMA GivenTheRest ==
  ASSUME NEW T, NEW cvs \in Seq(T), cvs # <<>>, NEW x
  PROVE  Tail(<<x>> \o Tail(cvs)) = Tail(cvs)
<1>1. PICK rest : rest = Tail(cvs)
  OBVIOUS
<1>2. PICK U : U = T \cup {x}
  OBVIOUS
<1>3. rest \in Seq(T)
  BY <1>1, HeadTailProperties
<1>4. <<x>> \in Seq(U) /\ rest \in Seq(U)
  <2>1. PICK m \in Nat : rest \in [1 .. m -> T]
    BY <1>3
  <2>2. rest \in [1 .. m -> U]
    BY <1>2, <2>1
  <2> QED
    BY <1>2, <2>2
<1>5. /\ <<x>> \o rest \in Seq(U) /\ Len(<<x>> \o rest) = 1 + Len(rest)
      /\ \A i \in 1 .. Len(rest) : (<<x>> \o rest)[i + 1] = rest[i]
  BY <1>4, ConcatProperties
<1>6. PICK both \in Seq(U) : both = <<x>> \o rest
  BY <1>5
<1>7. PICK m \in Nat : m = Len(rest)
  BY <1>3
<1>8. Len(both) = m + 1 /\ \A i \in 1 .. m : both[i + 1] = rest[i]
  BY <1>5, <1>6, <1>7
<1>9. both # <<>>
  BY <1>7, <1>8
<1>10. Tail(both) \in Seq(U) /\ Len(Tail(both)) = m /\ \A i \in 1 .. m : Tail(both)[i] = both[i + 1]
  <2>1. /\ Tail(both) \in Seq(U) /\ Len(Tail(both)) = Len(both) - 1
        /\ \A i \in 1 .. Len(Tail(both)) : Tail(both)[i] = both[i + 1]
    BY <1>9, HeadTailProperties, Zenon
  <2> QED
    BY <1>7, <1>8, <2>1
<1>11. PICK tail \in Seq(U) : tail = Tail(both)
  BY <1>10
<1>12. tail = rest
  <2>1. Len(tail) = Len(rest) /\ \A i \in 1 .. Len(tail) : tail[i] = rest[i]
    BY <1>7, <1>8, <1>10, <1>11
  <2> QED
    BY <1>4, <2>1, SeqEqual
<1> QED
  BY <1>1, <1>6, <1>11, <1>12

\* The guides that a guide cache has changed, without names that say which is whose.
LEMMA CacheCostsLeast ==
  ASSUME NEW in, IsImport(in), NEW objects, IsArchive(objects), NEW sel, sel.time \in Int, NEW limits, NEW wires,
         ApplyGuideCache(in, objects, sel, limits, wires) # Refused,
         NEW guides, guides = [i \in DOMAIN in.guides |-> TurnedGuide(in.guides, i)],
         NEW curves, curves = CacheCurves(objects, sel), Authored(guides, curves, wires) = <<>>
  PROVE  \E mapping \in Matchings(Len(guides)) :
           /\ \A g \in DOMAIN guides :
                Tail(ApplyGuideCache(in, objects, sel, limits, wires).guides[g].cvs) = Tail(curves[mapping[g]].cvs)
           /\ CostsLeast(Costs(guides, curves), mapping)
<1>1. HavePoints(guides)
  BY TurnedTyped, Zenon DEF IsImport
<1>2. PICK n \in Nat : n = Len(guides) /\ DOMAIN guides = 1 .. n /\ guides \in Seq(Range(guides))
  BY <1>1 DEF HavePoints
<1> DEFINE from == [g \in DOMAIN guides |-> Head(guides[g].cvs)]
           to == [c \in DOMAIN curves |-> Head(curves[c].cvs)]
           costs == Costs(guides, curves)
           found == Assignment(costs)
           Replaced(g) == [guides[g] EXCEPT !.cvs = <<Head(@)>> \o Tail(curves[found[g]].cvs)]
           result == [in EXCEPT !.guides = [g \in DOMAIN guides |-> Replaced(g)]]
<1>3. /\ CacheFits(objects, sel, limits) /\ Len(curves) = Len(guides)
      /\ \A g \in DOMAIN guides : guides[g].cvs # <<>>
      /\ Len(guides) > 1 => Scale(from) # 0 /\ Scale(to) # 0
      /\ ApplyGuideCache(in, objects, sel, limits, wires) = result
  BY Zenon DEF ApplyGuideCache
<1> HIDE DEF from, to, costs, found, Replaced, result
<1>4. PICK names : CacheCurves(objects, sel) \in Seq(Drawn(names))
  BY <1>3, CacheCurvesTyped
<1>5. DOMAIN curves = 1 .. n /\ \A c \in 1 .. n : curves[c].cvs \in Seq(Coordinates) /\ curves[c].cvs # <<>>
  <2>1. PICK T : T = Drawn(names)
    OBVIOUS
  <2>2. curves \in Seq(T) /\ Len(curves) = n
    BY <1>2, <1>3, <1>4, <2>1, Zenon
  <2>3. DOMAIN curves = 1 .. n /\ \A c \in 1 .. n : curves[c] \in T
    BY <2>2
  <2> QED
    BY <2>1, <2>3 DEF Drawn
<1>6. \A g \in 1 .. n : "cvs" \in DOMAIN guides[g] /\ guides[g].cvs \in Seq(Coordinates) /\ guides[g].cvs # <<>>
  BY <1>1, <1>2, <1>3, Zenon DEF HavePoints
<1>7. n > 1 => Scale(from) # 0 /\ Scale(to) # 0
  BY <1>2, <1>3, Zenon
<1>8. costs \in Seq(Seq(Int)) /\ Len(costs) = n /\ \A g \in 1 .. n : Len(costs[g]) = n
  <2>1. AreLaid(n, guides)
    BY <1>2, <1>6, <1>7, Zenon DEF AreLaid, from
  <2>2. AreLaid(n, curves)
    BY <1>5, <1>7, Zenon DEF AreLaid, to
  <2>3. AreCosts(n, Costs(guides, curves))
    BY <1>2, <2>1, <2>2, CostsTyped
  <2> QED
    BY <2>3, Zenon DEF AreCosts, costs
<1>9. CostsLeast(costs, found)
  BY <1>8, AssignmentCostsLeast, Zenon DEF found
<1>10. found \in Matchings(n)
  BY <1>8, <1>9, Zenon DEF CostsLeast
<1>11. found \in [1 .. n -> 1 .. n]
  BY <1>10 DEF Matchings, Bijection, Injection, Surjection
<1> USE DEF Replaced, result
<1>12. ASSUME NEW g \in DOMAIN guides PROVE Tail(result.guides[g].cvs) = Tail(curves[found[g]].cvs)
  <2>1. PICK cvs \in Seq(Coordinates) : cvs = curves[found[g]].cvs /\ cvs # <<>>
    BY <1>2, <1>5, <1>11
  <2>2. result.guides[g] = Replaced(g)
    <3> HIDE DEF Replaced
    <3>1. result.guides = [h \in DOMAIN guides |-> Replaced(h)]
      BY DEF IsImport
    <3> QED
      BY <3>1
  <2>3. Replaced(g).cvs = <<Head(guides[g].cvs)>> \o Tail(cvs)
    BY <1>2, <1>6, <2>1
  <2>4. Tail(<<Head(guides[g].cvs)>> \o Tail(cvs)) = Tail(cvs)
    BY <2>1, GivenTheRest
  <2> QED
    BY <2>1, <2>2, <2>3, <2>4, Zenon
<1> HIDE DEF Replaced, result
<1> QED
  BY <1>2, <1>3, <1>9, <1>10, <1>12, Zenon DEF costs
\* An import that has been come to is that of a way.
LEMMA ImportIsLast ==
  ASSUME NEW n \in Nat \ {0}, NEW stages, DOMAIN stages = 1 .. n, stages[n] = "import",
         \A m \in 1 .. n - 1 : stages[m] \in {"lookups", "directory", "compile", "inspect"},
         FoldLeft(Stage, Start, stages).ok
  PROVE  \E v : DOMAIN v = DOMAIN Start /\ FoldLeft(Stage, Start, stages) = Import(v)
<1>1. PICK steps : AreSteps(steps, n, Start, "stage", stages, 0) /\ FoldLeft(Stage, Start, stages) = steps[n]
  BY StagesInTurn
<1>2. /\ steps[0] = Start
      /\ \A m \in 1 .. n : steps[m] = Stage(steps[m - 1], stages[m])
  <2>1. \A x, m : FoldStep("stage", stages, 0, x, m) = Stage(x, stages[m])
    BY Zenon DEF FoldStep
  <2> QED
    BY <1>1, <2>1, Zenon DEF AreSteps
<1>3. PICK k \in Nat : k = n - 1
  OBVIOUS
<1> DEFINE T == {m \in 0 .. k : DOMAIN steps[m] = DOMAIN Start}
<1>4. 0 \in T
  BY <1>2
<1>5. ASSUME NEW m \in 1 .. k, m - 1 \in T PROVE m \in T
  <2>1. steps[m] = Stage(steps[m - 1], stages[m])
    BY <1>2, <1>3
  <2>2. stages[m] \in {"lookups", "directory", "compile", "inspect"}
    BY <1>3
  <2>3. DOMAIN Stage(steps[m - 1], stages[m]) = DOMAIN steps[m - 1]
    BY <2>2, StageKeepsFields
  <2> QED
    BY <1>5, <2>1, <2>3
<1> HIDE DEF T
<1>6. \A m \in 0 .. k : m \in T
  BY <1>4, <1>5, Induct
<1>7. DOMAIN steps[n - 1] = DOMAIN Start
  BY <1>6, <1>3 DEF T
<1>8. steps[n] = Stage(steps[n - 1], "import")
  BY <1>2
<1>9. steps[n] = IF ~steps[n - 1].ok THEN steps[n - 1] ELSE Import(steps[n - 1])
  BY <1>8, Zenon DEF Stage
<1> QED
  BY <1>1, <1>7, <1>9, Zenon

\* The first n stages end with the import, and none before it looks at a surface.
IsUpToImport(stages, n) ==
  LET first == SubSeq(stages, 1, n)
  IN /\ {i \in DOMAIN stages : stages[i] = "import"} = {n} /\ DOMAIN first = 1 .. n /\ first[n] = "import"
     /\ \A m \in 1 .. n - 1 : first[m] \in {"lookups", "directory", "compile", "inspect"}

\* Every tool that may use a guide cache and imports comes to the import so.
LEMMA ImportedWay ==
  ASSUME S.tool \in {"cold", "collection", "motion"}, NEW w \in WaysAfter("import")
  PROVE  \E v : DOMAIN v = DOMAIN Start /\ w = Import(v) /\ w.ok
<1>1. PICK stages : stages = Stages[S.tool]
  OBVIOUS
<1>2. PICK n \in {3, 5} : IsUpToImport(stages, n)
  <2>1. CASE S.tool = "motion"
    <3>1. stages = <<"lookups", "directory", "compile", "inspect", "import", "roots", "inputs", "deform", "share",
                     "clumps", "limit", "identify", "curves">>
      BY <1>1, <2>1 DEF Stages
    <3>2. {i \in DOMAIN stages : stages[i] = "import"} = {5}
      BY <3>1
    <3>3. PICK first : first = SubSeq(stages, 1, 5)
      OBVIOUS
    <3>4. /\ first[1] = "lookups" /\ first[2] = "directory" /\ first[3] = "compile" /\ first[4] = "inspect" /\ first[5] = "import"
          /\ DOMAIN first = 1 .. 5
      BY <3>1, <3>3
    <3>5. 5 - 1 = 4 /\ \A m \in 1 .. 4 : m = 1 \/ m = 2 \/ m = 3 \/ m = 4
      OBVIOUS
    <3>6. \A m \in 1 .. 5 - 1 : first[m] \in {"lookups", "directory", "compile", "inspect"}
      BY <3>4, <3>5, Zenon
    <3> QED
      BY <3>2, <3>3, <3>4, <3>6, Zenon DEF IsUpToImport
  <2>2. CASE S.tool = "cold"
    <3>1. stages = <<"directory", "compile", "import", "probe", "roots", "bake", "inputs", "clumps", "limit", "curves">>
      BY <1>1, <2>2 DEF Stages
    <3>2. {i \in DOMAIN stages : stages[i] = "import"} = {3}
      BY <3>1
    <3>3. PICK first : first = SubSeq(stages, 1, 3)
      OBVIOUS
    <3>4. /\ first[1] = "directory" /\ first[2] = "compile" /\ first[3] = "import"
          /\ DOMAIN first = 1 .. 3
      BY <3>1, <3>3
    <3>5. 3 - 1 = 2 /\ \A m \in 1 .. 2 : m = 1 \/ m = 2
      OBVIOUS
    <3>6. \A m \in 1 .. 3 - 1 : first[m] \in {"lookups", "directory", "compile", "inspect"}
      BY <3>4, <3>5, Zenon
    <3> QED
      BY <3>2, <3>3, <3>4, <3>6, Zenon DEF IsUpToImport
  <2>3. CASE S.tool = "collection"
    <3>1. stages = <<"directory", "compile", "import", "roots", "inputs", "clumps", "limit", "curves">>
      BY <1>1, <2>3 DEF Stages
    <3>2. {i \in DOMAIN stages : stages[i] = "import"} = {3}
      BY <3>1
    <3>3. PICK first : first = SubSeq(stages, 1, 3)
      OBVIOUS
    <3>4. /\ first[1] = "directory" /\ first[2] = "compile" /\ first[3] = "import"
          /\ DOMAIN first = 1 .. 3
      BY <3>1, <3>3
    <3>5. 3 - 1 = 2 /\ \A m \in 1 .. 2 : m = 1 \/ m = 2
      OBVIOUS
    <3>6. \A m \in 1 .. 3 - 1 : first[m] \in {"lookups", "directory", "compile", "inspect"}
      BY <3>4, <3>5, Zenon
    <3> QED
      BY <3>2, <3>3, <3>4, <3>6, Zenon DEF IsUpToImport
  <2> QED
    BY <2>1, <2>2, <2>3
<1>3. Min({n}) = n /\ n \in Nat \ {0}
  BY DEF Min
<1>4. PICK first : first = SubSeq(stages, 1, n)
  OBVIOUS
<1>5. /\ {i \in DOMAIN stages : stages[i] = "import"} = {n} /\ DOMAIN first = 1 .. n /\ first[n] = "import"
      /\ \A m \in 1 .. n - 1 : first[m] \in {"lookups", "directory", "compile", "inspect"}
  BY <1>2, <1>4, Zenon DEF IsUpToImport
<1>6. w = FoldLeft(Stage, Start, first) /\ w.ok
  <2>1. Min({i \in DOMAIN stages : stages[i] = "import"}) = n
    BY <1>3, <1>5, Zenon
  <2> QED
    BY <1>1, <1>4, <2>1 DEF WaysAfter
<1>7. \E v : DOMAIN v = DOMAIN Start /\ FoldLeft(Stage, Start, first) = Import(v)
  BY <1>3, <1>5, <1>6, ImportIsLast
<1> QED
  BY <1>6, <1>7, Zenon

\* The first of the surfaces that an import gives is that of the first lookup.
LEMMA ImportGives ==
  ASSUME NEW T, S.lookups \in Seq(T), NEW v, DOMAIN v = DOMAIN Start, Import(v).ok
  PROVE  Import(v).surfaces[1] = Imported(1) /\ Imported(1) # Refused
<1>1. PICK n \in Nat \ {0} : n = IF Still THEN 1 ELSE Cardinality(Lookups)
  <2>1. CASE S.lookups = <<>>
    <3>1. Lookups = {1} /\ Cardinality({1}) = 1
      BY <2>1, FS_Singleton, Zenon DEF Lookups
    <3> QED
      BY <3>1
  <2>2. CASE S.lookups # <<>>
    <3>1. PICK m \in Nat : DOMAIN S.lookups = 1 .. m /\ m = Len(S.lookups)
      OBVIOUS
    <3>2. m # 0
      BY <2>2, <3>1
    <3>3. Cardinality(1 .. m) = m
      BY FS_Interval
    <3>4. Lookups = 1 .. m
      BY <2>2, <3>1, Zenon DEF Lookups
    <3> QED
      BY <3>2, <3>3, <3>4
  <2> QED
    BY <2>1, <2>2
<1>2. PICK ins : ins = [k \in 1 .. n |-> Imported(k)]
  OBVIOUS
<1>3. PICK U : U = {Imported(k) : k \in 1 .. n}
  OBVIOUS
<1>4. ins \in Seq(U) /\ 1 \in DOMAIN ins /\ ins[1] = Imported(1)
  <2>1. \A k \in 1 .. n : Imported(k) \in U
    BY <1>3
  <2>2. ins \in [1 .. n -> U] /\ 1 \in 1 .. n
    BY <1>2, <2>1
  <2> QED
    BY <1>2, <2>2
<1>5. Evaluated(ins) = ins
  BY <1>4, EvaluatedIsSame
<1>6. "ok" \in DOMAIN v /\ "surfaces" \in DOMAIN v
  BY DEF Start
<1>7. Import(v) = IF Refused \in Range(ins) THEN Failed(v) ELSE [v EXCEPT !.surfaces = ins]
  BY <1>1, <1>2, <1>5, Zenon DEF Import
<1>8. ~Failed(v).ok
  BY <1>6 DEF Failed
<1>9. Refused \notin Range(ins) /\ Import(v) = [v EXCEPT !.surfaces = ins]
  BY <1>7, <1>8, Zenon
<1>10. Import(v).surfaces = ins
  BY <1>6, <1>9
<1>11. Imported(1) \in Range(ins)
  BY <1>4 DEF Range
<1> QED
  BY <1>4, <1>9, <1>10, <1>11, Zenon
\* Without names that say it, the guides have been given the curves of the cache
\* that cost least in all, of all ways to give each its own
\* (apply_xgen_classic_alembic_guide_cache()).
THEOREM GuidesTakeTheLeast == SceneSpec => AssignmentIsMinimal
<1> DEFINE Taken == \A w \in WaysAfter("import") : TakesTheLeast(w.surfaces[1].guides)
<1>1. ASSUME scene \in DOMAIN Scenes, UsesCache PROVE Taken
  <2> SUFFICES ASSUME NEW w \in WaysAfter("import") PROVE TakesTheLeast(w.surfaces[1].guides)
    OBVIOUS
  <2>1. /\ S.tool \in DOMAIN Stages /\ {"objects", "patches"} \subseteq DOMAIN S.d
        /\ S.d.patches \in Seq(Range(S.d.patches)) /\ \A patch \in Range(S.d.patches) : IsPatch(patch)
        /\ IsArchive(S.archive)
        /\ OpensCache => IsArchive(S.disk[CachePath].archive)
        /\ S.lookups \in Seq([placement : Int, frame : Int, offset : Int, fps : Int, mode : STRING])
    BY <1>1, SceneAssumption, Zenon DEF S, OpensCache
  <2>2. S.tool \in {"cold", "collection", "motion"}
    <3>1. S.tool \in {"lower", "cold", "single", "collection", "motion", "asset"}
      BY <2>1 DEF Stages
    <3>2. S.tool \notin {"single", "asset"}
      BY <1>1, Zenon DEF UsesCache
    <3>3. S.tool # "lower"
      <4>1. ASSUME S.tool = "lower" PROVE ~Passes("import")
        BY <4>1 DEF Passes, Stages, Range
      <4> QED
        BY <4>1, Zenon DEF WaysAfter
    <3> QED
      BY <3>1, <3>2, <3>3
  <2>3. D.patches = S.d.patches
    <3>1. \A objects : [S.d EXCEPT !.objects = objects].patches = S.d.patches
      BY <2>1
    <3> QED
      BY <2>1 DEF D
  <2>4. PICK v : DOMAIN v = DOMAIN Start /\ w = Import(v) /\ w.ok
    BY <2>2, ImportedWay
  <2>5. w.surfaces[1] = Imported(1) /\ Imported(1) # Refused
    BY <2>1, <2>4, ImportGives
  <2> DEFINE sel == IF S.lookups = <<>> THEN FirstSample
                    ELSE [first |-> FALSE, time |-> LookupTime(S.lookups[1]), mode |-> S.lookups[1].mode]
             bare == BuildAssetInput(D.patches, S.archive, sel, S.limits)
             cache == S.disk[CachePath].archive
             curves == CacheCurves(cache, sel)
             guides == [g \in DOMAIN bare.guides |-> TurnedGuide(bare.guides, g)]
  <2>6. S.lookups # <<>> => S.lookups[1].frame \in Int /\ S.lookups[1].offset \in Int /\ S.lookups[1].fps \in Int
    <3>1. PICK T : T = [placement : Int, frame : Int, offset : Int, fps : Int, mode : STRING]
      OBVIOUS
    <3>2. S.lookups \in Seq(T)
      BY <2>1, <3>1, Zenon
    <3>3. S.lookups # <<>> => S.lookups[1] \in T
      BY <3>2
    <3> QED
      BY <3>1, <3>3
  <2>7. S.lookups # <<>> => S.lookups[1].fps > 0
    <3>1. S.lookups # <<>> /\ ~(S.lookups[1].fps > 0) => S.lookups[1].fps <= 0
      <4>1. ASSUME NEW fps \in Int, ~(fps > 0) PROVE fps <= 0
        BY <4>1
      <4> QED
        BY <2>6, <4>1, Zenon
    <3>2. ASSUME S.lookups # <<>>, S.lookups[1].fps <= 0 PROVE Imported(1) = Refused
      BY <3>2, Zenon DEF Imported, BuildAssetInputAt
    <3> QED
      BY <2>5, <3>1, <3>2, Zenon
  <2>8. sel.time \in Int
    <3>1. CASE S.lookups = <<>>
      BY <3>1 DEF FirstSample
    <3>2. CASE S.lookups # <<>>
      <4>1. PICK f \in Int, o \in Int, r \in Int : f = S.lookups[1].frame /\ o = S.lookups[1].offset /\ r = S.lookups[1].fps
        BY <2>6, <3>2, Zenon
      <4>2. r > 0
        BY <2>7, <3>2, <4>1
      <4>3. (f + o) \div r \in Int
        BY <4>2
      <4>4. LookupTime(S.lookups[1]) \in Int
        BY <4>1, <4>3 DEF LookupTime
      <4> QED
        BY <3>2, <4>4
    <3> QED
      BY <3>1, <3>2
  <2>9. /\ OpensCache /\ bare # Refused
        /\ Imported(1) = ApplyGuideCache(bare, cache, sel, S.limits, S.wires)
    <3>1. CASE S.lookups = <<>>
      BY <1>1, <2>5, <3>1, Zenon DEF Imported
    <3>2. CASE S.lookups # <<>>
      <4>1. PICK a : a = S.lookups[1]
        OBVIOUS
      <4>2. ~(a.fps <= 0)
        <5>1. a.fps > 0 /\ a.fps \in Int
          BY <2>7, <2>6, <3>2, <4>1, Zenon
        <5> QED
          BY <5>1
      <4>3. BuildAssetInputAt(D.patches, S.archive, a, S.limits) = bare
        BY <3>2, <4>1, <4>2, Zenon DEF BuildAssetInputAt
      <4>4. ApplyGuideCacheAt(bare, cache, a, S.limits, S.wires) = ApplyGuideCache(bare, cache, sel, S.limits, S.wires)
        BY <3>2, <4>1, <4>2, Zenon DEF ApplyGuideCacheAt
      <4> HIDE DEF bare, sel
      <4> QED
        BY <1>1, <2>5, <3>2, <4>1, <4>3, <4>4, Zenon DEF Imported
    <3> QED
      BY <3>1, <3>2
  <2> HIDE DEF sel
  <2>10. IsImport(bare)
    <3>1. PICK patches : patches = D.patches
      OBVIOUS
    <3>2. PICK objects : objects = S.archive
      OBVIOUS
    <3>3. PICK limits : limits = S.limits
      OBVIOUS
    <3>4. IsArchive(objects) /\ patches \in Seq(Range(patches)) /\ \A p \in Range(patches) : IsPatch(p)
      BY <2>1, <2>3, <3>1, <3>2, Zenon
    <3>5. BuildAssetInput(patches, objects, sel, limits) # Refused
      BY <2>9, <3>1, <3>2, <3>3, Zenon
    <3> HIDE DEF bare
    <3>6. IsImport(BuildAssetInput(patches, objects, sel, limits))
      BY <2>8, <3>4, <3>5, ImportTyped
    <3> QED
      BY <3>1, <3>2, <3>3, <3>6, Zenon DEF bare
  <2>11. IsArchive(cache)
    BY <2>1, <2>9, Zenon
  <2> HIDE DEF bare, cache
  <2>12. ApplyGuideCache(bare, cache, sel, S.limits, S.wires) # Refused
    BY <2>5, <2>9, Zenon
  <2>13. PICK given : given = w.surfaces[1].guides
    OBVIOUS
  <2>14. given = ApplyGuideCache(bare, cache, sel, S.limits, S.wires).guides
    BY <2>5, <2>9, <2>13
  <2>15. ASSUME Authored(guides, curves, S.wires) = <<>>
         PROVE  \E mapping \in Matchings(Len(guides)) :
                  /\ \A g \in DOMAIN guides : Tail(given[g].cvs) = Tail(curves[mapping[g]].cvs)
                  /\ CostsLeast(Costs(guides, curves), mapping)
    <3>1. PICK limits : limits = S.limits
      OBVIOUS
    <3>2. PICK wires : wires = S.wires
      OBVIOUS
    <3>3. PICK turned : turned = [g \in DOMAIN bare.guides |-> TurnedGuide(bare.guides, g)]
      OBVIOUS
    <3>4. PICK strands : strands = CacheCurves(cache, sel)
      OBVIOUS
    <3>5. guides = turned /\ curves = strands
      BY <3>3, <3>4, Zenon
    <3>6. Authored(turned, strands, wires) = <<>>
      BY <2>15, <3>2, <3>5
    <3>7. ApplyGuideCache(bare, cache, sel, limits, wires) # Refused
      BY <2>12, <3>1, <3>2
    <3> HIDE DEF guides, curves
    <3>8. \E mapping \in Matchings(Len(turned)) :
            /\ \A g \in DOMAIN turned :
                 Tail(ApplyGuideCache(bare, cache, sel, limits, wires).guides[g].cvs) = Tail(strands[mapping[g]].cvs)
            /\ CostsLeast(Costs(turned, strands), mapping)
      BY <2>8, <2>10, <2>11, <3>3, <3>4, <3>6, <3>7, CacheCostsLeast, SMTT(30)
    <3> QED
      BY <2>14, <3>1, <3>2, <3>5, <3>8
  <2> HIDE DEF guides, curves
  <2> QED
    BY <2>13, <2>15, Zenon DEF TakesTheLeast, sel, bare, cache, guides, curves
<1> HIDE DEF Taken
<1>2. ASSUME scene \in DOMAIN Scenes PROVE [Runs /\ UsesCache => Taken]_sceneVars
  BY <1>1, <1>2, Zenon
<1>3. SceneSpec => [](scene \in DOMAIN Scenes)
  BY SceneStays
<1>4. SceneSpec => [][Runs /\ UsesCache => Taken]_sceneVars
  BY <1>2, <1>3, PTL
<1> QED
  BY <1>4 DEF AssignmentIsMinimal, Taken

=============================================================================
