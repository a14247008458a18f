# NanoXGen in TLA+

Specifications of NanoXGen, a C++20 library that reads XGen grooms, generates
and deforms hair strands, and hands them to a renderer: its concurrent parts,
its files, and the whole way of a Classic description from the authored files to
curves. Each module is written from the source, checked by TLC on small
instances, and where it matters proved with TLAPS for all values of its
constants.

Paths are relative to the repository root; `src/task_executor.cpp` is the
library's source directory.

## The system

| component | state it keeps | operations | hard part |
|---|---|---|---|
| ThreadPool (`src/task_executor.cpp`) | job queue, groups with a count, an error, two condition variables | construct, `parallel_for`, destroy | nested calls, lost wakeups, exceptions, draining |
| Context (`src/context.cpp`) | a pool or a borrowed executor | three constructors | none: no later state |
| GroupDecode (`src/xgen.cpp`, the end of both readers) | group counter, failure flag, first error, slots | decode the groups of a BLOB on up to eight threads | unlocked slots, threads that cannot start |
| XGenDocument (`src/xgen.cpp`) | items, groups of arrays, evaluated curves | materialize, pack, process, build | shared arrays, readers that must agree, canonical order |
| XGenBlob (`src/xgen.cpp`) | bytes | parse, serialize, JSON | round trip, lengths |
| StrandRuntime (`src/xgen_classic_runtime.cpp`) | strand counter, curves rewritten in place, keep flags | apply a runtime plan, compact | exactly once on a 32-bit counter, stable compaction |
| ClassicCollection (`src/luisa/xgen_classic_collection.cpp`) | shader slots, compile tasks, recorded stream, two point buffers | compile, encode a motion table | concurrent compilation with failures, buffer parity, asynchronous device |
| ClassicMotion (`src/xgen_classic_collection.cpp`) | motion samples and their sources | plan, import, deform, rebuild, deduplicate | aliases must not merge different deformations, nor chain |
| StrandTiles (`src/asset.cpp`) | block counter, output arrays | generate on threads of its own | exactly once on a 32-bit counter, a thread that cannot start |
| Asset (`src/asset.cpp`, `include/nanoxgen/generate.h`) | an `.nxg` file | bake, check, load, sample, generate at rest or in a frame | alias table, indices of foreign files and callers, what was baked at rest |
| CurveCache, CurvePayload (`src/curve_cache.cpp`, `src/curve_payload.cpp`) | an `.nxc` file, batches | write in place, read, match, resample, batch | half written files, canonical order, limits |
| DeviceContract, LuisaKernels (`include/nanoxgen/device_contract.h`, `src/luisa/`) | device arrays | check a request, generate, bend, cut, clump, thicken | absent arrays, products of counts, kernels without branches |
| ClassicAlembic (`src/xgen_classic_alembic.cpp`) | an archive, surfaces, guides | import at a time, inspect for motion, assign a guide cache | what counts as static, a least-cost assignment |
| ClassicRoots (`src/xgen_classic_roots.cpp`) | roots, guide grid, influences | random, along guides, given; deform; interpolate | guides at the edge of their support, stale roots |
| Expression (`src/xgen_expression.cpp`) | an SSA program | compile, evaluate on host and device | precedence, choices computed on both sides |
| RuntimeLowering (`src/xgen_classic_runtime.cpp`) | a plan | lower a description, apply its effects | fallbacks, effects that bend and rebuild a strand in turn |
| ClumpBuild, Ptex, Xpd, Samples (`src/xgen_classic_clump.cpp`, `src/xgen_classic_ptex.cpp`, `src/xpd.cpp`, `src/xgen_samples.cpp`) | maps, points, rows of inputs | bind strands to guides, number inputs, read files | numbers that shift when a point is dropped |
| ColorExpression, ClassicParser, Package | parsed data | colours, text, inventory | text and vendored code |
| Tools (`tools/`) | a file or a set of curves | the order in which all of the above is called | stages that differ from tool to tool |

How they interact. The host application owns a `NanoXGenContext`, which owns a
`ThreadPool` or borrows the renderer's `TaskExecutor`. StrandRuntime,
ClassicMotion, ClumpBuild, Ptex and ColorExpression, and the compilation of
ClassicCollection, make `parallel_for()` calls on it, in some cases from inside
running tasks. GroupDecode and StrandTiles start threads of their own.
ClassicCollection records commands on a LuisaCompute stream that the renderer
owns and the device executes later. A Classic description is lowered to a plan;
its patches and guides are imported from an archive; roots are placed on them
with the guides that reach each; clumps and rows of inputs are bound to the roots;
and the curves between the guides are rewritten by the effects of the plan, on the
host or by kernels. Files are written in place, `.nxg` and `.nxc` alike: a tool that
ends in the middle, or is run again while others read, leaves a part of a file, and
only the check of the reader stands between that and a renderer.

The hazards, each with the line where it bites and the properties that would
catch it, are listed in `PROJECT.json`.

## Modules

The concurrent parts have a state machine each:

| module | models | state and actions |
|---|---|---|
| `ParallelFor` | the contract of `TaskExecutor::parallel_for` | an abstract specification: every index of an accepted call once, the call returns after all, throws exactly when one threw |
| `ThreadPool` | `src/task_executor.cpp` | every thread has a stack of the calls and jobs it is in the middle of, and a place in the innermost; mutexes are held between a predicate and the sleep |
| `GroupDecode` | the decoding in `parse_xgen_document` and `parse_fused_packed_curves` (variable `fused`) | what is wrong with the file is chosen at the start and unknown to the code until it meets it |
| `XGenDocument` | `materialize_xgen_curves`, the document's and the fused packed reader, `process_xgen_document`, `process_xgen_curves`, `build_xgen_document` | the algorithms are operators on documents; the state is a host's document and the curves it made of it, the actions process both or build the document anew |
| `StrandRuntime` | `apply_xgen_classic_float_runtime_plan_cpu` | chunk claims from a counter that wraps, a strand's outcome (kept, culled, fails), compaction |
| `ClassicCollection` | `compile_classic_collection`, `encode_motion`, `encode`, and a device that executes the stream | tasks and slots; commands with source and target buffer; a buffer holds the sequence of kernels its points went through |
| `ClassicMotion` | `prepare_description` of `build_xgen_classic_collection_motion_execution_plan`, and `resolve_xgen_classic_motion_deformation` | what the archives hold for each sample is chosen at the start; four parallel stages with jobs that may throw, and one turn of the loop that finds equal samples for an action |
| `StrandLoop` | what the parallel loops over strands promise | an abstract specification: every strand at most once, the call returns when all are done, or fails in the middle |
| `StrandTiles` | `parallel_for_strands` and the loop of the linear modifiers | the caller starts and joins threads, or works itself; blocks are claimed from a counter that wraps; a thread that cannot start ends the call or the process |
| `CurveDelivery` | `tools/xgen_cache.cpp`, `tools/xgen_to_nxc.cpp` and whoever loads their files | a tool reads documents, matches, builds, opens the file, writes it word by word and checks it; it may fail or end at any of these, and is run again; loads come at any time |
| `ClassicScene` | the tools for Classic descriptions | the stages of six tools; a scene is run, and the library is then asked for more with the assets and roots that the run has made |

Two towers of pure algorithms stand under the last two. They are operators without
state; each module extends the one before it:

| module | models |
|---|---|
| `BlobContainer` | headers, sections and alignment of the binary files, a file of which a part is written |
| `CurveCache` | `src/curve_cache.cpp`: the builder, its check, the views |
| `CurvePayload` | `src/curve_payload.cpp`: resampling, motion, values per strand, batches |
| `Vectors` | `include/nanoxgen/types.h` |
| `Asset` | `src/asset.cpp`: the alias table, guides near a triangle, the file and its check |
| `Generate` | `include/nanoxgen/generate.h`: a root, its guides, its curve; frames; requests |
| `DeviceContract` | the checks before a launch in the order of their errors, the generating kernels |
| `AlembicArchive` | times, transforms, and the question whether a node moves |
| `ClassicFiles` | where an authored path leads and where a collection has its directories after a move, PTEX and XPD files, the sample table |
| `ClassicAlembic` | patches, PTEX faces, guides, culling |
| `GuideAssignment` | the assignment of least cost between guides and curves |
| `GuideCache` | curves of a cache that are matched with guides, by name or by the cost of all |
| `ExpressionValues` | values and programs, their evaluation on host and device, ramps, hashes |
| `ClassicRoots` | generators, masks, regions, the guide grid, moved roots, base curves |
| `ClassicLowering` | a description becomes a runtime plan |
| `StrandEffects` | the effects of a plan on one strand on the host |
| `RuntimeKernels` | the same by a chain of kernels that hand a state on |
| `ClassicInputs` | rows of inputs, primvars, clump guides |

Beside the second tower stand `Expression`, the compiler from tokens to programs, and
`ExpressionTrees`, the trees that an expression is written from. The compiler is recursive, so the
tower takes it as a constant (`Compiled`; `TreeTokens` and `TreeWorth` for the
trees), and `MCClassicScene` gives the constants these two modules' definitions. What
is proved of the tower therefore holds with any compiler.

`MC...` are the small instances and `...Proofs` the theorems. `ClassicMotion`, `StrandRuntime` and
`StrandTiles` need no more than constants, so their `.cfg` gives them the values directly.

`GroupDecode` and `StrandTiles` have their own threads. `StrandRuntime`, `ClassicCollection` and
`ClassicMotion` use an executor; they rely on what `ParallelFor` states (each index once, the call
ends after all of them, an exception of one is rethrown), and `ThreadPool` is
proved to implement it, so the parts compose through that contract.
`ClassicMotion` and `ClassicCollection` meet in the table of sources: the plan
makes it, the renderer passes it on, and `encode_motion` refuses it unless no source is
a later sample or an alias. `SourcesResolve` of `ClassicMotion` is that
condition, and it is proved of every plan. `ClassicScene` composes everything that
computes: what its stages hand on are the values that the library hands on, so that a
property of its curves is one of all modules under it. The order of threads inside a
stage does not show there; it is the subject of `StrandRuntime`, `ClassicMotion` and
`ClassicCollection`.

Granularity. An action is a stretch of code no other thread can observe the
middle of: what is done under one mutex, one atomic operation, or work on
data nobody else touches. Atomics are sequentially consistent in the models;
the relaxed operations in the code are `fetch_add`s on counters, and a flag
(`failed` in `src/xgen.cpp`) that is only a hint to stop early and whose late
reading is one more interleaving. The results those threads wrote are read after
`join()` or `parallel_for()`, which synchronise. A run of a tool in `ClassicScene` is
one step, since no other process sees any of it but the file of an asset, of which
any part may be there; a run of a tool in `CurveDelivery` has one step for each
thing it does, for its file is read meanwhile.

In `ClassicScene` the values on the way are a function of the scene, computed
where a property looks at them, not variables: so a state stays small. The
properties are therefore about steps, that of the run (`Runs`) and that of a request
(`Asks`).

Definitions whose comment starts with "Mutation of" are wrong variants of the
definition they precede. No specification uses them; they serve to try whether
each property notices a bug of that kind.

### Abstractions

- Tasks of the pool: a task does nothing, throws, or makes a nested call.
- Bytes of a BLOB record: whether the record fits, and which array it is.
- Arrays of a document: elements instead of bytes; a position has one coordinate, a float
  is an integer or the one value that is not finite, so rounding is left out. JSON is
  read into items whose members are all there.
- Expressions, splines and effects in `StrandRuntime`: the outcome of a strand.
- A deformation of the patch in `ClassicMotion`: the roots, the guides and the clump axes that are
  computed from it, each an unstructured value. Descriptions are prepared concurrently, each
  on an object of its own, so one is modelled.
- Kernels in `ClassicCollection`: their names. That the commands of a stream are executed in order is
  how LuisaCompute streams are used in the code.
- Binary files: words of four bytes. An element of `k` words is its value `k` times.
  The hash of a body is the body, so that two bodies never have one hash by chance.
  Limits of 32 and 64 bits are constants.
- Geometry: coordinates are integers, and where the code divides, exact fractions
  (`Asset`, `Generate`) or numbers of a fixed point (`Expression` and what stands on it,
  where `Whole` stands for one; both sides of a comparison are rounded in the same way). Normalizing gives the signs of a vector, exact on the
  axes, and the instances are built along the axes. Weights, lengths and distances are squared or
  shares where the code takes roots.
- Surfaces: bilinear on the four corners of a PTEX face, which stands for OpenSubdiv.
  A PTEX map has a value for a face and a place; filtering is nearest.
- Random numbers of the asset: a draw for each strand, given with the scene. The hashes of
  Classic descriptions are computed, with a small modulus. The noise function, powers,
  logarithms and trigonometry are external, and are some fixed function on both sides.
- Text: tokens, path components and names, never characters.
- Timings, statistics, profile callbacks (apart from their exceptions), wording.

## Runs

| run | instance | shows |
|---|---|---|
| `pool_nested` | two workers, one client, an outer call of two tasks with a nested call each, two tasks that may throw, one spurious wakeup, destruction at any time, a thread that cannot start; fair | a call returns after all its jobs and throws as it must, drained destruction, the refinement of `ParallelFor`, in which no job is lost or runs twice; accepted calls and the destructor return |
| `pool_shared` | two clients, nested calls three deep, an empty call | no lost wakeup on either condition variable, no circle of waiting workers |
| `group_decode` | either reader, four groups, up to three threads, broken anywhere, thread start may fail, two arrays selected | the outcome is the file's, none outlives the call, termination |
| `document_curves` | 2293 documents of one or two items out of twenty arrays: shared, overlapping, too short, of wrong type, not finite, out of bounds; up to two calls that process or rebuild | processing a document and processing its curves come to the same, also through a rebuild; the three readers agree; canonical order is that of the set of curves |
| `strand_runtime` | five strands, chunks of two, three tasks, counter modulus 11 | each strand once, throws exactly when one fails, stable compaction, termination |
| `classic` | two descriptions, chains of up to two effects out of two modules, one or two workers, any task throws; one description with chains of up to three effects and all motion tables of up to three samples with good, equal, decreasing and not finite placements, all sources, any resources inconsistent | complete pipelines; every sample has its curves in the right buffer; everything ends |
| `classic_late` | two samples | a violation, see below |
| `strand_tiles` | up to five strands, blocks of one to six, up to three threads (asked for or chosen), counter modulus 8, thread start may fail | the refinement of `StrandLoop`, no thread outlives its locals |
| `motion_plan` | up to four samples, two values for roots and for guides, static or not, with or without strands, any job throws | every sample gets its own roots and guides, owners are complete |
| `motion_axes` | two samples | a violation, see below |
| `curve_delivery` | two runs of either tool, nine documents of up to three curves that differ in order, identity, length and finiteness, up to two motion samples, five sets of options for batches, files stopped at two sizes (in the header, in the sections) | motion follows its curve; a file that loads has been built; the builder takes exactly what its check takes and the views give it back; the limit of a batch changes no strand |
| `classic_scene` | more than forty scenes: every generator, effect, kind of archive, map, cache and path, six tools, assets cut at a word, over a hundred expressions, requests at, below and above every limit; a scene for every way to fail | see the next table |

What `classic_scene` says of a run or a request:

| property | of |
|---|---|
| `BackendsAgree` | host and kernels give the same strands, points and widths for a plan |
| `AccessesInBounds` | a request that is granted reads and writes inside the arrays it names |
| `AliasKeepsTheAreas` | a triangle is drawn with the share of the area that is its own |
| `RigidMotionMovesCurves` | a surface that only moves carries its curves |
| `StaticMeansStatic` | where one import stands for all samples, all would have been the same |
| `AssignmentIsMinimal` | no other assignment of cache curves to guides costs less, of all there are |
| `CompiledMeansItsTree` | an expression is worth what its tree is, with the parentheses that are needed |
| `PrimvarsAreTheStrands` | an attribute for the renderer has the value that the strand itself has |
| `RootsHaveTheirGuides` | the guide grid misses no guide, against a search of all |
| `ClumpsFollowTheirMap` | strands follow the guide at the point that their number in the map means |
| `StrandsStandOnTheirRoots` | effects leave the first point where it was |

Bounds. Two workers are enough for every interleaving of a notifier and a
sleeper; a third level of nesting is what makes a worker bury one wait under
another. Three decoding threads give one that fails, one that is late and one that has
passed the end. The strand counter's modulus is the smallest the assumption
allows, so an overrun of one claim would wrap onto strand zero; so it is for the
blocks of `strand_tiles`, where six is one more than all strands. Chains of up
to three effects have both parities of the buffers twice, and three samples
allow a chain of sources; the constraint `Within` of `MCClassicCollection` keeps the
large tables to one description, which is all that `encode_motion` is given. Two items are enough for
one array to be met again; two calls let a rebuild come after processing and the
other way round. Four samples
in a plan let one meet two owners and an alias. Three curves can be permuted
with no fixed point and have twins beside a third; a second run of a tool finds the file of the first.
The grooms of `classic_scene` have up to two faces, three guides and six strands: guides on, inside and
outside of a support, a strand that is culled before one that is kept, a
point of a map that is dropped before one that is used. `MaxWorkers` is two in `classic`, so the
three-quarters rule of larger contexts does not bite there; the proofs cover it.

Fairness is weak and per thread: a thread that can go on does, which is what an
operating system's scheduler gives. No fairness is assumed of clients making calls, of
exceptions, or of destruction; the condition variables may wake spuriously a
bounded number of times. In `ClassicCollection` the device is fair as well.

`CHECK_DEADLOCK` is off in `curve_delivery`, where runs of tools are bounded and nobody
has to load, and in `classic_scene`, which ends after one request. It is on
everywhere else; modules that end have a stuttering action that is enabled only in their final
states.

### What disagrees with the code's comments

`classic_late`: a comment in `encode_motion`
(`src/luisa/xgen_classic_collection.cpp:270`) says validation is deliberately
complete before the first command is recorded. Placements and sources are
checked up front. The resources of a sample are checked in `encode()`, when the
commands of the samples before it are already on the stream, so the situation
the comment describes, unwinding while an asynchronous backend executes sample
zero, is reachable with a later sample whose clump buffers do not match. TLC
gives the trace.

`motion_axes`: samples are found equal by the roots and tangents of their strands and
by their rebuilt guides (`src/xgen_classic_collection.cpp:615`). The clump axes
stand on points of their own and are built afterwards, from the surface of the owner
only. If the patch moves at such a point and at no root or guide, two samples that
differ share a preparation, although the header speaks of bit-identical
deformations and `docs/renderer-integration.md:161` of clump axes per unique
deformation. For roots and guides sharing is right, and that is proved.

### Where properties stop

Some properties have a precondition, because beyond it the code does what no text
of the repository calls right or wrong. Each is a hazard in `PROJECT.json`.

- `RoutesAgree` compares the positions of those curves that stand alone (`StandsAlone`): every item that refers
  to the positions of the curve has the curve too, and no other curve has a point of it. `process_xgen_document`
  takes a shared array for done after the first item, so that points which only a later item
  has stay where they are, and it moves a point of two curves twice. Number, identities and widths of the
  curves are compared for every document.
- `BackendsAgree` takes plans that `ReadsAlike` accepts. The amount of a clump is evaluated
  with the random prefix and the stray of the strand on the host
  (`src/xgen_classic_runtime.cpp:1913`) and with those of its guide in the kernel
  (`src/luisa/xgen_classic_runtime.cpp:798`), so with `rand()` in it the two differ. Width and length
  of a strand, read inside the expression that makes them or a taper, are known at
  different times. Only the kernels write widths that nothing asks for.
- `RigidMotionMovesCurves` leaves out clump noise without a reference position (`ClumpsStayTheSame`): its domain is
  the current place of the guide, so that it is another noise on each sample.
- The mode for one description of the benchmark tool never applies the guide cache
  (`tools/xgen_classic_luisa_benchmark.cpp:1686`), and the cold tool takes the
  name of the cache as it stands while the collection looks for a file that has moved with its
  description. The model has both as they are (`UsesCache`, `CachePath`).

## Proofs

All theorems hold for every value of the constants under the assumption each
module states (`...Assumption`): finite sets of threads, a task count for every
call, chunk sizes above zero, and so on. Two limit the program:
`StrandRuntimeAssumption` and `StrandTilesAssumption` say that the 32-bit counter has
room for one claim of each task, or thread, beyond the last strand, or block. The
code does not check this.

Each concurrent module defines an inductive invariant `IInv`, a conjunction of named parts,
which TLC can check like any other and the proofs module shows to be
inductive, one lemma for an action. The properties then follow from it. Some of
them hold of every instance by now and are not checked by a run any more: the
type invariants, `CountIsExact`, `ThreadsApart`, `SourcesAlwaysResolve` and the
other theorems without a "property" in `PROJECT.json`.

- `ThreadPoolProofs`. The layers of `IInv` are: stacks match places (a worker
  alternates jobs and calls); a call on a stack is open and a job on it is running, each
  once, and no job is lost on the way (`Located`); `remaining` counts queued and running jobs; who
  holds a mutex and what it knows by that; for every thread asleep whose condition has become
  true, a thread that still has the notification ahead; what the life of the pool says of its
  workers and callers (`Lifetime`); exceptions are on the way in one place only (`ErrorsInFlight`); and in
  every set of calls there is one whose jobs no other of them buries on a stack (`BuriedInOrder`).
  The wakeup theorems are not inductive without the layer of mutexes. The last layer is why
  workers cannot wait in a circle: a call cannot be buried by those made before its jobs were taken.
  Proved: `TypeCorrect`, `CountIsExact`, `ReturnsComplete`, `NoWakeupIsLost`,
  `NoCompletionIsLost`, `JobsAdvance`, `DestroyedDrained`, `NoDeadlockAmongWorkers`; and
  `Implements`, the refinement of `ParallelFor`: the call that a body waits for is read
  from the stacks (`InnerCalls`), a task that fails from the worker that carries its
  exception (`Failing`), and every action is one step of the contract or none.
- `GroupDecodeProofs`. `IInv` ties a claimed group to the one thread that
  holds it, a decoded group to its kept arrays and a broken one to
  the error. Proved: `OutcomeIsDetermined`, `ThreadsApart`, `EverySlotLoaded`,
  `LocalsOutliveThreads`, `FirstErrorIsKept`.
- `StrandRuntimeProofs`. `IInv` bounds the counter by the number of tasks that
  have seen the end, which is why it does not wrap, and says that a strand below the
  counter is rewritten or held by one task. Proved: `RewrittenOnce`,
  `TasksApart`, `ThrowsAsSequential`, `CompactionIsStable`.
- `ClassicCollectionProofs`. `CompileInv` says the tasks are the kernels of the
  descriptions so far, once each, and that a claimed task has filled its slot,
  is at work or has thrown. `EncodeInv` gives every recorded command its place in the chain
  of its sample (`CommandAt`), each preceded by the one before, so that
  the buffer a command reads is the one its predecessor wrote; executing the
  stream then keeps `Through`. Proved: `SamplesHaveCurves`, `PipelinesAreComplete`,
  `TasksHaveTheirSlots`, `RecordsGoodMotion`, `TypeCorrect`. That placements
  increasing between neighbours are increasing throughout is an induction; it is done with
  the least element of a set of naturals.
- `ClassicProofs`, of `ClassicMotion` and `ClassicScene`. `MotionInv` says how far the arrays of the owners have got in
  every stage, that a sample has always been like its source, and that the
  owners the loop has passed differ. That owners keep their arrays while aliases give
  theirs up is what the loop's test for owners ensures; without `SourcesResolve` in
  the invariant the comparison could read arrays that are gone. Proved:
  `SourcesAlwaysResolve`, `SharesItsOwn`, `OwnersHaveClumps`, `RepeatsAreShared`,
  `MotionTypeCorrect`.
  Of scenes: `StaticScenesAreStill`, in every scene that is run or asked, an archive that is taken
  for static gives one and the same import at every lookup that a stage may make. A way
  is a fold over the stages of its tool, and a lookup is made by the stage that imports; so
  the proof first shows what a fold makes of each stage in turn (`FoldsTo`, `StagesInTurn`),
  for folds whose values have no type. That static nodes stay where they are is an induction
  along the path of a node to the root, and the lemmas on archives in `GenerationProofs` carry it from the
  node to its patches and caches.
  `GuidesTakeTheLeast`, in every scene whose tool applies a guide cache: where names do not say which curve is
  whose, the guides of the import have the curves of the matching whose cost is least of all matchings.
  It puts the theorem on assignments (below) into the program, and what is left to show is that it applies:
  the table of costs is square and of numbers. So the proof follows the values
  on the way: what is selected for a time is within the samples (`SelectedWithin`), a patch that passes the checks has faces
  whose corners are vertices (`PatchIsSurface`, `CornerIsThere`), also for the PTEX faces of
  other polygons than quads; hence a guide that is imported has a root and points (`ImportedGuideTyped`, `ImportTyped`). Turning it
  changes none of them (`TurnedTyped`), the curves of a cache that fits have points (`CacheCurvesTyped`), and
  distances are divided by a scale that is not 0, for the code refuses where all first points are the same (`CostsTyped`). That the
  shape checks are enough for this is where the proof corrected the model: the code compares the length of a stored
  reference pose with the sample that the lookup starts from, and refuses a guide without CVs.
  Assumed of a scene is only what `SceneAssumption` says of what readers hand over: a path in an archive goes
  from a node to its parent, there is a value for each time, points have three numbers, a patch has a list of faces and
  of guides, and lookups are times.
- `XGenDocumentProofs`. The algorithms are folds over lists of items and curves.
  Induction over lists is done with the least element of a set of naturals, for a predicate
  given as a set (`Induct`); from it come what a fold does step by step (`Folds`) and
  where each part of a flattened list is (`Flattened`). `IInv` has the types; that documents with curves
  fit in all but the values of floats (`Shaped`), so that processing does not throw in the
  middle; `RoutesAgree` itself; and that in a document that was built every curve stands alone
  (`BuiltStandsAlone`), so that it has the curves it was built from, positions included. Proved:
  `Inductive`, `TypeCorrect`, `OneResult`, `OneReading`, `OneOrder`. `OneResult` does not ask how items
  share arrays: a shared array of widths is scaled as a whole and once; of a shared array of positions
  it is shown that finite points stay finite whoever moves them (`MovedIsFinite`), so that the
  document keeps its curves, and that a curve that stands alone is moved about its own root exactly once,
  by whichever item comes first (`MovedApart`, `PointsProcessed`). It says nothing of the positions of the other
  curves, for there the two routes do part. `OneReading` rests on
  the fused reader having every array that packing looks at, `OneOrder` on a curve's place being the number of those
  before it, which no permutation of the list changes if no two are equal.
- `CurveDeliveryProofs`, the largest. `IInv` says that what has been built says its own size and has the hash of its own
  body, and that the file is a part of such a cache. A part that
  passes the check is the whole, hence `LoadsAreBuilt`, for any documents, times,
  options, numbers of runs and sizes at which a write stops. It takes the hash for exact.
  `ToolInv` says where the curves of a tool come from (`Sources`: ordered documents, each motion sample
  matched with the base) and that the cache at hand was built from them. The rest is about the
  three functions, for curves of any number and length. Each lays parts
  one behind another, so the proofs are about where a part begins: `LaidIs` for the sections of a file,
  `Flattened` and `PartOfPart` for points within curves within samples.
  `CacheGivesItsInput` follows from `LaidIs` (each section is where its offset
  says) and `BuilderTakes` (the conditions of the builder imply those of its check, so that
  what remains is finiteness). `MotionIsOfItsCurve` needs that canonical order is
  sorted (`OrderedIs`) and that a document without equal neighbours has no equal identities at
  all (`NoDuplicatesDistinct`), for the tools compare neighbours only.
  `BatchesSayTheSame` compares the strand that a batch describes with what
  it would be in any other (`StrandIs`); the rest is the division that rounds up,
  which `BatchesHaveEveryStrandOnce` has by itself.
  Assumed of a scene is only that an identity which tells the curves of two documents apart
  means the same curve in both (`CurveDeliveryAssumption`).
- `GenerationProofs`, of `StrandTiles`, `DeviceContract` and `GuideAssignment`. `IInv` of the tiles says that the counter is
  beyond the last block by at most
  the number of workers that have seen the end, so that it cannot wrap while one
  still claims, and that a strand before the counter is generated or in the block of
  exactly one worker. Proved: `ThreadsAreJoined`, `TypeCorrect`, and
  `ImplementsLoop`, the safety part of the refinement of `StrandLoop`.
  Of the contract: what a request that is granted has room for, for any
  number of strands, points and samples: `GrantedGeneration`, `GrantedPacked`,
  `GrantedMotion`;
  and `StrandsApart`, no two strands write one element, which is why the
  kernels need no lock. The products of strands, points and samples are what makes this more than a
  comparison; `RowsApart` is the lemma on them.
  Of the asset: `TableKeepsTheAreas`, for any areas, the table from which a root draws its triangle gives each
  triangle its part of the total. `FillInv` says of the filling of the buckets that what a triangle
  still has and what has been left to it are its area, that a filled bucket has all that its
  triangle still had, and that over the other buckets the excess is 0 in sum. When one pile is empty the
  others are all of one sign, hence each of them is exactly full, which is why the code may
  leave their probability at 1. The lemmas before it (`Folds`, `SumOfChanged`, `SumOfScaled`,
  `SumOfNothing`) are the induction over the folds and sums.
  Of the guides: `AssignmentCostsLeast`, for any square table of whole costs, the curves of a guide cache are
  given to the guides one to one and no other way costs less in sum. Between two guides the potentials are
  below the costs everywhere and equal to them where a guide has its curve (`Feasible`, `Tight`). During
  the search for one guide (`GrowKeeps`) every column that has been reached has a path back to the guide, with a rank that falls
  along it, and equality on each of its edges; a free column is left because fewer columns than guides
  are taken (`ColumnIsLeft`), so the code's failure for want of one cannot happen, and the search ends within one
  turn more than there are columns (`SearchEnds`), which is why the bounded fold of the model is the code's loop.
  Following the path back (`FollowKeeps`) leaves one column without its
  guide, the one it is at, until that is column 0. In the end potentials show the sum to be the least (`PotentialsShowLeast`), as every
  assignment has the same sum of potentials.
  The costs of the code are distances in doubles; the theorem is about their order and sums without rounding.

Checked by TLC only:

- Liveness (every `...Returns`, `...Ends`, and the fairness in `ImplementsStrandLoop`), which is beyond the prover, as is `ENABLED`.
- The two properties that are expected to be violated.
- `CompiledMeansItsTree`: the compiler is recursive over tokens, and tlapm has no arithmetic in a
  module that reaches a recursive operator.
- The other properties of `ClassicScene`. Each is about the whole way from the files of a scene to its
  strands; a proof has to follow every stage in between with the types of all values on the way, as the
  two that are proved do as far as the import.
  One of the others has a theorem on the operators it is made of: `AliasKeepsTheAreas` on
  `KeepsTheAreas` of `Asset`. Matching by names and the last comparison of roots (`Authored`,
  `RootsMatch` in `GuideCache`) are only checked.

## Not modelled

- `ClassicParser`: lines of text become a description; every decision is about a character.
  The description is the input of `ClassicLowering`.
- `XGenBlob`: JSON text, compression and the bytes of records. `GroupDecode` and
  `XGenDocument` start where they end.
- `ColorExpression`: the value is that of vendored SeExpr; the chunks are those of `StrandRuntime`.
  `ClassicInputs` takes as an input whether an expression evaluates.
- `Context`: three constructors and no later state.
- The inventory of `Package`, the reports, timings and options of the tools, the
  comparison with Maya and the Maya plug-ins: reports over text, or code that needs Maya.
- Vendored SeExpr, the generated table of sample points, generated code of LuisaCompute.
- Rounding of floating-point numbers. Where the code takes a root mean square of the distances of a guide with a
  term of 1e-6 against ties (`GuideCache`, `Costs`), the model takes a mean of absolute differences; a power
  is any number that depends on its operands (`Power`).
- Limits that no property depends on: on ramp points and source bytes of an expression, on the product
  of samples, strands and points in 64 bits, and the check of the correlation parameter in `ParametersFit`.
- Two hazards of the pool have no property: memory running out while a call posts its
  jobs, and tasks of two pools that call each other. The first needs an allocator
  in the model, and nothing in the code does the second.

## Plan

1. The weights of a root on host and device as recursive functions, so that `BackendsAgree` can be proved for
   the generating kernels.
2. `XGenBlob`: parsing what was serialized gives the document, and no length leads outside the file.
