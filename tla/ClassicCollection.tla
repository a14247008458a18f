------------------------ MODULE ClassicCollection ------------------------
(***************************************************************************)
(* src/luisa/xgen_classic_collection.cpp: compile_classic_collection()      *)
(* makes one shader of every kernel a collection of descriptions uses, and  *)
(* encode_motion() records, for the samples of a motion table, the commands *)
(* of one description on a stream that belongs to the renderer.  The device *)
(* executes the stream in its order and whenever it likes.                  *)
(*                                                                          *)
(* The executor of the compilation is the one ParallelFor describes.  What  *)
(* a kernel computes is abstracted to its name: a point buffer holds the    *)
(* sequence of kernels its points went through.                             *)
(***************************************************************************)
EXTENDS Integers, Sequences

CONSTANTS
  MaxDescriptions, \* Bound: the most descriptions of a collection
  Modules,         \* the noise, cut and clump modules a description can have
  Plans,           \* the runtime plans a description can have, see Init
  MaxWorkers,      \* Bound: the largest worker count of a context
  MaxSamples,      \* maximum_motion_samples: 20
  Placements,      \* finite motion placements
  NotFinite,       \* a placement that is no number
  Strands          \* strand counts of a dispatch

ASSUME ClassicCollectionAssumption ==
  /\ MaxDescriptions \in Nat \ {0}
  /\ Modules \cap {"base", "primitive", "width"} = {}
  /\ Plans \subseteq [valid : BOOLEAN, modules : SUBSET Modules, effects : Seq(Modules)]
  /\ MaxWorkers \in Nat \ {0}
  /\ MaxSamples \in Nat \ {0}
  /\ Placements \subseteq Int
  /\ NotFinite \notin Int
  /\ Strands \subseteq Nat

VARIABLES
  plans,    \* the descriptions of the call, a sequence of Plans
  workers,  \* context_workers
  pc,       \* [Lanes \cup {Caller} -> place]
  current,  \* the description compile_classic_collection() is scheduling
  effect,   \* the effect it, or encode(), is at
  scheduled,\* the modules of that description that have a task
  tasks,    \* the kernels to compile, a sequence of <<description, name>>
  next,     \* next_task
  item,     \* [Lanes \cup {Caller} -> the task it compiles]
  slots,    \* the kernels whose shader_slot is filled
  call,     \* the arguments of encode_motion()
  sample,   \* the sample it is at
  sourceIsB,\* source_is_b
  stream,   \* the commands recorded so far
  done,     \* how many of them the device has executed
  content   \* [Samples -> [{"a", "b"} -> the kernels the points went through]]

compiling == <<current, scheduled, tasks, next, item, slots>>
encoding  == <<call, sample, sourceIsB, stream>>
device    == <<done, content>>
vars == <<plans, workers, pc, effect, compiling, encoding, device>>

Caller == 0
Lanes  == 1 .. MaxWorkers
Descriptions == 1 .. Len(plans)

Buffers == {"a", "b"}
Common == {"base", "primitive", "width"}

\* The arguments of encode_motion() before there is a call.
NoCall == [description |-> 0, samples |-> 0, matching |-> TRUE, placements |-> <<>>,
           sources |-> <<>>, consistent |-> <<>>, strands |-> 0, baseOnly |-> FALSE]

Least(m, n) == IF m <= n THEN m ELSE n

At(l, place) == pc[l] = place
Goto(l, place) == pc' = [pc EXCEPT ![l] = place]

-----------------------------------------------------------------------------
Init ==
  /\ \E n \in 0 .. MaxDescriptions : plans \in [1 .. n -> Plans]
  /\ workers \in 1 .. MaxWorkers
  /\ pc = [l \in Lanes \cup {Caller} |-> IF l = Caller THEN "validate" ELSE "idle"]
  /\ current = 1
  /\ effect = 0
  /\ scheduled = {}
  /\ tasks = <<>>
  /\ next = 1
  /\ item = [l \in Lanes \cup {Caller} |-> 1]
  /\ slots = {}
  /\ call = NoCall
  /\ sample = 0
  /\ sourceIsB = TRUE
  /\ stream = <<>>
  /\ done = 0
  /\ content = <<>>

-----------------------------------------------------------------------------
(* compile_classic_collection() *)

\* Nothing is compiled unless every description can be.
Validate ==
  /\ At(Caller, "validate")
  /\ Goto(Caller, IF Len(plans) > 0 /\ \A d \in Descriptions : plans[d].valid
                  THEN "schedule" ELSE "refused")
  /\ UNCHANGED <<plans, workers, effect, compiling, encoding, device>>

\* scheduled_noises, _cuts and _clumps of the next description.
Unscheduled == {}

\* The kernels that every description has.
ScheduleDescription ==
  /\ At(Caller, "schedule")
  /\ current <= Len(plans)
  /\ effect = 0
  /\ tasks' = tasks \o << <<current, "base">>, <<current, "primitive">>, <<current, "width">> >>
  /\ scheduled' = Unscheduled
  /\ effect' = 1
  /\ UNCHANGED <<plans, workers, pc, current, next, item, slots, encoding, device>>

\* launch(): one task for a module, at its first use.
WithTask(m) == IF m \in scheduled THEN tasks ELSE Append(tasks, <<current, m>>)

\* An effect of a module that is not there ends the call: std::out_of_range.
ScheduleEffect ==
  /\ At(Caller, "schedule")
  /\ current <= Len(plans)
  /\ effect \in 1 .. Len(plans[current].effects)
  /\ LET m == plans[current].effects[effect]
     IN IF m \in plans[current].modules
        THEN /\ tasks' = WithTask(m)
             /\ scheduled' = scheduled \cup {m}
             /\ effect' = effect + 1
             /\ UNCHANGED pc
        ELSE Goto(Caller, "refused") /\ UNCHANGED <<tasks, scheduled, effect>>
  /\ UNCHANGED <<plans, workers, current, next, item, slots, encoding, device>>

EndDescription ==
  /\ At(Caller, "schedule")
  /\ current <= Len(plans)
  /\ effect > Len(plans[current].effects)
  /\ current' = current + 1
  /\ effect' = 0
  /\ UNCHANGED <<plans, workers, pc, scheduled, tasks, next, item, slots, encoding, device>>

\* worker_limit: three quarters of the workers of a larger context.
WorkerLimit ==
  Least(Len(tasks), IF workers <= 4 THEN workers ELSE workers - workers \div 4)

Alone == Len(tasks) <= 1 \/ WorkerLimit <= 1

\* Everything is scheduled: the tasks run here, or in a parallel_for().
StartTasks ==
  /\ At(Caller, "schedule")
  /\ current > Len(plans)
  /\ pc' = [l \in Lanes \cup {Caller} |->
              IF l = Caller THEN IF Alone THEN "claim" ELSE "wait"
              ELSE IF ~Alone /\ l <= WorkerLimit THEN "claim" ELSE "idle"]
  /\ UNCHANGED <<plans, workers, effect, compiling, encoding, device>>

\* Mutation of NextTask: the counter stays.
NextTaskAgain == next

NextTask == next + 1

\* next_task.fetch_add(1), or the next turn of the loop of the caller.
Claim(l) ==
  /\ At(l, "claim")
  /\ item' = [item EXCEPT ![l] = next]
  /\ next' = NextTask
  /\ Goto(l, IF next <= Len(tasks) THEN "compile"
             ELSE IF l = Caller THEN "ready" ELSE "done")
  /\ UNCHANGED <<plans, workers, effect, current, scheduled, tasks, slots, encoding, device>>

\* slot->emplace(device.compile())
Compile(l) ==
  /\ At(l, "compile")
  /\ slots' = slots \cup {tasks[item[l]]}
  /\ Goto(l, "claim")
  /\ UNCHANGED <<plans, workers, effect, current, scheduled, tasks, next, item, encoding, device>>

\* device.compile(), or profile_task, throws: the slot stays as it is.
CompileFails(l) ==
  /\ At(l, "compile")
  /\ Goto(l, IF l = Caller THEN "refused" ELSE "threw")
  /\ UNCHANGED <<plans, workers, effect, compiling, encoding, device>>

\* Mutation of AfterTasks: an exception of a task is swallowed.
AfterTasksIgnoringErrors == "ready"

\* parallel_for() rethrows an exception of a task, once all have ended.
AfterTasks == IF \E l \in Lanes : At(l, "threw") THEN "refused" ELSE "ready"

EndTasks ==
  /\ At(Caller, "wait")
  /\ \A l \in Lanes : ~At(l, "claim") /\ ~At(l, "compile")
  /\ Goto(Caller, AfterTasks)
  /\ UNCHANGED <<plans, workers, effect, compiling, encoding, device>>

-----------------------------------------------------------------------------
(* encode_motion() and encode() *)

Samples == 0 .. call.samples - 1

\* Only a sample that is its own source has buffers that are looked at.
OwnSamples(sources) == {i \in DOMAIN sources : sources[i] = i}

\* The renderer encodes a motion table: "matching" is whether the three spans
\* are of one size, "consistent" whether a sample's resources fit the pipeline.
CallEncodeMotion ==
  /\ At(Caller, "ready")
  /\ \E description \in 0 .. Len(plans), samples \in 0 .. MaxSamples + 1, matching \in BOOLEAN,
       strands \in Strands, baseOnly \in BOOLEAN :
       LET size == IF samples <= MaxSamples /\ matching THEN samples ELSE 0
       IN \E placements \in [0 .. size - 1 -> Placements \cup {NotFinite}],
            sources \in [0 .. size - 1 -> 0 .. size] :
            \E consistent \in [OwnSamples(sources) -> BOOLEAN] :
              call' = [description |-> description, samples |-> samples,
                       matching |-> matching, placements |-> placements,
                       sources |-> sources, consistent |-> consistent,
                       strands |-> strands, baseOnly |-> baseOnly]
  /\ Goto(Caller, "check")
  /\ UNCHANGED <<plans, workers, effect, compiling, sample, sourceIsB, stream, device>>

SizesFit == call.samples \in 1 .. MaxSamples /\ call.matching

PlacementsIncrease ==
  /\ \A i \in Samples : call.placements[i] # NotFinite
  /\ \A i \in Samples \ {0} : call.placements[i] > call.placements[i - 1]

SourcesResolve ==
  \A i \in Samples : /\ call.sources[i] <= i
                     /\ call.sources[call.sources[i]] = call.sources[i]

MotionIsValid == SizesFit /\ PlacementsIncrease /\ SourcesResolve

CheckMotion ==
  /\ At(Caller, "check")
  /\ Goto(Caller, IF MotionIsValid THEN "sample" ELSE "threw")
  /\ content' = [s \in Samples |-> [b \in Buffers |-> <<>>]]
  /\ UNCHANGED <<plans, workers, effect, compiling, encoding, done>>

IsEncoded(s) == call.sources[s] = s

\* A sample that another one stands for is passed over.
SkipSample ==
  /\ At(Caller, "sample")
  /\ sample < call.samples
  /\ ~IsEncoded(sample)
  /\ sample' = sample + 1
  /\ UNCHANGED <<plans, workers, pc, effect, compiling, call, sourceIsB, stream, device>>

HasSlot(name) == <<call.description, name>> \in slots

\* The checks of encode(), before its first command.
DispatchIsValid ==
  /\ call.description \in Descriptions
  /\ call.strands # 0
  /\ call.consistent[sample]
  /\ \A name \in Common : HasSlot(name)

Record(place, name, source, target) ==
  stream' = Append(stream, [sample |-> sample, place |-> place, kernel |-> name,
                            source |-> source, target |-> target])

\* The base curves go into points_a.
EncodeBase ==
  /\ At(Caller, "sample")
  /\ sample < call.samples
  /\ IsEncoded(sample)
  /\ IF DispatchIsValid
     THEN /\ Record(1, "base", "none", "a")
          /\ IF call.baseOnly
             THEN sample' = sample + 1 /\ UNCHANGED pc
             ELSE Goto(Caller, "primitive") /\ UNCHANGED sample
     ELSE Goto(Caller, "threw") /\ UNCHANGED <<sample, stream>>
  /\ UNCHANGED <<plans, workers, effect, compiling, call, sourceIsB, device>>

EncodePrimitive ==
  /\ At(Caller, "primitive")
  /\ Record(2, "primitive", "a", "b")
  /\ sourceIsB' = TRUE
  /\ effect' = 1
  /\ Goto(Caller, "effects")
  /\ UNCHANGED <<plans, workers, compiling, call, sample, device>>

Effects == plans[call.description].effects

\* Mutation of Flip: the effect reads where the one before it read.
FlipNot(isB) == isB

Flip(isB) == ~isB

\* A clump, noise or cut reads one of the buffers and writes the other.
EncodeEffect ==
  /\ At(Caller, "effects")
  /\ effect <= Len(Effects)
  /\ IF HasSlot(Effects[effect])
     THEN /\ IF sourceIsB THEN Record(effect + 2, Effects[effect], "b", "a")
                          ELSE Record(effect + 2, Effects[effect], "a", "b")
          /\ sourceIsB' = Flip(sourceIsB)
          /\ effect' = effect + 1
          /\ UNCHANGED pc
     ELSE Goto(Caller, "missing") /\ UNCHANGED <<sourceIsB, effect, stream>>
  /\ UNCHANGED <<plans, workers, compiling, call, sample, device>>

\* output_is_points_a()
OutputIsPointsA(baseOnly) == baseOnly \/ Len(Effects) % 2 # 0

Output(baseOnly) == IF OutputIsPointsA(baseOnly) THEN "a" ELSE "b"

\* The width is set in place, where the last effect left the points.
EncodeWidth ==
  /\ At(Caller, "effects")
  /\ effect > Len(Effects)
  /\ Record(effect + 2, "width", Output(FALSE), Output(FALSE))
  /\ sample' = sample + 1
  /\ Goto(Caller, "sample")
  /\ UNCHANGED <<plans, workers, effect, compiling, call, sourceIsB, device>>

EndMotion ==
  /\ At(Caller, "sample")
  /\ sample >= call.samples
  /\ Goto(Caller, "returned")
  /\ UNCHANGED <<plans, workers, effect, compiling, encoding, device>>

\* The device executes the next command of the stream.
Execute ==
  /\ done < Len(stream)
  /\ LET c == stream[done + 1]
         points == IF c.source = "none" THEN <<>> ELSE content[c.sample][c.source]
     IN content' = [content EXCEPT ![c.sample][c.target] = Append(points, c.kernel)]
  /\ done' = done + 1
  /\ UNCHANGED <<plans, workers, pc, effect, compiling, encoding>>

-----------------------------------------------------------------------------
Schedule == ScheduleDescription \/ ScheduleEffect \/ EndDescription \/ StartTasks

CompileTask(l) == Claim(l) \/ Compile(l) \/ CompileFails(l)

EncodeMotion ==
  \/ CheckMotion \/ SkipSample
  \/ EncodeBase \/ EncodePrimitive \/ EncodeEffect \/ EncodeWidth \/ EndMotion

\* The calls have ended and the stream is empty.
Finished ==
  /\ pc[Caller] \in {"refused", "threw", "missing", "returned"}
  /\ done = Len(stream)
  /\ UNCHANGED vars

Next ==
  \/ Validate \/ Schedule \/ EndTasks
  \/ CallEncodeMotion \/ EncodeMotion \/ Execute \/ Finished
  \/ \E l \in Lanes \cup {Caller} : CompileTask(l)

Spec == Init /\ [][Next]_vars

\* A call that began runs on, so do the workers, and the device empties its
\* stream.  Nobody has to call encode_motion().
Fairness ==
  /\ WF_vars(Validate \/ Schedule \/ EndTasks \/ EncodeMotion)
  /\ WF_vars(Execute)
  /\ \A l \in Lanes \cup {Caller} : WF_vars(CompileTask(l))

FairSpec == Spec /\ Fairness

-----------------------------------------------------------------------------
(* Properties *)

Places == {"validate", "schedule", "wait", "claim", "compile", "ready", "check", "sample",
           "primitive", "effects", "refused", "threw", "missing", "returned"}

TypeOK ==
  /\ pc \in [Lanes \cup {Caller} -> Places \cup {"idle", "done"}]
  /\ workers \in 1 .. MaxWorkers
  /\ current \in 1 .. Len(plans) + 1
  /\ effect \in Nat
  /\ scheduled \subseteq Modules
  /\ tasks \in Seq(Descriptions \X (Common \cup Modules))
  /\ next \in Nat \ {0}
  /\ item \in [Lanes \cup {Caller} -> Nat \ {0}]
  /\ slots \subseteq Descriptions \X (Common \cup Modules)
  /\ sample \in 0 .. call.samples
  /\ sourceIsB \in BOOLEAN
  /\ done \in 0 .. Len(stream)

\* Two tasks never fill one shader_slot, at the same time or one after the
\* other: a pipeline that uses a module several times compiles it once.
EveryTaskHasItsSlot ==
  \A i, j \in 1 .. Len(tasks) : tasks[i] = tasks[j] => i = j

KernelsOf(d) == Common \cup {plans[d].effects[i] : i \in 1 .. Len(plans[d].effects)}

\* A pipeline that is handed out has every shader its descriptions use,
\* whatever the number of workers and although any task may have thrown, and so
\* the "shader is missing" of encode() is out of reach.
PipelineIsComplete ==
  /\ pc[Caller] \notin {"validate", "schedule", "wait", "claim", "compile", "refused"} =>
       slots = UNION {{d} \X KernelsOf(d) : d \in Descriptions}
  /\ pc[Caller] # "missing"

Chain(d) == <<"base", "primitive">> \o plans[d].effects \o <<"width">>

Wanted == IF call.baseOnly THEN <<"base">> ELSE Chain(call.description)

\* Once encode_motion() has returned and the stream is empty, every sample of
\* the motion table finds the points of the whole chain of kernels, each applied
\* once and in order, in the buffer output_is_points_a() names, of the sample
\* its deformation source is.
EverySampleHasCurves ==
  pc[Caller] = "returned" /\ done = Len(stream) =>
    \A s \in Samples : content[call.sources[s]][Output(call.baseOnly)] = Wanted

\* What is recorded belongs to a good motion table: its placements are in order,
\* each sample has an own sample that is not after it, and there are strands.
OnlyGoodMotionIsRecorded ==
  stream # <<>> =>
    /\ call.strands > 0 /\ call.consistent[0]
    /\ \A i, j \in Samples : i < j =>
         NotFinite \notin {call.placements[i], call.placements[j]}
         /\ call.placements[i] < call.placements[j]
    /\ \A i \in Samples : \E j \in OwnSamples(call.sources) : call.sources[i] = j /\ j <= i

\* What the comment at lines 270-272 promises of every exception: "Validation is
\* deliberately complete before the first command is recorded."
ThrowRecordsNothing == pc[Caller] = "threw" => stream = <<>>

\* The compilation ends whatever its tasks throw, encode_motion() ends if it is
\* called, and then the stream runs dry.
EverythingEnds ==
  <>[](pc[Caller] \in {"refused", "ready", "threw", "returned"} /\ done = Len(stream))

-----------------------------------------------------------------------------
(* The inductive invariant *)

Command ==
  [sample : Nat, place : Nat, kernel : Common \cup Modules,
   source : Buffers \cup {"none"}, target : Buffers]

\* The types, those of the arguments and of the stream included.
Typed ==
  /\ TypeOK
  /\ \E n \in 0 .. MaxDescriptions : plans \in [1 .. n -> Plans]
  /\ call.samples \in Nat /\ call.strands \in Nat
  /\ stream \in Seq(Command)

Scheduling == pc[Caller] \in {"validate", "schedule"}
Compiling  == pc[Caller] \in {"wait", "claim", "compile"}
Compiled   == ~Scheduling /\ ~Compiling /\ pc[Caller] # "refused"

\* The kernels description d has tasks for.
TaskedOf(d) ==
  IF d < current THEN KernelsOf(d)
  ELSE IF d = current /\ effect > 0 /\ d <= Len(plans)
       THEN Common \cup {plans[d].effects[i] : i \in 1 .. effect - 1}
       ELSE {}

\* The tasks are the kernels of the descriptions before the current one, and its
\* own up to the effect it is at; each stands there once.
TasksKnown ==
  /\ EveryTaskHasItsSlot
  /\ \A i \in 1 .. Len(tasks) :
       \E d \in Descriptions : \E k \in KernelsOf(d) : tasks[i] = <<d, k>>
  /\ pc[Caller] = "validate" => current = 1 /\ effect = 0 /\ tasks = <<>>
  /\ Scheduling =>
       /\ next = 1 /\ slots = {}
       /\ \A l \in Lanes : At(l, "idle")
       /\ current <= Len(plans) => effect <= Len(plans[current].effects) + 1
       /\ current > Len(plans) => effect = 0
       /\ effect > 0 => scheduled = {plans[current].effects[i] : i \in 1 .. effect - 1}
       /\ \A i \in 1 .. Len(tasks) :
            \E d \in Descriptions : \E k \in TaskedOf(d) : tasks[i] = <<d, k>>
       /\ \A d \in Descriptions : \A k \in TaskedOf(d) :
            \E i \in 1 .. Len(tasks) : tasks[i] = <<d, k>>
  /\ Compiling \/ Compiled =>
       \A d \in Descriptions : \A k \in KernelsOf(d) :
         \E i \in 1 .. Len(tasks) : tasks[i] = <<d, k>>

\* A task that was claimed is at work, or has filled its slot, or has thrown.
TasksClaimed ==
  /\ \A l \in Lanes : pc[l] \in {"idle", "claim", "compile", "threw", "done"}
  /\ \A l \in Lanes \cup {Caller} :
       At(l, "compile") => item[l] < next /\ item[l] \in 1 .. Len(tasks)
  /\ \A k \in slots : \E i \in 1 .. Len(tasks) : tasks[i] = k
  /\ Compiling =>
       \A i \in 1 .. Len(tasks) :
         \/ ~(i < next)
         \/ tasks[i] \in slots
         \/ \E l \in Lanes \cup {Caller} : At(l, "compile") /\ item[l] = i
         \/ \E l \in Lanes : At(l, "threw")
  /\ \A l \in Lanes : At(l, "claim") \/ At(l, "compile") => At(Caller, "wait")
  /\ pc[Caller] = "wait" => \E l \in Lanes : pc[l] # "idle"
  /\ (\E l \in Lanes : At(l, "done")) /\ Compiling => next > Len(tasks)
  /\ pc[Caller] \in {"claim", "compile"} => \A l \in Lanes : At(l, "idle")
  /\ Compiled => \A i \in 1 .. Len(tasks) : tasks[i] \in slots

CompileInv == TasksKnown /\ TasksClaimed

\* The place of the last command of a sample, and what a command is, by its place.
Last == IF call.baseOnly THEN 1 ELSE Len(Effects) + 3

Buffer(place) == IF place % 2 = 1 THEN "a" ELSE "b"

Kernel(place) ==
  IF place = 1 THEN "base"
  ELSE IF place = 2 THEN "primitive"
  ELSE IF place < Len(Effects) + 3 THEN Effects[place - 2]
  ELSE "width"

Source(place) ==
  IF place = 1 THEN "none" ELSE Buffer(place - 1)

Target(place) ==
  IF place = Len(Effects) + 3 THEN Buffer(place - 1) ELSE Buffer(place)

CommandAt(s, p) ==
  [sample |-> s, place |-> p, kernel |-> Kernel(p), source |-> Source(p), target |-> Target(p)]

\* The place of the command that is recorded next.
Pending ==
  CASE pc[Caller] = "primitive" -> 2
    [] pc[Caller] = "effects"   -> effect + 2
    [] OTHER                    -> 1

Encoding == pc[Caller] \in {"sample", "primitive", "effects", "returned"}

CallKnown ==
  /\ pc[Caller] # "missing"
  /\ SizesFit => /\ call.sources \in [Samples -> Nat]
                 /\ call.placements \in [Samples -> Placements \cup {NotFinite}]
  /\ Scheduling \/ Compiling \/ pc[Caller] \in {"ready", "refused"} => call = NoCall
  /\ pc[Caller] \notin {"sample", "primitive", "effects", "threw", "returned"} =>
       stream = <<>> /\ sample = 0
  /\ Encoding =>
       MotionIsValid /\ sample <= call.samples
  /\ stream # <<>> =>
       /\ MotionIsValid
       /\ call.description \in Descriptions
       /\ call.strands > 0 /\ call.consistent[0]
  /\ pc[Caller] \in {"primitive", "effects"} =>
       /\ call.description \in Descriptions
       /\ ~call.baseOnly /\ sample < call.samples /\ IsEncoded(sample) /\ stream # <<>>
  /\ pc[Caller] = "effects" =>
       /\ effect \in 1 .. Len(Effects) + 1
       /\ sourceIsB <=> effect % 2 = 1

\* The commands are those of own samples, and each is preceded by the one of the
\* place before.
WellFormed(commands) ==
  \A j \in 1 .. Len(commands) : \E s \in Samples : \E p \in 1 .. Last :
    /\ IsEncoded(s)
    /\ commands[j] = CommandAt(s, p)
    /\ p > 1 => /\ j > 1
                /\ commands[j - 1].sample = s
                /\ commands[j - 1].place = p - 1

InOrder(commands) ==
  \A i, j \in 1 .. Len(commands) :
    i < j => \/ commands[i].sample < commands[j].sample
             \/ commands[i].sample = commands[j].sample /\ commands[i].place < commands[j].place

\* Place p of sample s comes next.
Before(commands, s, p) ==
  /\ \A j \in 1 .. Len(commands) :
       \/ commands[j].sample < s
       \/ commands[j].sample = s /\ commands[j].place < p
  /\ p > 1 => commands[Len(commands)].sample = s /\ commands[Len(commands)].place = p - 1

\* The own samples before sample n have all their commands.
CompleteBefore(commands, n) ==
  \A s \in 0 .. n - 1 : IsEncoded(s) =>
    \E j \in 1 .. Len(commands) : commands[j].sample = s /\ commands[j].place = Last

\* The commands of the samples follow one another, each sample's in the order of
\* its places; the last one recorded is the one before the pending one.
StreamKnown ==
  /\ WellFormed(stream) /\ InOrder(stream)
  /\ Encoding => Before(stream, sample, Pending) /\ CompleteBefore(stream, sample)
  /\ pc[Caller] = "returned" => sample = call.samples

\* The points went through the kernels up to a place.
Through(points, place) ==
  Len(points) = place /\ \A i \in 1 .. place : points[i] = Kernel(i)

ContentKnown ==
  /\ stream # <<>> => content \in [Samples -> [Buffers -> Seq(Common \cup Modules)]]
  /\ Encoding => content \in [Samples -> [Buffers -> Seq(Common \cup Modules)]]
  /\ \A j \in 1 .. done :
       j = done \/ stream[j].place = Last =>
         Through(content[stream[j].sample][stream[j].target], stream[j].place)

EncodeInv == CallKnown /\ StreamKnown /\ ContentKnown

IInv == Typed /\ CompileInv /\ EncodeInv
=============================================================================
