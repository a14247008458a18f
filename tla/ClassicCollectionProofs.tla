---------------------- MODULE ClassicCollectionProofs ----------------------
(***************************************************************************)
(* A collection that was compiled has every shader its commands need, and   *)
(* the commands of a motion table leave the curves of every sample where    *)
(* the renderer looks for them: for any descriptions, workers and samples.  *)
(***************************************************************************)
EXTENDS ClassicCollection, SequenceTheorems, WellFoundedInduction, TLAPS

\* A set of naturals that is not empty has a least element.
LEMMA LeastNatural ==
  ASSUME NEW T \in SUBSET Nat, T # {}
  PROVE  \E x \in T : \A y \in T : x <= y
<1>1. PICK R : R = OpToRel(<, Nat)
  OBVIOUS
<1>2. IsWellFoundedOn(R, Nat)
  BY <1>1, NatLessThanWellFounded
<1>3. PICK x \in T : \A y \in T : ~(<<y, x>> \in R)
  BY <1>2, WFMin
<1>4. R = {ss \in Nat \X Nat : ss[1] < ss[2]}
  BY <1>1, Zenon DEF OpToRel
<1>5. \A y \in T : y < x => <<y, x>> \in R
  BY <1>4
<1>6. \A y \in T : y < x => FALSE
  BY <1>3, <1>5
<1>7. x \in Nat /\ \A y \in T : y \in Nat
  BY <1>3
<1> QED
  BY <1>3, <1>6, <1>7

All == Lanes \cup {Caller}

Names == Common \cup Modules

\* A description is one of the plans; its effects are modules.
LEMMA PlanFacts ==
  ASSUME NEW n \in Nat, plans \in [1 .. n -> Plans]
  PROVE  /\ Len(plans) = n /\ Descriptions = 1 .. n
         /\ \A d \in Descriptions :
              /\ plans[d].effects \in Seq(Modules) /\ plans[d].modules \subseteq Modules
              /\ Len(plans[d].effects) \in Nat
              /\ \A i \in 1 .. Len(plans[d].effects) : plans[d].effects[i] \in Modules
<1>1. plans \in Seq(Plans)
  OBVIOUS
<1>2. Len(plans) = n
  BY <1>1
<1>3. Descriptions = 1 .. n
  BY <1>2 DEF Descriptions
<1>4. ASSUME NEW d \in Descriptions
      PROVE  /\ plans[d].effects \in Seq(Modules) /\ plans[d].modules \subseteq Modules
             /\ Len(plans[d].effects) \in Nat
             /\ \A i \in 1 .. Len(plans[d].effects) : plans[d].effects[i] \in Modules
  <2>1. plans[d] \in [valid : BOOLEAN, modules : SUBSET Modules, effects : Seq(Modules)]
    BY <1>3, ClassicCollectionAssumption
  <2>2. plans[d].effects \in Seq(Modules) /\ plans[d].modules \subseteq Modules
    BY <2>1
  <2> QED
    BY <2>2, LenProperties, ElementOfSeq
<1> QED
  BY <1>2, <1>3, <1>4

LEMMA InitIInv == Init => IInv
<1> SUFFICES ASSUME Init PROVE IInv
  OBVIOUS
<1> USE DEF Init
<1>0. PICK n \in 0 .. MaxDescriptions : plans \in [1 .. n -> Plans]
  BY DEF Init
<1>1. /\ n \in Nat /\ Len(plans) = n /\ Descriptions = 1 .. n
  BY <1>0, PlanFacts, ClassicCollectionAssumption
<1>2. pc[Caller] = "validate" /\ \A l \in Lanes : pc[l] = "idle"
  BY DEF Lanes, Caller
<1>3. Typed
  <2>1. TypeOK
    BY <1>1 DEF TypeOK, NoCall, Places, Caller
  <2>2. call.samples = 0 /\ call.strands = 0
    BY DEF NoCall
  <2> QED
    BY <1>0, <2>1, <2>2 DEF Typed
<1>4. CompileInv
  <2>1. TasksKnown
    BY <1>1, <1>2 DEF TasksKnown, EveryTaskHasItsSlot, Scheduling, Compiling, Compiled, TaskedOf, At
  <2>2. TasksClaimed
    BY <1>1, <1>2 DEF TasksClaimed, Scheduling, Compiling, Compiled, At
  <2> QED
    BY <2>1, <2>2 DEF CompileInv
<1>5. EncodeInv
  <2>1. CallKnown
    BY <1>2 DEF CallKnown, Encoding, NoCall, SizesFit
  <2>2. StreamKnown /\ ContentKnown
    BY <1>2 DEF StreamKnown, WellFormed, InOrder, Before, CompleteBefore, ContentKnown, Encoding
  <2> QED
    BY <2>1, <2>2 DEF EncodeInv
<1> QED
  BY <1>3, <1>4, <1>5 DEF IInv

-----------------------------------------------------------------------------
(* The compilation *)

\* What the invariant says of the descriptions, for the steps to use.
LEMMA IInvPlans ==
  ASSUME IInv
  PROVE  /\ Len(plans) \in Nat /\ Descriptions = 1 .. Len(plans)
         /\ Len(plans) \in 0 .. MaxDescriptions /\ plans \in [1 .. Len(plans) -> Plans]
         /\ \A d \in Descriptions :
              /\ plans[d].effects \in Seq(Modules) /\ plans[d].modules \subseteq Modules
              /\ Len(plans[d].effects) \in Nat
              /\ \A i \in 1 .. Len(plans[d].effects) : plans[d].effects[i] \in Modules
<1>1. PICK n \in 0 .. MaxDescriptions : plans \in [1 .. n -> Plans]
  BY DEF IInv, Typed
<1> QED
  BY <1>1, PlanFacts, ClassicCollectionAssumption

\* As long as nothing is encoded, nothing is recorded.
LEMMA NotYetEncoding ==
  ASSUME IInv, Scheduling \/ Compiling,
         UNCHANGED <<plans, encoding, device>>, 
         pc'[Caller] \notin {"check", "sample", "primitive", "effects", "threw", "missing", "returned"}
  PROVE  EncodeInv'
<1>1. /\ call = NoCall /\ stream = <<>> /\ sample = 0 /\ done = 0
      /\ call' = NoCall /\ stream' = <<>> /\ sample' = 0 /\ done' = 0
  <2>1. call = NoCall /\ stream = <<>> /\ sample = 0
    BY DEF IInv, EncodeInv, CallKnown, Scheduling, Compiling
  <2>2. done = 0
    BY <2>1 DEF IInv, Typed, TypeOK
  <2> QED
    BY <2>1, <2>2 DEF encoding, device
<1>2. CallKnown'
  BY <1>1 DEF CallKnown, Encoding, NoCall, SizesFit
<1>3. StreamKnown' /\ ContentKnown'
  BY <1>1 DEF StreamKnown, WellFormed, InOrder, Before, CompleteBefore, ContentKnown, Encoding
<1> QED
  BY <1>2, <1>3 DEF EncodeInv


\* The descriptions are looked at, or the tasks are over: only a place changes.
LEMMA ValidateStep == IInv /\ Validate => IInv'
<1> SUFFICES ASSUME IInv, Validate PROVE IInv'
  OBVIOUS
<1> USE DEF Validate, At, Goto
<1>1. /\ UNCHANGED <<plans, workers, effect, compiling, encoding, device>>
      /\ pc[Caller] = "validate" /\ pc \in [All -> Places \cup {"idle", "done"}]
      /\ pc'[Caller] \in {"schedule", "refused"}
      /\ pc' \in [All -> Places \cup {"idle", "done"}]
      /\ \A l \in Lanes : pc'[l] = pc[l]
  BY DEF IInv, Typed, TypeOK, All, Lanes, Caller, Places
<1> USE DEF compiling, encoding, device
<1>2. Typed'
  BY <1>1 DEF IInv, Typed, TypeOK, All, Descriptions
<1>3. TasksKnown'
  <2>1. \A d : TaskedOf(d)' = TaskedOf(d) /\ KernelsOf(d)' = KernelsOf(d)
    BY <1>1 DEF TaskedOf, KernelsOf
  <2>2. Descriptions' = Descriptions
    BY <1>1 DEF Descriptions
  <2>3. tasks = <<>> /\ Len(tasks) = 0 /\ current = 1 /\ effect = 0 /\ next = 1 /\ slots = {}
        /\ \A l \in Lanes : pc[l] = "idle"
    BY <1>1 DEF IInv, CompileInv, TasksKnown, Scheduling
  <2>4. \A d \in Descriptions : TaskedOf(d) = {}
    BY <2>3, IInvPlans DEF TaskedOf
  <2> QED
    BY <1>1, <2>1, <2>2, <2>3, <2>4, IInvPlans
    DEF TasksKnown, EveryTaskHasItsSlot, Scheduling, Compiling, Compiled
<1>4. TasksClaimed'
  BY <1>1 DEF IInv, CompileInv, TasksClaimed, TasksKnown, Scheduling, Compiling, Compiled, All
<1>5. EncodeInv'
  BY <1>1, NotYetEncoding DEF Scheduling
<1> QED
  BY <1>2, <1>3, <1>4, <1>5 DEF IInv, CompileInv

\* A task is added that was not there, and the kernels that have tasks with it.
LEMMA ScheduleDescriptionStep == IInv /\ ScheduleDescription => IInv'
<1> SUFFICES ASSUME IInv, ScheduleDescription PROVE IInv'
  OBVIOUS
<1>0. PICK n : n = Len(tasks)
  OBVIOUS
<1>1. /\ UNCHANGED <<plans, workers, pc, current, next, item, slots, encoding, device>>
      /\ pc[Caller] = "schedule" /\ current \in 1 .. Len(plans) /\ effect = 0
      /\ tasks' = tasks \o << <<current, "base">>, <<current, "primitive">>, <<current, "width">> >>
      /\ scheduled' = {} /\ effect' = 1
  BY DEF ScheduleDescription, Unscheduled, At, IInv, Typed, TypeOK
<1> USE DEF encoding, device
<1>2. /\ Len(plans) \in Nat /\ Descriptions = 1 .. Len(plans) /\ Descriptions' = Descriptions
      /\ current \in Descriptions
  BY <1>1, IInvPlans DEF Descriptions
<1>3. /\ tasks \in Seq(Descriptions \X Names) /\ n \in Nat
      /\ \A i \in 1 .. n : tasks[i] \in Descriptions \X Names
  BY <1>0, LenProperties, ElementOfSeq DEF IInv, Typed, TypeOK, Names
<1>4. /\ tasks' \in Seq(Descriptions \X Names) /\ Len(tasks') = n + 3
      /\ \A i \in 1 .. n : tasks'[i] = tasks[i]
      /\ tasks'[n + 1] = <<current, "base">> /\ tasks'[n + 2] = <<current, "primitive">>
      /\ tasks'[n + 3] = <<current, "width">>
  <2> DEFINE t == << <<current, "base">>, <<current, "primitive">>, <<current, "width">> >>
  <2>1. t \in Seq(Descriptions \X Names) /\ Len(t) = 3
    BY <1>2 DEF Names, Common
  <2>2. t[1] = <<current, "base">> /\ t[2] = <<current, "primitive">> /\ t[3] = <<current, "width">>
    OBVIOUS
  <2>3. tasks' = tasks \o t
    BY <1>1
  <2> DEFINE K == Descriptions \X Names
  <2>5. tasks \in Seq(K) /\ t \in Seq(K)
    BY <1>3, <2>1
  <2> HIDE DEF t, K
  <2>4. /\ tasks' \in Seq(Descriptions \X Names) /\ Len(tasks') = n + 3
        /\ \A i \in 1 .. n + 3 : tasks'[i] = IF i <= n THEN tasks[i] ELSE t[i - n]
    <3>1. /\ tasks \o t \in Seq(K) /\ Len(tasks \o t) = Len(tasks) + Len(t)
          /\ \A i \in 1 .. Len(tasks) + Len(t) :
               (tasks \o t)[i] = IF i <= Len(tasks) THEN tasks[i] ELSE t[i - Len(tasks)]
      BY <2>5, ConcatProperties
    <3> QED
      BY <3>1, <1>0, <2>1, <2>3 DEF K
  <2>6. \A i \in 1 .. n : i \in 1 .. n + 3 /\ i <= n
    BY <1>3
  <2>7. tasks'[n + 1] = t[1] /\ tasks'[n + 2] = t[2] /\ tasks'[n + 3] = t[3]
    BY <1>3, <2>4
  <2>8. \A i \in 1 .. n : tasks'[i] = tasks[i]
    BY <2>4, <2>6
  <2> QED
    BY <2>2, <2>4, <2>7, <2>8
<1>5. Typed'
  BY <1>1, <1>2, <1>4 DEF IInv, Typed, TypeOK, Names
<1>6. TasksKnown'
  <2>1. /\ \A i \in 1 .. n : \E d \in Descriptions : \E k \in TaskedOf(d) : tasks[i] = <<d, k>>
        /\ \A i \in 1 .. n : \E d \in Descriptions : \E k \in KernelsOf(d) : tasks[i] = <<d, k>>
        /\ \A i \in 1 .. n : \A j \in 1 .. n : tasks[i] = tasks[j] => i = j
        /\ \A d \in Descriptions : \A k \in TaskedOf(d) : \E i \in 1 .. n : tasks[i] = <<d, k>>
        /\ next = 1 /\ slots = {} /\ \A l \in Lanes : At(l, "idle")
    <3>1. TasksKnown /\ Scheduling
      BY <1>1 DEF IInv, CompileInv, Scheduling
    <3> QED
      BY <1>0, <1>1, <3>1 DEF TasksKnown, EveryTaskHasItsSlot
  <2>2. /\ \A d \in Descriptions : d # current => TaskedOf(d)' = TaskedOf(d)
        /\ TaskedOf(current) = {} /\ \A d \in Descriptions : d = current => TaskedOf(d)' = Common
        /\ \A d \in Descriptions : KernelsOf(d)' = KernelsOf(d)
        /\ Common \subseteq KernelsOf(current)
    BY <1>1, <1>2 DEF TaskedOf, KernelsOf
  <2>3. \A i \in 1 .. n : tasks[i][1] # current
    BY <2>1, <2>2
  <2>4. /\ \A i \in 1 .. n + 3 : i \in 1 .. n \/ i = n + 1 \/ i = n + 2 \/ i = n + 3
        /\ \A i \in 1 .. n : i \in 1 .. n + 3
        /\ n + 1 \in 1 .. n + 3 /\ n + 2 \in 1 .. n + 3 /\ n + 3 \in 1 .. n + 3
        /\ n + 1 \notin 1 .. n /\ n + 2 \notin 1 .. n /\ n + 3 \notin 1 .. n
    BY <1>3
  <2>5. \A i \in 1 .. n + 3 : i \notin 1 .. n =>
          \E k \in Common : tasks'[i] = <<current, k>>
    BY <1>4, <2>4 DEF Common
  <2>6. ASSUME NEW i \in 1 .. n + 3, NEW j \in 1 .. n + 3, tasks'[i] = tasks'[j] PROVE i = j
    <3>1. CASE i \in 1 .. n /\ j \in 1 .. n
      BY <1>4, <2>1, <2>6, <3>1
    <3>2. CASE i \notin 1 .. n /\ j \notin 1 .. n
      <4>1. i \in {n + 1, n + 2, n + 3} /\ j \in {n + 1, n + 2, n + 3}
        BY <2>4, <3>2
      <4>2. "base" # "primitive" /\ "base" # "width" /\ "primitive" # "width"
        OBVIOUS
      <4>3. /\ tasks'[n + 1] # tasks'[n + 2] /\ tasks'[n + 1] # tasks'[n + 3]
            /\ tasks'[n + 2] # tasks'[n + 3]
        BY <1>4, <4>2
      <4> QED
        BY <4>1, <4>3, <2>6
    <3>3. CASE i \in 1 .. n /\ j \notin 1 .. n
      BY <1>4, <2>3, <2>5, <2>6, <3>3
    <3>4. CASE i \notin 1 .. n /\ j \in 1 .. n
      BY <1>4, <2>3, <2>5, <2>6, <3>4
    <3> QED
      BY <3>1, <3>2, <3>3, <3>4
  <2>7. ASSUME NEW i \in 1 .. n + 3
        PROVE  /\ \E d \in Descriptions : \E k \in TaskedOf(d)' : tasks'[i] = <<d, k>>
               /\ \E d \in Descriptions : \E k \in KernelsOf(d)' : tasks'[i] = <<d, k>>
    <3>1. CASE i \in 1 .. n
      <4>1. PICK d \in Descriptions : \E k \in TaskedOf(d) : tasks[i] = <<d, k>>
        BY <2>1, <3>1
      <4>2. d # current
        BY <2>2, <4>1
      <4> QED
        BY <1>4, <2>1, <2>2, <3>1, <4>1, <4>2
    <3>2. CASE i \notin 1 .. n
      BY <1>2, <2>2, <2>5, <3>2
    <3> QED
      BY <3>1, <3>2
  <2>8. ASSUME NEW d \in Descriptions, NEW k \in TaskedOf(d)'
        PROVE  \E i \in 1 .. n + 3 : tasks'[i] = <<d, k>>
    <3>1. CASE d = current
      <4>1. k \in {"base", "primitive", "width"}
        BY <2>2, <2>8, <3>1 DEF Common
      <4> QED
        BY <4>1, <2>4, <1>4, <3>1
    <3>2. CASE d # current
      BY SMTT(60), <3>2, <2>1, <2>2, <2>4, <2>8, <1>4
    <3> QED
      BY <3>1, <3>2
  <2>9. /\ scheduled' = {plans[current].effects[i] : i \in 1 .. effect' - 1}
        /\ effect' <= Len(plans[current].effects) + 1
    BY <1>1, <1>2, IInvPlans
  <2>10. /\ pc'[Caller] = "schedule" /\ next' = 1 /\ slots' = {}
         /\ \A l \in Lanes : pc'[l] = "idle"
         /\ current' = current /\ ~(current > Len(plans)) /\ Descriptions' = Descriptions
         /\ plans' = plans
    BY <1>1, <1>2, <2>1 DEF At
  <2>11. EveryTaskHasItsSlot'
    BY <1>4, <2>6 DEF EveryTaskHasItsSlot
  <2>12. Scheduling' /\ ~Compiling' /\ ~Compiled'
    BY <2>10 DEF Scheduling, Compiling, Compiled
  <2>13. \A i \in 1 .. Len(tasks') :
            /\ \E d \in Descriptions : \E k \in KernelsOf(d)' : tasks'[i] = <<d, k>>
            /\ \E d \in Descriptions : \E k \in TaskedOf(d)' : tasks'[i] = <<d, k>>
    BY <1>4, <2>7
  <2>14. \A d \in Descriptions : \A k \in TaskedOf(d)' : \E i \in 1 .. Len(tasks') : tasks'[i] = <<d, k>>
    BY <1>4, <2>8
  <2> QED
    BY <2>9, <2>10, <2>11, <2>12, <2>13, <2>14 DEF TasksKnown, At
<1>7. TasksClaimed'
  <2>1. slots = {} /\ \A l \in Lanes : At(l, "idle")
    BY <1>1 DEF IInv, CompileInv, TasksKnown, Scheduling
  <2> QED
    BY <1>1, <2>1 DEF TasksClaimed, Scheduling, Compiling, Compiled, At
<1>8. EncodeInv'
  BY <1>1, NotYetEncoding DEF Scheduling
<1> QED
  BY <1>5, <1>6, <1>7, <1>8 DEF IInv, CompileInv


\* What is to be shown of a step that goes on scheduling.
LEMMA SchedulingTasks ==
  ASSUME pc'[Caller] = "schedule", Descriptions' = Descriptions, plans' = plans,
         next' = 1, slots' = {}, \A l \in Lanes : pc'[l] = "idle", EveryTaskHasItsSlot',
         current' <= Len(plans) => effect' <= Len(plans[current'].effects) + 1,
         current' > Len(plans) => effect' = 0,
         effect' > 0 => scheduled' = {plans[current'].effects[i] : i \in 1 .. effect' - 1},
         \A i \in 1 .. Len(tasks') : \E d \in Descriptions : \E k \in KernelsOf(d)' : tasks'[i] = <<d, k>>,
         \A i \in 1 .. Len(tasks') : \E d \in Descriptions : \E k \in TaskedOf(d)' : tasks'[i] = <<d, k>>,
         \A d \in Descriptions : \A k \in TaskedOf(d)' : \E i \in 1 .. Len(tasks') : tasks'[i] = <<d, k>>
  PROVE  TasksKnown'
<1>1. Scheduling' /\ ~Compiling' /\ ~Compiled'
  BY DEF Scheduling, Compiling, Compiled
<1> QED
  BY <1>1 DEF TasksKnown, At

\* A module gets a task at its first use.
LEMMA ScheduleEffectStep == IInv /\ ScheduleEffect => IInv'
<1> SUFFICES ASSUME IInv, ScheduleEffect PROVE IInv'
  OBVIOUS
<1> DEFINE m == plans[current].effects[effect]
<1>1. /\ UNCHANGED <<plans, workers, current, next, item, slots, encoding, device>>
      /\ pc[Caller] = "schedule" /\ current \in 1 .. Len(plans)
      /\ effect \in 1 .. Len(plans[current].effects)
      /\ \/ /\ m \in plans[current].modules
            /\ tasks' = IF m \in scheduled THEN tasks ELSE Append(tasks, <<current, m>>)
            /\ scheduled' = scheduled \cup {m}
            /\ effect' = effect + 1
            /\ pc' = pc
         \/ /\ pc' = [pc EXCEPT ![Caller] = "refused"]
            /\ UNCHANGED <<tasks, scheduled, effect>>
  BY DEF ScheduleEffect, WithTask, At, Goto, IInv, Typed, TypeOK
<1>2. /\ Len(plans) \in Nat /\ Descriptions = 1 .. Len(plans) /\ Descriptions' = Descriptions
      /\ current \in Descriptions /\ m \in Modules
      /\ Len(plans[current].effects) \in Nat /\ effect \in Nat
      /\ pc \in [All -> Places \cup {"idle", "done"}]
      /\ UNCHANGED <<encoding, device>>
  BY <1>1, IInvPlans DEF Descriptions, IInv, Typed, TypeOK, All
<1>3. /\ EveryTaskHasItsSlot
      /\ \A i \in 1 .. Len(tasks) : \E d \in Descriptions : \E k \in TaskedOf(d) : tasks[i] = <<d, k>>
      /\ \A i \in 1 .. Len(tasks) : \E d \in Descriptions : \E k \in KernelsOf(d) : tasks[i] = <<d, k>>
      /\ \A d \in Descriptions : \A k \in TaskedOf(d) : \E i \in 1 .. Len(tasks) : tasks[i] = <<d, k>>
      /\ next = 1 /\ slots = {} /\ \A l \in Lanes : At(l, "idle")
      /\ scheduled = {plans[current].effects[i] : i \in 1 .. effect - 1}
  BY SMTT(60), <1>1 DEF IInv, CompileInv, TasksKnown, Scheduling
<1>4. EncodeInv'
  <2>1. pc'[Caller] \in {"schedule", "refused"}
    BY <1>1, <1>2 DEF All
  <2> QED
    BY <1>1, <2>1, NotYetEncoding DEF Scheduling
<1>5. TasksClaimed'
  <2>1. pc'[Caller] \in {"schedule", "refused"} /\ \A l \in Lanes : pc'[l] = "idle"
    BY <1>1, <1>2, <1>3 DEF All, Lanes, Caller, At
  <2> QED
    BY <1>1, <1>3, <2>1 DEF TasksClaimed, Scheduling, Compiling, Compiled, At
<1>6. CASE pc' = [pc EXCEPT ![Caller] = "refused"] /\ UNCHANGED <<tasks, scheduled, effect>>
  <2>1. /\ pc'[Caller] = "refused" /\ pc' \in [All -> Places \cup {"idle", "done"}]
    BY <1>2, <1>6 DEF All, Places
  <2>2. Typed'
    BY <1>1, <1>2, <1>6, <2>1 DEF IInv, Typed, TypeOK, encoding, device, All
  <2>3. \A d \in Descriptions : KernelsOf(d)' = KernelsOf(d)
    BY <1>1 DEF KernelsOf
  <2>4. TasksKnown'
    <3>1. ~Scheduling' /\ ~Compiling' /\ ~Compiled' /\ pc'[Caller] # "validate"
      BY <2>1 DEF Scheduling, Compiling, Compiled
    <3>2. EveryTaskHasItsSlot'
      BY <1>3, <1>6 DEF EveryTaskHasItsSlot
    <3>3. \A i \in 1 .. Len(tasks') : \E d \in Descriptions' : \E k \in KernelsOf(d)' : tasks'[i] = <<d, k>>
      BY <1>2, <1>3, <1>6, <2>3
    <3> QED
      BY <3>1, <3>2, <3>3 DEF TasksKnown
  <2> QED
    BY <1>4, <1>5, <2>2, <2>4 DEF IInv, CompileInv
<1>7. CASE /\ tasks' = IF m \in scheduled THEN tasks ELSE Append(tasks, <<current, m>>)
           /\ scheduled' = scheduled \cup {m}
           /\ effect' = effect + 1
           /\ pc' = pc
  <2>1. PICK K : K = Descriptions \X Names
    OBVIOUS
  <2>2. <<current, m>> \in K /\ tasks \in Seq(K) /\ Len(tasks) \in Nat
        /\ \A i \in 1 .. Len(tasks) : tasks[i] \in K
    BY <1>2, <2>1, LenProperties, ElementOfSeq DEF IInv, Typed, TypeOK, Names
  <2>3. CASE m \in scheduled
    <3>1. tasks' = tasks
      BY <1>7, <2>3
    <3>2. scheduled' = scheduled
      BY <1>7, <2>3
    <3>3. Typed'
      <4>1. effect' \in Nat
        BY <1>2, <1>7
      <4>2. UNCHANGED <<call, stream, sample, sourceIsB, done>>
        BY <1>1 DEF encoding, device
      <4> QED
        BY <1>1, <1>2, <1>7, <3>1, <3>2, <4>1, <4>2 DEF IInv, Typed, TypeOK
    <3>4. \A d \in Descriptions : KernelsOf(d)' = KernelsOf(d)
      BY <1>1 DEF KernelsOf
    <3>5. {plans[current].effects[i] : i \in 1 .. effect} = {plans[current].effects[i] : i \in 1 .. effect - 1}
      <4>1. PICK j \in 1 .. effect - 1 : plans[current].effects[j] = m
        BY <1>3, <2>3
      <4>2. \A i \in 1 .. effect : i \in 1 .. effect - 1 \/ i = effect
        BY <1>2
      <4>3. \A i \in 1 .. effect - 1 : i \in 1 .. effect
        BY <1>2
      <4> QED
        BY <4>1, <4>2, <4>3
    <3>6. \A d \in Descriptions : TaskedOf(d)' = TaskedOf(d)
      <4>1. effect > 0 /\ effect' > 0 /\ effect' - 1 = effect
        BY <1>1, <1>2, <1>7
      <4>2. \A d \in Descriptions : d = current =>
              TaskedOf(d) = Common \cup {plans[current].effects[i] : i \in 1 .. effect - 1}
        BY <1>1, <4>1 DEF TaskedOf
      <4>3. \A d \in Descriptions : d = current =>
              TaskedOf(d)' = Common \cup {plans[current].effects[i] : i \in 1 .. effect}
        BY <1>1, <4>1 DEF TaskedOf
      <4>4. \A d \in Descriptions : d # current => TaskedOf(d)' = TaskedOf(d)
        BY <1>1, <3>4 DEF TaskedOf
      <4> QED
        BY <3>5, <4>2, <4>3, <4>4
    <3>7. TasksKnown'
      <4>1. effect' <= Len(plans[current].effects) + 1 /\ effect' > 0 /\ effect' - 1 = effect
        BY <1>1, <1>2, <1>7
      <4>2. EveryTaskHasItsSlot' /\ Scheduling' /\ ~Compiling' /\ ~Compiled' /\ ~(current' > Len(plans'))
        BY SMTT(60), <1>1, <1>2, <1>3, <1>7, <3>1
        DEF EveryTaskHasItsSlot, Scheduling, Compiling, Compiled
      <4>3. scheduled' = {plans[current].effects[i] : i \in 1 .. effect' - 1}
        BY <1>3, <3>2, <3>5, <4>1
      <4>4. /\ pc'[Caller] = "schedule" /\ next' = 1 /\ slots' = {} /\ ~(current' > Len(plans))
            /\ \A l \in Lanes : pc'[l] = "idle"
        BY <1>1, <1>2, <1>3, <1>7 DEF At
      <4> QED
        <5>1. \A i \in 1 .. Len(tasks') : \E d \in Descriptions : \E k \in TaskedOf(d)' : tasks'[i] = <<d, k>>
          BY <1>3, <3>1, <3>6
        <5>2. \A i \in 1 .. Len(tasks') : \E d \in Descriptions : \E k \in KernelsOf(d)' : tasks'[i] = <<d, k>>
          BY <1>3, <3>1, <3>4
        <5>3. \A d \in Descriptions : \A k \in TaskedOf(d)' : \E i \in 1 .. Len(tasks') : tasks'[i] = <<d, k>>
          BY <1>3, <3>1, <3>6
        <5>4. current' = current /\ plans' = plans /\ Descriptions' = Descriptions
          BY <1>1, <1>2
        <5> QED
          BY <4>1, <4>2, <4>3, <4>4, <5>1, <5>2, <5>3, <5>4, SchedulingTasks
    <3> QED
      BY <1>4, <1>5, <3>3, <3>7 DEF IInv, CompileInv
  <2>4. CASE m \notin scheduled
    <3>0. PICK n : n = Len(tasks)
      OBVIOUS
    <3>1. /\ tasks' = Append(tasks, <<current, m>>)
          /\ tasks' \in Seq(K) /\ Len(tasks') = n + 1 /\ n \in Nat
          /\ \A i \in 1 .. n : tasks'[i] = tasks[i]
          /\ tasks'[n + 1] = <<current, m>>
      BY <1>7, <2>2, <2>4, <3>0
    <3>2. Typed'
      <4>1. tasks' \in Seq(Descriptions \X Names)
        BY <2>1, <3>1
      <4>2. scheduled' \subseteq Modules
        BY <1>2, <1>7 DEF IInv, Typed, TypeOK
      <4> QED
        <5>1. pc' \in [All -> Places \cup {"idle", "done"}] /\ effect' \in Nat
          BY <1>2, <1>7
        <5>2. UNCHANGED <<plans, workers, current, next, item, slots, call, sample, sourceIsB, stream, done,
                          content>>
          BY <1>1 DEF encoding, device
        <5> QED
          BY SMTT(60), <4>1, <4>2, <5>1, <5>2 DEF IInv, Typed, TypeOK, Names, All, Descriptions
    <3>3. \A d \in Descriptions : KernelsOf(d)' = KernelsOf(d)
      BY <1>1 DEF KernelsOf
    <3>4. {plans[current].effects[i] : i \in 1 .. effect} = scheduled \cup {m}
      <4>1. \A i : i \in 1 .. effect <=> (i \in 1 .. effect - 1 \/ i = effect)
        BY <1>1, <1>2
      <4> QED
        BY <4>1, <1>3
    <3>5. /\ \A d \in Descriptions : d # current => TaskedOf(d)' = TaskedOf(d)
          /\ \A d \in Descriptions : d = current => TaskedOf(d)' = TaskedOf(d) \cup {m}
          /\ TaskedOf(current) = Common \cup scheduled
          /\ m \in KernelsOf(current)
      <4>1. effect > 0 /\ effect' > 0 /\ effect' - 1 = effect /\ ~(current < current)
            /\ current <= Len(plans)
        BY <1>1, <1>2, <1>7
      <4>2. TaskedOf(current) = Common \cup scheduled
        BY <1>3, <4>1 DEF TaskedOf
      <4>3. \A d \in Descriptions : d = current => TaskedOf(d)' = Common \cup (scheduled \cup {m})
        BY <1>1, <1>7, <3>4, <4>1 DEF TaskedOf
      <4>4. \A d \in Descriptions : d # current => TaskedOf(d)' = TaskedOf(d)
        BY <1>1, <3>3 DEF TaskedOf
      <4> QED
        BY <1>1, <4>2, <4>3, <4>4 DEF KernelsOf
    <3>6. /\ \A i \in 1 .. n + 1 : i \in 1 .. n \/ i = n + 1
          /\ \A i \in 1 .. n : i \in 1 .. n + 1
          /\ n + 1 \in 1 .. n + 1 /\ n + 1 \notin 1 .. n
      BY <3>1
    <3>7. \A i \in 1 .. n : tasks[i] # <<current, m>>
      <4> SUFFICES ASSUME NEW i \in 1 .. n, tasks[i] = <<current, m>> PROVE FALSE
        OBVIOUS
      <4>1. m \in TaskedOf(current)
        BY <1>3, <3>0
      <4>2. m \in Common
        BY <2>4, <3>5, <4>1
      <4> QED
        BY <1>2, <4>2, ClassicCollectionAssumption DEF Common
    <3>8. EveryTaskHasItsSlot'
      <4> SUFFICES ASSUME NEW i \in 1 .. n + 1, NEW j \in 1 .. n + 1, tasks'[i] = tasks'[j]
                   PROVE  i = j
        BY <3>1 DEF EveryTaskHasItsSlot
      <4>1. CASE i \in 1 .. n /\ j \in 1 .. n
        BY <1>3, <3>0, <3>1, <4>1 DEF EveryTaskHasItsSlot
      <4>2. CASE i = n + 1 \/ j = n + 1
        BY <3>1, <3>6, <3>7, <4>2
      <4> QED
        BY <3>6, <4>1, <4>2
    <3>9. ASSUME NEW i \in 1 .. n + 1
          PROVE  /\ \E d \in Descriptions : \E k \in TaskedOf(d)' : tasks'[i] = <<d, k>>
                 /\ \E d \in Descriptions : \E k \in KernelsOf(d)' : tasks'[i] = <<d, k>>
      <4>1. CASE i \in 1 .. n
        <5>1. PICK d \in Descriptions : \E k \in TaskedOf(d) : tasks[i] = <<d, k>>
          BY <1>3, <3>0, <4>1
        <5>2. \A k \in TaskedOf(d) : k \in TaskedOf(d)'
          BY <3>5
        <5> QED
          BY <1>3, <3>0, <3>1, <3>3, <4>1, <5>1, <5>2
      <4>2. CASE i = n + 1
        BY <1>2, <3>1, <3>3, <3>5, <4>2
      <4> QED
        BY <3>6, <4>1, <4>2
    <3>10. ASSUME NEW d \in Descriptions, NEW k \in TaskedOf(d)'
           PROVE  \E i \in 1 .. n + 1 : tasks'[i] = <<d, k>>
      <4>1. CASE k \in TaskedOf(d)
        BY <1>3, <3>0, <3>1, <3>6, <4>1
      <4>2. CASE k \notin TaskedOf(d)
        BY <3>1, <3>5, <3>6, <3>10, <4>2
      <4> QED
        BY <4>1, <4>2
    <3>11. TasksKnown'
      <4>1. effect' <= Len(plans[current].effects) + 1 /\ effect' > 0 /\ effect' - 1 = effect
        BY <1>1, <1>2, <1>7
      <4>2. Scheduling' /\ ~Compiling' /\ ~Compiled' /\ ~(current' > Len(plans'))
        BY <1>1, <1>2, <1>7 DEF Scheduling, Compiling, Compiled
      <4>3. scheduled' = {plans[current].effects[i] : i \in 1 .. effect' - 1}
        BY <1>7, <3>4, <4>1
      <4>4. /\ pc'[Caller] = "schedule" /\ next' = 1 /\ slots' = {} /\ ~(current' > Len(plans))
            /\ \A l \in Lanes : pc'[l] = "idle"
        BY <1>1, <1>2, <1>3, <1>7 DEF At
      <4> QED
        <5>1. \A i \in 1 .. Len(tasks') : \E d \in Descriptions : \E k \in TaskedOf(d)' : tasks'[i] = <<d, k>>
          BY <3>1, <3>9
        <5>2. \A i \in 1 .. Len(tasks') : \E d \in Descriptions : \E k \in KernelsOf(d)' : tasks'[i] = <<d, k>>
          BY <3>1, <3>9
        <5>3. \A d \in Descriptions : \A k \in TaskedOf(d)' : \E i \in 1 .. Len(tasks') : tasks'[i] = <<d, k>>
          BY <3>1, <3>10
        <5>4. current' = current /\ plans' = plans /\ Descriptions' = Descriptions
          BY <1>1, <1>2
        <5> QED
          BY <3>8, <4>1, <4>3, <4>4, <5>1, <5>2, <5>3, <5>4, SchedulingTasks
    <3> QED
      BY <1>4, <1>5, <3>2, <3>11 DEF IInv, CompileInv
  <2> QED
    BY <2>3, <2>4
<1> QED
  BY <1>1, <1>6, <1>7

\* The current description has all its tasks.
LEMMA EndDescriptionStep == IInv /\ EndDescription => IInv'
<1> SUFFICES ASSUME IInv, EndDescription PROVE IInv'
  OBVIOUS
<1>1. /\ UNCHANGED <<plans, workers, pc, scheduled, tasks, next, item, slots, encoding, device>>
      /\ pc[Caller] = "schedule" /\ current \in 1 .. Len(plans)
      /\ effect > Len(plans[current].effects) /\ effect' = 0 /\ current' = current + 1
  BY DEF EndDescription, At, IInv, Typed, TypeOK
<1>2. /\ Len(plans) \in Nat /\ Descriptions = 1 .. Len(plans) /\ Descriptions' = Descriptions
      /\ current \in Descriptions /\ current \in Nat /\ current' \in 1 .. Len(plans) + 1
      /\ Len(plans[current].effects) \in Nat /\ effect \in Nat
  BY <1>1, IInvPlans DEF Descriptions, IInv, Typed, TypeOK
<1>3. effect = Len(plans[current].effects) + 1
  BY <1>1, <1>2 DEF IInv, CompileInv, TasksKnown, Scheduling
<1>4. Typed'
  BY <1>1, <1>2 DEF IInv, Typed, TypeOK, encoding, device
<1>5. \A d \in Descriptions : TaskedOf(d)' = TaskedOf(d) /\ KernelsOf(d)' = KernelsOf(d)
  <2>1. \A d \in Descriptions : KernelsOf(d)' = KernelsOf(d)
    BY <1>1 DEF KernelsOf
  <2>2. TaskedOf(current) = KernelsOf(current)
    BY <1>1, <1>2, <1>3 DEF TaskedOf, KernelsOf
  <2>3. \A d \in Descriptions : d < current' <=> (d < current \/ d = current)
    BY <1>1, <1>2
  <2>4. \A d \in Descriptions : d = current => TaskedOf(d)' = TaskedOf(d)
    BY <2>1, <2>2, <2>3 DEF TaskedOf
  <2>5. \A d \in Descriptions : d < current => TaskedOf(d)' = TaskedOf(d)
    BY <2>1, <2>3 DEF TaskedOf
  <2>6. \A d \in Descriptions : ~(d < current') => TaskedOf(d) = {} /\ TaskedOf(d)' = {}
    BY <1>1, <2>3 DEF TaskedOf
  <2> QED
    BY <2>1, <2>3, <2>4, <2>5, <2>6
<1>6. TasksKnown'
  <2>1. TasksKnown /\ Scheduling
    BY <1>1 DEF IInv, CompileInv, Scheduling
  <2>2. Scheduling' /\ ~Compiling' /\ ~Compiled'
    BY <1>1 DEF Scheduling, Compiling, Compiled
  <2>3. EveryTaskHasItsSlot'
    BY <1>1, <2>1 DEF TasksKnown, EveryTaskHasItsSlot
  <2>4. current' <= Len(plans') => effect' <= Len(plans'[current'].effects) + 1
    BY <1>1, <1>2, IInvPlans
  <2>5. /\ pc'[Caller] = "schedule" /\ next' = 1 /\ slots' = {} /\ plans' = plans
        /\ \A l \in Lanes : pc'[l] = "idle"
    BY <1>1, <2>1 DEF TasksKnown, At
  <2>6. /\ \A i \in 1 .. Len(tasks') : \E d \in Descriptions : \E k \in KernelsOf(d)' : tasks'[i] = <<d, k>>
        /\ \A i \in 1 .. Len(tasks') : \E d \in Descriptions : \E k \in TaskedOf(d)' : tasks'[i] = <<d, k>>
        /\ \A d \in Descriptions : \A k \in TaskedOf(d)' : \E i \in 1 .. Len(tasks') : tasks'[i] = <<d, k>>
    <3>1. tasks' = tasks
      BY <1>1
    <3>2. \A i \in 1 .. Len(tasks) : \E d \in Descriptions : \E k \in KernelsOf(d) : tasks[i] = <<d, k>>
      BY <2>1 DEF TasksKnown
    <3>3. \A i \in 1 .. Len(tasks) : \E d \in Descriptions : \E k \in TaskedOf(d) : tasks[i] = <<d, k>>
      BY <2>1 DEF TasksKnown
    <3>4. \A d \in Descriptions : \A k \in TaskedOf(d) : \E i \in 1 .. Len(tasks) : tasks[i] = <<d, k>>
      BY <2>1 DEF TasksKnown
    <3> QED
      BY <1>5, <3>1, <3>2, <3>3, <3>4
  <2>7. ~(effect' > 0) /\ (current' <= Len(plans) => effect' <= Len(plans[current'].effects) + 1)
    BY <1>1, <2>4
  <2> QED
    BY <1>1, <1>2, <2>3, <2>5, <2>6, <2>7, SchedulingTasks
<1>7. TasksClaimed'
  BY <1>1 DEF IInv, CompileInv, TasksClaimed, Scheduling, Compiling, Compiled, At
<1>8. EncodeInv'
  BY <1>1, NotYetEncoding DEF Scheduling
<1> QED
  BY <1>4, <1>6, <1>7, <1>8 DEF IInv, CompileInv


\* The tasks may be run by the lanes there are.
LEMMA LimitFacts ==
  ASSUME workers \in 1 .. MaxWorkers, Len(tasks) \in Nat
  PROVE  /\ WorkerLimit \in Nat /\ WorkerLimit <= MaxWorkers
         /\ ~Alone => WorkerLimit > 1
<1>1. MaxWorkers \in Nat /\ workers \in Nat /\ workers >= 1
  BY ClassicCollectionAssumption
<1>2. PICK quarter : quarter = workers \div 4
  OBVIOUS
<1>3. quarter \in Nat /\ quarter <= workers
  BY <1>1, <1>2
<1>4. WorkerLimit = Least(Len(tasks), IF workers <= 4 THEN workers ELSE workers - quarter)
  BY <1>2 DEF WorkerLimit
<1>5. WorkerLimit \in Nat /\ WorkerLimit <= MaxWorkers
  BY <1>1, <1>3, <1>4 DEF Least
<1> QED
  BY <1>5 DEF Alone

\* The tasks are known and untouched; only the places change, or what is claimed.
LEMMA TasksStayKnown ==
  ASSUME IInv, Compiling, UNCHANGED <<plans, tasks>>, pc'[Caller] \notin {"validate", "schedule"}
  PROVE  TasksKnown'
<1>1. TasksKnown
  BY DEF IInv, CompileInv
<1>2. \A d \in Descriptions : KernelsOf(d)' = KernelsOf(d)
  BY DEF KernelsOf
<1>3. Descriptions' = Descriptions /\ EveryTaskHasItsSlot' /\ ~Scheduling'
  BY <1>1 DEF Descriptions, TasksKnown, EveryTaskHasItsSlot, Scheduling
<1>4. \A i \in 1 .. Len(tasks) : \E d \in Descriptions : \E k \in KernelsOf(d) : tasks[i] = <<d, k>>
  BY <1>1 DEF TasksKnown
<1>5. \A d \in Descriptions : \A k \in KernelsOf(d) : \E i \in 1 .. Len(tasks) : tasks[i] = <<d, k>>
  BY <1>1 DEF TasksKnown
<1>6. /\ \A i \in 1 .. Len(tasks') : \E d \in Descriptions' : \E k \in KernelsOf(d)' : tasks'[i] = <<d, k>>
      /\ \A d \in Descriptions' : \A k \in KernelsOf(d)' : \E i \in 1 .. Len(tasks') : tasks'[i] = <<d, k>>
  BY <1>2, <1>3, <1>4, <1>5
<1> QED
  BY <1>3, <1>6 DEF TasksKnown

LEMMA StartTasksStep == IInv /\ StartTasks => IInv'
<1> SUFFICES ASSUME IInv, StartTasks PROVE IInv'
  OBVIOUS
<1>1. /\ UNCHANGED <<plans, workers, effect, compiling, encoding, device>>
      /\ pc[Caller] = "schedule" /\ current > Len(plans)
      /\ pc' = [l \in All |->
                 IF l = Caller THEN IF Alone THEN "claim" ELSE "wait"
                 ELSE IF ~Alone /\ l <= WorkerLimit THEN "claim" ELSE "idle"]
  BY DEF StartTasks, At, All
<1>2. /\ UNCHANGED <<current, scheduled, tasks, next, item, slots>>
      /\ Len(plans) \in Nat /\ Descriptions = 1 .. Len(plans) /\ Descriptions' = Descriptions
      /\ current \in Nat
  BY <1>1, IInvPlans DEF Descriptions, compiling, IInv, Typed, TypeOK
<1>3. /\ \A l \in Lanes : pc'[l] = IF ~Alone /\ l <= WorkerLimit THEN "claim" ELSE "idle"
      /\ pc'[Caller] = IF Alone THEN "claim" ELSE "wait"
      /\ pc' \in [All -> Places \cup {"idle", "done"}]
  BY <1>1 DEF All, Lanes, Caller, Places
<1>4. Typed'
  BY <1>1, <1>2, <1>3 DEF IInv, Typed, TypeOK, encoding, device, All
<1>5. TasksKnown /\ Scheduling
  BY <1>1 DEF IInv, CompileInv, Scheduling
<1>6. \A d \in Descriptions : TaskedOf(d) = KernelsOf(d) /\ KernelsOf(d)' = KernelsOf(d)
  BY <1>1, <1>2 DEF TaskedOf, KernelsOf
<1>7. TasksKnown'
  <2>1. EveryTaskHasItsSlot' /\ ~Scheduling' /\ pc'[Caller] # "validate"
    BY <1>2, <1>3, <1>5 DEF TasksKnown, EveryTaskHasItsSlot, Scheduling
  <2>2. \A i \in 1 .. Len(tasks) : \E d \in Descriptions : \E k \in KernelsOf(d) : tasks[i] = <<d, k>>
    BY <1>5 DEF TasksKnown
  <2>3. \A d \in Descriptions : \A k \in TaskedOf(d) : \E i \in 1 .. Len(tasks) : tasks[i] = <<d, k>>
    BY <1>5 DEF TasksKnown
  <2>4. /\ \A i \in 1 .. Len(tasks') : \E d \in Descriptions' : \E k \in KernelsOf(d)' : tasks'[i] = <<d, k>>
        /\ \A d \in Descriptions' : \A k \in KernelsOf(d)' : \E i \in 1 .. Len(tasks') : tasks'[i] = <<d, k>>
    <3>1. tasks' = tasks /\ Descriptions' = Descriptions
      BY <1>2
    <3>2. \A d \in Descriptions : \A k \in KernelsOf(d) : \E i \in 1 .. Len(tasks) : tasks[i] = <<d, k>>
      BY <1>6, <2>3
    <3> QED
      BY <1>6, <2>2, <3>1, <3>2
  <2> QED
    BY <2>1, <2>4 DEF TasksKnown
<1>8. TasksClaimed'
  <2>1. next = 1 /\ slots = {}
    BY <1>5 DEF TasksKnown
  <2>2. Len(tasks) \in Nat /\ workers \in 1 .. MaxWorkers
    BY LenProperties DEF IInv, Typed, TypeOK
  <2>3. pc'[Caller] = "wait" => \E l \in Lanes : pc'[l] # "idle"
    <3> SUFFICES ASSUME ~Alone PROVE \E l \in Lanes : pc'[l] # "idle"
      BY <1>3
    <3>1. WorkerLimit \in Nat /\ WorkerLimit <= MaxWorkers /\ WorkerLimit > 1 /\ MaxWorkers \in Nat
      BY <2>2, LimitFacts, ClassicCollectionAssumption
    <3>2. 1 \in Lanes /\ 1 <= WorkerLimit
      BY <3>1 DEF Lanes
    <3>3. pc'[1] = "claim"
      BY <1>3, <3>2
    <3> QED
      BY <3>2, <3>3
  <2>4. pc'[Caller] = "claim" => \A l \in Lanes : pc'[l] = "idle"
    BY <1>3
  <2>5. ~Scheduling' /\ ~Compiled' /\ pc'[Caller] # "compile"
    BY <1>3 DEF Scheduling, Compiled, Compiling
  <2>6. \A l \in Lanes : pc'[l] \in {"idle", "claim"} /\ (pc'[l] = "claim" => pc'[Caller] = "wait")
    BY <1>3
  <2>7. next' = 1 /\ slots' = {}
    BY <1>2, <2>1
  <2>8. \A i \in 1 .. Len(tasks') : ~(i < next')
    BY <1>2, <2>2, <2>7
  <2>9. \A l \in Lanes \cup {Caller} : pc'[l] # "compile"
    BY <2>5, <2>6
  <2> QED
    BY <2>3, <2>4, <2>5, <2>6, <2>7, <2>8, <2>9 DEF TasksClaimed, At
<1>9. EncodeInv'
  BY <1>1, <1>3, NotYetEncoding DEF Scheduling
<1> QED
  BY <1>4, <1>7, <1>8, <1>9 DEF IInv, CompileInv

\* The lanes and the caller, before a step of one of them that compiles.
LEMMA CompileFacts ==
  ASSUME IInv, NEW l \in All, pc[l] \in {"claim", "compile"}
  PROVE  /\ Compiling /\ TasksClaimed /\ Caller \notin Lanes
         /\ l = Caller => pc[Caller] # "wait"
         /\ l \in Lanes => pc[Caller] = "wait"
         /\ next \in Nat \ {0} /\ Len(tasks) \in Nat
         /\ pc \in [All -> Places \cup {"idle", "done"}]
         /\ item \in [All -> Nat \ {0}]
         /\ tasks \in Seq(Descriptions \X Names)
         /\ \A i \in 1 .. Len(tasks) : tasks[i] \in Descriptions \X Names
<1>1. /\ TasksClaimed /\ TasksKnown /\ Caller \notin Lanes
  BY DEF IInv, CompileInv, Lanes, Caller
<1>2. Compiling
  <2>1. CASE l = Caller
    BY <2>1 DEF Compiling
  <2>2. CASE l # Caller
    <3>1. l \in Lanes
      BY <2>2 DEF All
    <3>2. pc[Caller] = "wait"
      BY <1>1, <3>1 DEF TasksClaimed, At
    <3> QED
      BY <3>2 DEF Compiling
  <2> QED
    BY <2>1, <2>2
<1>3. l \in Lanes => pc[Caller] = "wait"
  BY <1>1, <1>2 DEF TasksClaimed, Compiling, At
<1>4. /\ next \in Nat \ {0} /\ pc \in [All -> Places \cup {"idle", "done"}]
      /\ item \in [All -> Nat \ {0}] /\ tasks \in Seq(Descriptions \X Names)
  BY DEF IInv, Typed, TypeOK, All, Names
<1>5. Len(tasks) \in Nat /\ \A i \in 1 .. Len(tasks) : tasks[i] \in Descriptions \X Names
  BY <1>4, LenProperties, ElementOfSeq
<1> QED
  BY <1>1, <1>2, <1>3, <1>4, <1>5


LEMMA ClaimStep == ASSUME IInv, NEW l \in All, Claim(l) PROVE IInv'
<1>1. /\ UNCHANGED <<plans, workers, effect, current, scheduled, tasks, slots, encoding, device>>
      /\ pc[l] = "claim" /\ item' = [item EXCEPT ![l] = next] /\ next' = next + 1
      /\ pc' = [pc EXCEPT ![l] = IF next <= Len(tasks) THEN "compile"
                                 ELSE IF l = Caller THEN "ready" ELSE "done"]
  BY DEF Claim, NextTask, At, Goto
<1>2. /\ Compiling /\ TasksClaimed /\ Caller \notin Lanes
      /\ l = Caller => pc[Caller] = "claim"
      /\ l \in Lanes => pc[Caller] = "wait"
      /\ next \in Nat \ {0} /\ Len(tasks) \in Nat
      /\ pc \in [All -> Places \cup {"idle", "done"}]
      /\ item \in [All -> Nat \ {0}]
  BY <1>1, CompileFacts
<1>3. /\ \A k \in All : k # l => pc'[k] = pc[k] /\ item'[k] = item[k]
      /\ pc'[l] = (IF next <= Len(tasks) THEN "compile" ELSE IF l = Caller THEN "ready" ELSE "done")
      /\ item'[l] = next
      /\ pc' \in [All -> Places \cup {"idle", "done"}] /\ item' \in [All -> Nat \ {0}]
      /\ Caller \in All /\ \A k \in Lanes : k \in All
      /\ l \in Lanes \/ l = Caller
  BY <1>1, <1>2 DEF All, Places
<1>4. Typed'
  <2>1. next' \in Nat \ {0} /\ Descriptions' = Descriptions
    BY <1>1, <1>2 DEF Descriptions
  <2> QED
    BY <1>1, <1>3, <2>1 DEF IInv, Typed, TypeOK, encoding, device, All
<1>5. TasksKnown'
  BY <1>1, <1>2, <1>3, TasksStayKnown
<1>6. TasksClaimed'
  <2>1. \A k \in Lanes : pc'[k] \in {"idle", "claim", "compile", "threw", "done"}
    BY <1>2, <1>3 DEF TasksClaimed
  <2>2. \A k \in All : pc'[k] = "compile" => item'[k] < next' /\ item'[k] \in 1 .. Len(tasks)
    <3> SUFFICES ASSUME NEW k \in All, pc'[k] = "compile"
                 PROVE  item'[k] < next' /\ item'[k] \in 1 .. Len(tasks)
      OBVIOUS
    <3>1. CASE k = l
      BY <1>1, <1>2, <1>3, <3>1
    <3>2. CASE k # l
      <4>1. item[k] < next /\ item[k] \in 1 .. Len(tasks)
        BY <1>2, <1>3, <3>2 DEF TasksClaimed, At, All
      <4> QED
        BY <1>1, <1>2, <1>3, <3>2, <4>1
    <3> QED
      BY <3>1, <3>2
  <2>3. \A k \in slots : \E i \in 1 .. Len(tasks) : tasks[i] = k
    BY <1>2 DEF TasksClaimed
  <2>4. ASSUME NEW i \in 1 .. Len(tasks), i < next', tasks[i] \notin slots,
               \A k \in Lanes : pc'[k] # "threw"
        PROVE  \E k \in All : pc'[k] = "compile" /\ item'[k] = i
    <3>1. \A k \in Lanes : pc[k] # "threw"
      BY <1>1, <1>3, <2>4
    <3>2. CASE i = next
      <4>1. next <= Len(tasks)
        BY <3>2, <1>2
      <4> QED
        BY <4>1, <1>3, <3>2
    <3>3. CASE i # next
      <4>1. i < next
        BY <1>1, <1>2, <2>4, <3>3
      <4>2. PICK k \in All : pc[k] = "compile" /\ item[k] = i
        BY <1>2, <2>4, <3>1, <4>1 DEF TasksClaimed, At, All
      <4>3. k # l
        BY <1>1, <4>2
      <4> QED
        BY <1>3, <4>2, <4>3
    <3> QED
      BY <3>2, <3>3
  <2>5. \A k \in Lanes : pc'[k] \in {"claim", "compile"} => pc'[Caller] = "wait"
    <3> SUFFICES ASSUME NEW k \in Lanes, pc'[k] \in {"claim", "compile"} PROVE pc'[Caller] = "wait"
      OBVIOUS
    <3>1. pc[k] \in {"claim", "compile"}
      BY <1>1, <1>3
    <3>2. pc[Caller] = "wait"
      BY <1>2, <3>1 DEF TasksClaimed, At
    <3>3. l # Caller
      BY <1>2, <3>2
    <3> QED
      BY <1>3, <3>2, <3>3
  <2>6. pc'[Caller] = "wait" => \E k \in Lanes : pc'[k] # "idle"
    <3> SUFFICES ASSUME pc'[Caller] = "wait" PROVE \E k \in Lanes : pc'[k] # "idle"
      OBVIOUS
    <3>1. l # Caller
      BY <1>3
    <3>2. l \in Lanes /\ pc'[l] # "idle"
      BY <1>3, <3>1
    <3> QED
      BY <3>2
  <2>7. (\E k \in Lanes : pc'[k] = "done") /\ Compiling' => next' > Len(tasks)
    <3> SUFFICES ASSUME NEW k \in Lanes, pc'[k] = "done" PROVE next' > Len(tasks)
      OBVIOUS
    <3>1. CASE k = l
      <4>1. ~(next <= Len(tasks))
        BY <1>3, <3>1
      <4> QED
        BY <4>1, <1>1, <1>2
    <3>2. CASE k # l
      <4>1. next > Len(tasks)
        BY <1>2, <1>3, <3>2 DEF TasksClaimed, At
      <4> QED
        BY <4>1, <1>1, <1>2
    <3> QED
      BY <3>1, <3>2
  <2>8. pc'[Caller] \in {"claim", "compile"} => \A k \in Lanes : pc'[k] = "idle"
    <3> SUFFICES ASSUME pc'[Caller] \in {"claim", "compile"}, NEW k \in Lanes PROVE pc'[k] = "idle"
      OBVIOUS
    <3>1. pc[Caller] \in {"claim", "compile"} /\ l = Caller
      BY <1>2, <1>3
    <3> QED
      BY <1>2, <1>3, <3>1 DEF TasksClaimed, At
  <2>9. Compiled' => \A i \in 1 .. Len(tasks) : tasks[i] \in slots
    <3> SUFFICES ASSUME Compiled', NEW i \in 1 .. Len(tasks) PROVE tasks[i] \in slots
      OBVIOUS
    <3>1. l = Caller /\ ~(next <= Len(tasks))
      BY <1>2, <1>3 DEF Compiled, Compiling, Scheduling
    <3>2. i < next
      BY <1>2, <3>1
    <3>3. \A k \in Lanes : pc[k] = "idle"
      BY <1>2, <3>1 DEF TasksClaimed, At
    <3>4. \A k \in Lanes \cup {Caller} : pc[k] # "compile"
      BY <1>1, <3>1, <3>3
    <3> QED
      BY <1>2, <3>2, <3>3, <3>4 DEF TasksClaimed, At
  <2>10. tasks' = tasks /\ slots' = slots
    BY <1>1
  <2>11. ASSUME NEW i \in 1 .. Len(tasks)
         PROVE  \/ ~(i < next')
                \/ tasks[i] \in slots
                \/ \E k \in Lanes \cup {Caller} : pc'[k] = "compile" /\ item'[k] = i
                \/ \E k \in Lanes : pc'[k] = "threw"
    BY <2>4 DEF All
  <2> QED
    BY <2>1, <2>2, <2>3, <2>5, <2>6, <2>7, <2>8, <2>9, <2>10, <2>11 DEF TasksClaimed, At, All
<1>7. EncodeInv'
  <2>1. pc'[Caller] \in {"claim", "wait", "compile", "ready"}
    BY <1>2, <1>3
  <2> QED
    BY <1>1, <1>2, <2>1, NotYetEncoding
<1> QED
  BY <1>4, <1>5, <1>6, <1>7 DEF IInv, CompileInv

LEMMA CompileStep == ASSUME IInv, NEW l \in All, Compile(l) PROVE IInv'
<1>1. /\ UNCHANGED <<plans, workers, effect, current, scheduled, tasks, next, item, encoding, device>>
      /\ pc[l] = "compile" /\ slots' = slots \cup {tasks[item[l]]}
      /\ pc' = [pc EXCEPT ![l] = "claim"]
  BY DEF Compile, At, Goto
<1>2. /\ Compiling /\ TasksClaimed /\ Caller \notin Lanes
      /\ l = Caller => pc[Caller] = "compile"
      /\ l \in Lanes => pc[Caller] = "wait"
      /\ next \in Nat \ {0} /\ Len(tasks) \in Nat
      /\ pc \in [All -> Places \cup {"idle", "done"}]
      /\ \A i \in 1 .. Len(tasks) : tasks[i] \in Descriptions \X Names
  BY <1>1, CompileFacts
<1>3. /\ \A k \in All : k # l => pc'[k] = pc[k]
      /\ pc'[l] = "claim"
      /\ pc' \in [All -> Places \cup {"idle", "done"}]
      /\ Caller \in All /\ \A k \in Lanes : k \in All
      /\ l \in Lanes \/ l = Caller
  BY <1>1, <1>2 DEF All, Places
<1>4. item[l] \in 1 .. Len(tasks)
  BY <1>1, <1>2 DEF TasksClaimed, At, All
<1>5. Typed'
  <2>1. tasks[item[l]] \in Descriptions \X (Common \cup Modules)
    BY <1>2, <1>4 DEF Names
  <2> QED
    BY <1>1, <1>2, <1>3, <2>1 DEF IInv, Typed, TypeOK, encoding, device, All, Descriptions
<1>6. TasksKnown'
  BY <1>1, <1>2, <1>3, TasksStayKnown
<1>7. TasksClaimed'
  <2>1. \A k \in Lanes : pc'[k] \in {"idle", "claim", "compile", "threw", "done"}
    BY <1>2, <1>3 DEF TasksClaimed
  <2>2. \A k \in All : pc'[k] = "compile" => item[k] < next /\ item[k] \in 1 .. Len(tasks)
    BY <1>1, <1>2, <1>3 DEF TasksClaimed, At, All
  <2>3. \A k \in slots' : \E i \in 1 .. Len(tasks) : tasks[i] = k
    BY <1>1, <1>2, <1>4 DEF TasksClaimed
  <2>4. ASSUME NEW i \in 1 .. Len(tasks), i < next, tasks[i] \notin slots',
               \A k \in Lanes : pc'[k] # "threw"
        PROVE  \E k \in All : pc'[k] = "compile" /\ item[k] = i
    <3>1. \A k \in Lanes : pc[k] # "threw"
      BY <1>1, <1>3, <2>4
    <3>2. tasks[i] \notin slots /\ i # item[l]
      BY <1>1, <2>4
    <3>3. PICK k \in All : pc[k] = "compile" /\ item[k] = i
      BY <1>2, <2>4, <3>1, <3>2 DEF TasksClaimed, At, All
    <3> QED
      BY <1>3, <3>2, <3>3
  <2>5. \A k \in Lanes : pc'[k] \in {"claim", "compile"} => pc'[Caller] = "wait"
    <3> SUFFICES ASSUME NEW k \in Lanes, pc'[k] \in {"claim", "compile"} PROVE pc'[Caller] = "wait"
      OBVIOUS
    <3>1. pc[k] \in {"claim", "compile"}
      BY <1>1, <1>3
    <3>2. pc[Caller] = "wait"
      BY <1>2, <3>1 DEF TasksClaimed, At
    <3> QED
      BY <1>1, <1>3, <3>2
  <2>6. pc'[Caller] = "wait" => \E k \in Lanes : pc'[k] # "idle"
    BY <1>3
  <2>7. (\E k \in Lanes : pc'[k] = "done") /\ Compiling' => next > Len(tasks)
    BY <1>2, <1>3 DEF TasksClaimed, At
  <2>8. pc'[Caller] \in {"claim", "compile"} => \A k \in Lanes : pc'[k] = "idle"
    <3> SUFFICES ASSUME pc'[Caller] \in {"claim", "compile"}, NEW k \in Lanes PROVE pc'[k] = "idle"
      OBVIOUS
    <3>1. pc[Caller] \in {"claim", "compile"} /\ l = Caller
      BY <1>2, <1>3
    <3> QED
      BY <1>2, <1>3, <3>1 DEF TasksClaimed, At
  <2>9. ~Compiled'
    BY <1>1, <1>2, <1>3 DEF Compiled, Compiling
  <2>10. tasks' = tasks /\ next' = next /\ item' = item
    BY <1>1
  <2>11. ASSUME NEW i \in 1 .. Len(tasks)
         PROVE  \/ ~(i < next)
                \/ tasks[i] \in slots'
                \/ \E k \in Lanes \cup {Caller} : pc'[k] = "compile" /\ item[k] = i
                \/ \E k \in Lanes : pc'[k] = "threw"
    BY <2>4 DEF All
  <2> QED
    BY <2>1, <2>2, <2>3, <2>5, <2>6, <2>7, <2>8, <2>9, <2>10, <2>11 DEF TasksClaimed, At, All
<1>8. EncodeInv'
  <2>1. pc'[Caller] \in {"claim", "wait", "compile"}
    BY <1>2, <1>3
  <2> QED
    BY <1>1, <1>2, <2>1, NotYetEncoding
<1> QED
  BY <1>5, <1>6, <1>7, <1>8 DEF IInv, CompileInv


LEMMA CompileFailsStep == ASSUME IInv, NEW l \in All, CompileFails(l) PROVE IInv'
<1>1. /\ UNCHANGED <<plans, workers, effect, current, scheduled, tasks, next, item, slots, encoding, device>>
      /\ pc[l] = "compile"
      /\ pc' = [pc EXCEPT ![l] = IF l = Caller THEN "refused" ELSE "threw"]
  BY DEF CompileFails, At, Goto, compiling
<1>2. /\ Compiling /\ TasksClaimed /\ Caller \notin Lanes
      /\ l = Caller => pc[Caller] = "compile"
      /\ l \in Lanes => pc[Caller] = "wait"
      /\ pc \in [All -> Places \cup {"idle", "done"}]
  BY <1>1, CompileFacts
<1>3. /\ \A k \in All : k # l => pc'[k] = pc[k]
      /\ pc'[l] = (IF l = Caller THEN "refused" ELSE "threw")
      /\ pc' \in [All -> Places \cup {"idle", "done"}]
      /\ Caller \in All /\ \A k \in Lanes : k \in All
      /\ l \in Lanes \/ l = Caller
  BY <1>1, <1>2 DEF All, Places
<1>4. Typed'
  <2>1. Descriptions' = Descriptions
    BY <1>1 DEF Descriptions
  <2> QED
    BY <1>1, <1>3, <2>1 DEF IInv, Typed, TypeOK, encoding, device, All
<1>5. TasksKnown'
  BY <1>1, <1>2, <1>3, TasksStayKnown
<1>6. TasksClaimed'
  <2>1. \A k \in Lanes : pc'[k] \in {"idle", "claim", "compile", "threw", "done"}
    BY <1>2, <1>3 DEF TasksClaimed
  <2>2. \A k \in All : pc'[k] = "compile" => item[k] < next /\ item[k] \in 1 .. Len(tasks)
    BY <1>1, <1>2, <1>3 DEF TasksClaimed, At, All
  <2>3. \A k \in slots : \E i \in 1 .. Len(tasks) : tasks[i] = k
    BY <1>2 DEF TasksClaimed
  <2>4. Compiling' => l \in Lanes /\ pc'[l] = "threw"
    BY <1>3 DEF Compiling
  <2>5. \A k \in Lanes : pc'[k] \in {"claim", "compile"} => pc'[Caller] = "wait"
    <3> SUFFICES ASSUME NEW k \in Lanes, pc'[k] \in {"claim", "compile"} PROVE pc'[Caller] = "wait"
      OBVIOUS
    <3>1. pc[k] \in {"claim", "compile"}
      BY <1>1, <1>2, <1>3
    <3>2. pc[Caller] = "wait"
      BY <1>2, <3>1 DEF TasksClaimed, At
    <3> QED
      BY <1>1, <1>3, <3>2
  <2>6. pc'[Caller] = "wait" => \E k \in Lanes : pc'[k] # "idle"
    BY <1>3
  <2>7. (\E k \in Lanes : pc'[k] = "done") /\ Compiling' => next > Len(tasks)
    BY <1>2, <1>3 DEF TasksClaimed, At
  <2>8. pc'[Caller] \notin {"claim", "compile"}
    BY <1>1, <1>2, <1>3
  <2>9. ~Compiled'
    BY <1>1, <1>2, <1>3 DEF Compiled, Compiling
  <2>10. tasks' = tasks /\ next' = next /\ item' = item /\ slots' = slots
    BY <1>1
  <2> QED
    BY <2>1, <2>2, <2>3, <2>4, <2>5, <2>6, <2>7, <2>8, <2>9, <2>10 DEF TasksClaimed, At, All
<1>7. EncodeInv'
  <2>1. pc'[Caller] \in {"refused", "wait"}
    BY <1>2, <1>3
  <2> QED
    BY <1>1, <1>2, <2>1, NotYetEncoding
<1> QED
  BY <1>4, <1>5, <1>6, <1>7 DEF IInv, CompileInv

LEMMA EndTasksStep == IInv /\ EndTasks => IInv'
<1> SUFFICES ASSUME IInv, EndTasks PROVE IInv'
  OBVIOUS
<1>1. /\ UNCHANGED <<plans, workers, effect, current, scheduled, tasks, next, item, slots, encoding, device>>
      /\ pc[Caller] = "wait" /\ \A l \in Lanes : pc[l] # "claim" /\ pc[l] # "compile"
      /\ pc' = [pc EXCEPT ![Caller] = AfterTasks]
      /\ AfterTasks = IF \E l \in Lanes : pc[l] = "threw" THEN "refused" ELSE "ready"
  BY DEF EndTasks, AfterTasks, At, Goto, compiling
<1>2. /\ Compiling /\ TasksClaimed /\ Caller \notin Lanes
      /\ pc \in [All -> Places \cup {"idle", "done"}]
      /\ next \in Nat \ {0} /\ Len(tasks) \in Nat
  BY <1>1, LenProperties DEF Compiling, IInv, CompileInv, Typed, TypeOK, All, Lanes, Caller
<1>3. /\ \A k \in Lanes : pc'[k] = pc[k]
      /\ pc'[Caller] = AfterTasks /\ AfterTasks \in {"refused", "ready"}
      /\ pc' \in [All -> Places \cup {"idle", "done"}]
  BY <1>1, <1>2 DEF All, Places
<1>4. Typed'
  <2>1. Descriptions' = Descriptions
    BY <1>1 DEF Descriptions
  <2> QED
    BY <1>1, <1>3, <2>1 DEF IInv, Typed, TypeOK, encoding, device, All
<1>5. TasksKnown'
  BY <1>1, <1>2, <1>3, TasksStayKnown
<1>6. TasksClaimed'
  <2>1. \A k \in Lanes : pc'[k] \in {"idle", "threw", "done"}
    BY <1>1, <1>2, <1>3 DEF TasksClaimed
  <2>2. \A k \in slots : \E i \in 1 .. Len(tasks) : tasks[i] = k
    BY <1>2 DEF TasksClaimed
  <2>3. ~Compiling' /\ pc'[Caller] \notin {"wait", "claim", "compile"}
    BY <1>3 DEF Compiling
  <2>4. Compiled' => \A i \in 1 .. Len(tasks) : tasks[i] \in slots
    <3> SUFFICES ASSUME Compiled', NEW i \in 1 .. Len(tasks) PROVE tasks[i] \in slots
      OBVIOUS
    <3>1. pc'[Caller] = "ready"
      BY <1>3 DEF Compiled
    <3>2. \A k \in Lanes : pc[k] # "threw"
      BY <1>1, <1>3, <3>1
    <3>3. PICK k \in Lanes : pc[k] # "idle"
      BY <1>1, <1>2 DEF TasksClaimed
    <3>4. pc[k] = "done"
      BY <1>1, <1>2, <3>2, <3>3 DEF TasksClaimed
    <3>5. next > Len(tasks)
      BY <1>2, <3>4 DEF TasksClaimed, At
    <3>6. i < next
      BY <1>2, <3>5
    <3>7. \A j \in Lanes \cup {Caller} : pc[j] # "compile"
      BY <1>1
    <3> QED
      BY <1>2, <3>2, <3>6, <3>7 DEF TasksClaimed, At
  <2>5. tasks' = tasks /\ next' = next /\ item' = item /\ slots' = slots
    BY <1>1
  <2>6. \A j \in Lanes \cup {Caller} : pc'[j] # "compile"
    BY <2>1, <2>3
  <2> QED
    BY <2>1, <2>2, <2>3, <2>4, <2>5, <2>6 DEF TasksClaimed, At
<1>7. EncodeInv'
  BY <1>1, <1>2, <1>3, NotYetEncoding
<1> QED
  BY <1>4, <1>5, <1>6, <1>7 DEF IInv, CompileInv

-----------------------------------------------------------------------------
(* The encoding *)

\* Once the tasks are over the compilation is left alone.
LEMMA CompilationIsOver ==
  ASSUME IInv, Compiled, UNCHANGED <<plans, workers, current, scheduled, tasks, next, item, slots>>,
         \A l \in Lanes : pc'[l] = pc[l], Compiled'
  PROVE  CompileInv'
<1>1. TasksKnown /\ TasksClaimed
  BY DEF IInv, CompileInv
<1>2. /\ ~Scheduling /\ ~Compiling /\ ~Scheduling' /\ ~Compiling'
      /\ pc'[Caller] \notin {"validate", "schedule", "wait", "claim", "compile"}
  BY DEF Compiled, Scheduling, Compiling
<1>3. TasksKnown'
  <2>1. \A d \in Descriptions : KernelsOf(d)' = KernelsOf(d)
    BY DEF KernelsOf
  <2>2. Descriptions' = Descriptions /\ EveryTaskHasItsSlot'
    BY <1>1 DEF Descriptions, TasksKnown, EveryTaskHasItsSlot
  <2>3. \A i \in 1 .. Len(tasks) : \E d \in Descriptions : \E k \in KernelsOf(d) : tasks[i] = <<d, k>>
    BY <1>1 DEF TasksKnown
  <2>4. \A d \in Descriptions : \A k \in KernelsOf(d) : \E i \in 1 .. Len(tasks) : tasks[i] = <<d, k>>
    BY <1>1 DEF TasksKnown
  <2>5. /\ \A i \in 1 .. Len(tasks') : \E d \in Descriptions' : \E k \in KernelsOf(d)' : tasks'[i] = <<d, k>>
        /\ \A d \in Descriptions' : \A k \in KernelsOf(d)' : \E i \in 1 .. Len(tasks') : tasks'[i] = <<d, k>>
    BY <2>1, <2>2, <2>3, <2>4
  <2> QED
    BY <1>2, <2>2, <2>5 DEF TasksKnown
<1>4. TasksClaimed'
  <2>1. \A l \in Lanes : pc[l] \notin {"claim", "compile"}
    BY <1>1, <1>2 DEF TasksClaimed, At, Compiling
  <2>2. \A i \in 1 .. Len(tasks) : tasks[i] \in slots
    BY <1>1 DEF TasksClaimed
  <2>3. \A l \in Lanes : pc[l] \in {"idle", "threw", "done"}
    BY <1>1, <2>1 DEF TasksClaimed
  <2>4. \A k \in slots : \E i \in 1 .. Len(tasks) : tasks[i] = k
    BY <1>1 DEF TasksClaimed
  <2>5. \A l \in Lanes \cup {Caller} : pc'[l] # "compile"
    BY <1>2, <2>1
  <2> QED
    BY <1>2, <2>1, <2>2, <2>3, <2>4, <2>5 DEF TasksClaimed, At
<1> QED
  BY <1>3, <1>4 DEF CompileInv

\* Every shader that a description uses is there.
LEMMA CompleteFacts ==
  ASSUME IInv, Compiled
  PROVE  slots = UNION {{d} \X KernelsOf(d) : d \in Descriptions}
<1>1. TasksKnown /\ TasksClaimed
  BY DEF IInv, CompileInv
<1>2. ASSUME NEW k \in slots PROVE k \in UNION {{d} \X KernelsOf(d) : d \in Descriptions}
  <2>1. PICK i \in 1 .. Len(tasks) : tasks[i] = k
    BY <1>1 DEF TasksClaimed
  <2>2. PICK d \in Descriptions : \E n \in KernelsOf(d) : tasks[i] = <<d, n>>
    BY <1>1 DEF TasksKnown
  <2>3. k \in {d} \X KernelsOf(d)
    BY <2>1, <2>2
  <2> QED
    BY <2>3
<1>3. ASSUME NEW d \in Descriptions, NEW n \in KernelsOf(d) PROVE <<d, n>> \in slots
  <2>1. PICK i \in 1 .. Len(tasks) : tasks[i] = <<d, n>>
    BY <1>1 DEF TasksKnown
  <2> QED
    BY <1>1, <2>1 DEF TasksClaimed
<1> QED
  BY <1>2, <1>3


\* No command depends on anything but the call and the plans.
LEMMA CommandsStay ==
  ASSUME UNCHANGED <<plans, call>>
  PROVE  /\ Samples' = Samples /\ Last' = Last
         /\ \A s : IsEncoded(s)' = IsEncoded(s)
         /\ \A p : Kernel(p)' = Kernel(p) /\ Source(p)' = Source(p) /\ Target(p)' = Target(p)
         /\ \A s, p : CommandAt(s, p)' = CommandAt(s, p)
         /\ MotionIsValid' = MotionIsValid /\ SizesFit' = SizesFit
         /\ Descriptions' = Descriptions
<1>1. Effects' = Effects
  BY DEF Effects
<1>2. Samples' = Samples /\ Last' = Last /\ \A s : IsEncoded(s)' = IsEncoded(s)
  BY <1>1 DEF Samples, Last, IsEncoded
<1>3. \A p : Kernel(p)' = Kernel(p) /\ Source(p)' = Source(p) /\ Target(p)' = Target(p)
  BY <1>1 DEF Kernel, Source, Target
<1>4. \A s, p : CommandAt(s, p)' = CommandAt(s, p)
  BY <1>3 DEF CommandAt
<1>5. MotionIsValid' = MotionIsValid /\ SizesFit' = SizesFit
  BY <1>2 DEF MotionIsValid, SizesFit, PlacementsIncrease, SourcesResolve
<1> QED
  BY <1>2, <1>3, <1>4, <1>5 DEF Descriptions

\* What is to be shown of the stream after a step that records a command.
LEMMA RecordedStream ==
  ASSUME NEW commands, stream' = commands, UNCHANGED <<plans, call>>,
         WellFormed(commands), InOrder(commands), NEW s, NEW p, sample' = s, Pending' = p,
         Before(commands, s, p), CompleteBefore(commands, s),
         pc'[Caller] = "returned" => s = call.samples
  PROVE  StreamKnown'
<1>1. /\ Samples' = Samples /\ Last' = Last /\ \A t : IsEncoded(t)' = IsEncoded(t)
      /\ \A t, q : CommandAt(t, q)' = CommandAt(t, q)
  BY CommandsStay
<1>2. WellFormed(stream)'
  BY <1>1 DEF WellFormed
<1>3. InOrder(stream)' /\ Before(stream, sample, Pending)'
  BY DEF InOrder, Before
<1>4. CompleteBefore(stream, sample)'
  BY <1>1 DEF CompleteBefore
<1> QED
  BY <1>2, <1>3, <1>4 DEF StreamKnown
\* The call is known, and what it says of the samples.
LEMMA MotionFacts ==
  ASSUME IInv, MotionIsValid
  PROVE  /\ call.samples \in Nat /\ call.samples > 0 /\ Samples = 0 .. call.samples - 1
         /\ \A i \in Samples : call.sources[i] \in Samples /\ call.sources[i] <= i
                               /\ IsEncoded(call.sources[i])
         /\ DOMAIN call.sources = Samples
         /\ call.sources[0] = 0
<1>1. SizesFit /\ SourcesResolve /\ call.samples \in Nat /\ call.samples > 0
  BY ClassicCollectionAssumption DEF MotionIsValid, SizesFit, IInv, Typed
<1>2. call.sources \in [Samples -> Nat]
  BY <1>1 DEF IInv, EncodeInv, CallKnown
<1>3. Samples = 0 .. call.samples - 1
  BY DEF Samples
<1>4. \A i \in Samples : call.sources[i] \in Nat /\ call.sources[i] <= i
  BY <1>1, <1>2 DEF SourcesResolve
<1>5. \A i \in Samples : call.sources[i] \in Samples /\ IsEncoded(call.sources[i])
  <2> SUFFICES ASSUME NEW i \in Samples PROVE call.sources[i] \in Samples /\ IsEncoded(call.sources[i])
    OBVIOUS
  <2>1. call.sources[i] \in Samples
    BY <1>1, <1>3, <1>4
  <2> QED
    BY <1>1, <2>1 DEF SourcesResolve, IsEncoded
<1>6. 0 \in Samples
  BY <1>1, <1>3
<1> QED
  BY <1>1, <1>2, <1>3, <1>4, <1>5, <1>6

LEMMA CallEncodeMotionStep == IInv /\ CallEncodeMotion => IInv'
<1> SUFFICES ASSUME IInv, CallEncodeMotion PROVE IInv'
  OBVIOUS
<1>1. /\ UNCHANGED <<plans, workers, effect, current, scheduled, tasks, next, item, slots, sample,
                     sourceIsB, stream, done, content>>
      /\ pc[Caller] = "ready" /\ pc' = [pc EXCEPT ![Caller] = "check"]
  BY DEF CallEncodeMotion, At, Goto, compiling, device
<1>2. /\ stream = <<>> /\ sample = 0 /\ done = 0
      /\ pc \in [All -> Places \cup {"idle", "done"}]
  BY <1>1 DEF IInv, EncodeInv, CallKnown, Typed, TypeOK, All
<1>3. /\ pc'[Caller] = "check" /\ \A l \in Lanes : pc'[l] = pc[l]
      /\ pc' \in [All -> Places \cup {"idle", "done"}]
  BY <1>1, <1>2 DEF All, Lanes, Caller, Places
<1>4. /\ call'.samples \in Nat /\ call'.strands \in Nat
      /\ SizesFit' => /\ call'.sources \in [Samples' -> Nat]
                      /\ call'.placements \in [Samples' -> Placements \cup {NotFinite}]
  <2>1. PICK description \in 0 .. Len(plans), samples \in 0 .. MaxSamples + 1, matching \in BOOLEAN,
             strands \in Strands, baseOnly \in BOOLEAN :
          LET size == IF samples <= MaxSamples /\ matching THEN samples ELSE 0
          IN \E placements \in [0 .. size - 1 -> Placements \cup {NotFinite}],
               sources \in [0 .. size - 1 -> 0 .. size] :
               \E consistent \in [OwnSamples(sources) -> BOOLEAN] :
                 call' = [description |-> description, samples |-> samples,
                          matching |-> matching, placements |-> placements,
                          sources |-> sources, consistent |-> consistent,
                          strands |-> strands, baseOnly |-> baseOnly]
    BY DEF CallEncodeMotion
  <2>2. PICK size : size = IF samples <= MaxSamples /\ matching THEN samples ELSE 0
    OBVIOUS
  <2>3. PICK placements \in [0 .. size - 1 -> Placements \cup {NotFinite}],
             sources \in [0 .. size - 1 -> 0 .. size] :
             \E consistent :
               call' = [description |-> description, samples |-> samples,
                        matching |-> matching, placements |-> placements,
                        sources |-> sources, consistent |-> consistent,
                        strands |-> strands, baseOnly |-> baseOnly]
    BY <2>1, <2>2
  <2>4. /\ call'.samples = samples /\ call'.strands = strands /\ call'.matching = matching
        /\ call'.sources = sources /\ call'.placements = placements
    BY <2>3
  <2>5. samples \in Nat /\ strands \in Nat /\ MaxSamples \in Nat
    BY ClassicCollectionAssumption
  <2>6. ASSUME SizesFit' PROVE /\ sources \in [Samples' -> Nat]
                               /\ placements \in [Samples' -> Placements \cup {NotFinite}]
    <3>1. samples \in 1 .. MaxSamples /\ matching
      BY <2>4, <2>6 DEF SizesFit
    <3>2. size = samples
      BY <2>2, <2>5, <3>1
    <3>3. Samples' = 0 .. size - 1
      BY <2>4, <3>2 DEF Samples
    <3>4. \A i \in 0 .. size - 1 : sources[i] \in Nat
      BY <2>5, <3>2
    <3> QED
      BY <3>3, <3>4
  <2> QED
    BY <2>4, <2>5, <2>6
<1>5. Typed'
  <2>1. Descriptions' = Descriptions
    BY <1>1 DEF Descriptions
  <2> QED
    BY <1>1, <1>2, <1>3, <1>4, <2>1 DEF IInv, Typed, TypeOK, All
<1>6. CompileInv'
  BY <1>1, <1>3, CompilationIsOver DEF Compiled, Compiling, Scheduling
<1>7. EncodeInv'
  <2>1. CallKnown'
    BY <1>1, <1>2, <1>3, <1>4 DEF CallKnown, Scheduling, Compiling, Encoding
  <2>2. StreamKnown' /\ ContentKnown'
    BY <1>1, <1>2, <1>3 DEF StreamKnown, WellFormed, InOrder, Before, CompleteBefore, ContentKnown, Encoding
  <2> QED
    BY <2>1, <2>2 DEF EncodeInv
<1> QED
  BY <1>5, <1>6, <1>7 DEF IInv

LEMMA CheckMotionStep == IInv /\ CheckMotion => IInv'
<1> SUFFICES ASSUME IInv, CheckMotion PROVE IInv'
  OBVIOUS
<1>1. /\ UNCHANGED <<plans, workers, effect, current, scheduled, tasks, next, item, slots,
                     call, sample, sourceIsB, stream, done>>
      /\ pc[Caller] = "check"
      /\ pc' = [pc EXCEPT ![Caller] = IF MotionIsValid THEN "sample" ELSE "threw"]
      /\ content' = [s \in Samples |-> [b \in Buffers |-> <<>>]]
  BY DEF CheckMotion, At, Goto, compiling, encoding
<1>2. /\ stream = <<>> /\ sample = 0 /\ done = 0
      /\ pc \in [All -> Places \cup {"idle", "done"}]
      /\ CallKnown
  BY <1>1 DEF IInv, EncodeInv, CallKnown, Typed, TypeOK, All
<1>3. /\ pc'[Caller] = (IF MotionIsValid THEN "sample" ELSE "threw")
      /\ \A l \in Lanes : pc'[l] = pc[l]
      /\ pc' \in [All -> Places \cup {"idle", "done"}]
  BY <1>1, <1>2 DEF All, Lanes, Caller, Places
<1>4. /\ Samples' = Samples /\ MotionIsValid' = MotionIsValid /\ SizesFit' = SizesFit
      /\ Descriptions' = Descriptions
  BY <1>1, CommandsStay
<1>5. Typed'
  BY <1>1, <1>2, <1>3, <1>4 DEF IInv, Typed, TypeOK, All
<1>6. CompileInv'
  BY <1>1, <1>3, CompilationIsOver DEF Compiled, Compiling, Scheduling
<1>7. EncodeInv'
  <2>1. CallKnown'
    BY <1>1, <1>2, <1>3, <1>4 DEF CallKnown, Scheduling, Compiling, Encoding, IInv, Typed
  <2>2. Encoding' => Pending' = 1
    BY <1>3 DEF Encoding, Pending
  <2>3. StreamKnown'
    BY <1>1, <1>2, <1>3, <2>2 DEF StreamKnown, WellFormed, InOrder, Before, CompleteBefore
  <2>4. ContentKnown'
    <3>1. <<>> \in Seq(Common \cup Modules)
      OBVIOUS
    <3>2. content' \in [Samples' -> [Buffers -> Seq(Common \cup Modules)]]
      BY <1>1, <1>4, <3>1
    <3> QED
      BY <1>1, <1>2, <3>2 DEF ContentKnown
  <2> QED
    BY <2>1, <2>3, <2>4 DEF EncodeInv
<1> QED
  BY <1>5, <1>6, <1>7 DEF IInv

LEMMA SkipSampleStep == IInv /\ SkipSample => IInv'
<1> SUFFICES ASSUME IInv, SkipSample PROVE IInv'
  OBVIOUS
<1>1. /\ UNCHANGED <<plans, workers, effect, current, scheduled, tasks, next, item, slots,
                     call, pc, sourceIsB, stream, done, content>>
      /\ pc[Caller] = "sample" /\ sample < call.samples /\ ~IsEncoded(sample)
      /\ sample' = sample + 1
  BY DEF SkipSample, At, compiling, device
<1>2. /\ CallKnown /\ StreamKnown /\ ContentKnown /\ sample \in Nat /\ call.samples \in Nat
      /\ Encoding /\ MotionIsValid
  BY <1>1 DEF IInv, EncodeInv, Typed, TypeOK, CallKnown, Encoding
<1>3. /\ Samples' = Samples /\ MotionIsValid' = MotionIsValid /\ SizesFit' = SizesFit
      /\ Descriptions' = Descriptions /\ Last' = Last /\ \A s : IsEncoded(s)' = IsEncoded(s)
      /\ \A s, p : CommandAt(s, p)' = CommandAt(s, p)
  BY <1>1, CommandsStay
<1>4. Typed'
  BY <1>1, <1>2, <1>3 DEF IInv, Typed, TypeOK
<1>5. CompileInv'
  BY <1>1, CompilationIsOver DEF Compiled, Compiling, Scheduling
<1>6. CallKnown'
  BY <1>1, <1>2, <1>3 DEF CallKnown, Scheduling, Compiling, Encoding
<1>7. StreamKnown'
  <2>1. Pending = 1 /\ Pending' = 1
    BY <1>1 DEF Pending
  <2>2. \A j \in 1 .. Len(stream) : stream[j].sample \in Nat /\ stream[j].place \in Nat /\ stream[j].place >= 1
    <3> SUFFICES ASSUME NEW j \in 1 .. Len(stream)
                 PROVE  stream[j].sample \in Nat /\ stream[j].place \in Nat /\ stream[j].place >= 1
      OBVIOUS
    <3>1. PICK s \in Samples, p \in 1 .. Last : stream[j] = CommandAt(s, p)
      BY <1>2 DEF StreamKnown, WellFormed, InOrder, Before, CompleteBefore
    <3> QED
      BY <3>1, <1>2 DEF CommandAt, Samples
  <2>3. \A j \in 1 .. Len(stream) : stream[j].sample < sample
    BY <1>2, <2>1, <2>2 DEF StreamKnown, WellFormed, InOrder, Before, CompleteBefore
  <2>4. \A j \in 1 .. Len(stream) : stream[j].sample < sample'
    BY <1>1, <1>2, <2>2, <2>3
  <2>5. \A s \in 0 .. sample' - 1 : IsEncoded(s) => s \in 0 .. sample - 1
    BY <1>1, <1>2
  <2>6. \A s \in 0 .. sample' - 1 : IsEncoded(s)' =>
          \E j \in 1 .. Len(stream) : stream[j].sample = s /\ stream[j].place = Last
    BY <1>2, <1>3, <2>5 DEF StreamKnown, WellFormed, InOrder, Before, CompleteBefore
  <2> QED
    <3>1. WellFormed(stream) /\ InOrder(stream)
      BY <1>2 DEF StreamKnown
    <3>2. Before(stream, sample', 1)
      BY <2>4 DEF Before
    <3>3. CompleteBefore(stream, sample')
      BY <1>3, <2>6 DEF CompleteBefore
    <3> QED
      BY <1>1, <2>1, <3>1, <3>2, <3>3, RecordedStream
<1>8. ContentKnown'
  BY <1>1, <1>2, <1>3, CommandsStay DEF ContentKnown, Encoding, Through
<1> QED
  BY <1>4, <1>5, <1>6, <1>7, <1>8 DEF IInv, EncodeInv


\* The places of the commands of a description, and the buffers between them.
LEMMA PlaceFacts ==
  ASSUME IInv, call.description \in Descriptions
  PROVE  /\ Effects \in Seq(Modules) /\ Len(Effects) \in Nat
         /\ Last \in Nat /\ Last >= 1
         /\ ~call.baseOnly => Last = Len(Effects) + 3
         /\ Kernel(1) = "base" /\ Source(1) = "none" /\ Target(1) = "a"
         /\ Kernel(2) = "primitive" /\ Source(2) = "a" /\ Target(2) = "b"
         /\ \A p \in 2 .. Len(Effects) + 3 : Source(p) = Target(p - 1)
         /\ Kernel(Len(Effects) + 3) = "width"
         /\ \A p \in 1 .. Len(Effects) + 3 :
              Kernel(p) \in Names /\ Source(p) \in Buffers \cup {"none"} /\ Target(p) \in Buffers
<1>1. Effects \in Seq(Modules) /\ Len(Effects) \in Nat
      /\ \A i \in 1 .. Len(Effects) : Effects[i] \in Modules
  BY IInvPlans DEF Effects
<1>2. PICK n \in Nat : n = Len(Effects)
  BY <1>1
<1>3. Buffer(1) = "a" /\ Buffer(2) = "b" /\ \A p : Buffer(p) \in Buffers
  BY DEF Buffer, Buffers
<1>4. 1 # n + 3 /\ 2 # n + 3 /\ 2 - 1 = 1 /\ n + 3 # 1 /\ n + 3 # 2 /\ ~(n + 3 < n + 3)
  BY <1>2
<1>5. Last \in Nat /\ Last >= 1 /\ (~call.baseOnly => Last = n + 3)
  BY <1>2 DEF Last
<1>6. /\ Kernel(1) = "base" /\ Source(1) = "none" /\ Target(1) = "a"
      /\ Kernel(2) = "primitive" /\ Source(2) = "a" /\ Target(2) = "b"
      /\ Kernel(n + 3) = "width"
  BY <1>2, <1>3, <1>4 DEF Kernel, Source, Target
<1>7. ASSUME NEW p \in 2 .. n + 3 PROVE Source(p) = Target(p - 1)
  <2>1. p # 1 /\ p - 1 # n + 3
    BY <1>2, <1>7
  <2> QED
    BY <1>2, <2>1 DEF Source, Target
<1>8. ASSUME NEW p \in 1 .. n + 3
      PROVE  Kernel(p) \in Names /\ Source(p) \in Buffers \cup {"none"} /\ Target(p) \in Buffers
  <2>1. Source(p) \in Buffers \cup {"none"} /\ Target(p) \in Buffers
    BY <1>3 DEF Source, Target
  <2>2. p # 1 /\ p # 2 /\ p < n + 3 => p - 2 \in 1 .. n
    BY <1>2
  <2>3. Kernel(p) \in Names
    BY <1>1, <1>2, <2>2 DEF Kernel, Names, Common
  <2> QED
    BY <2>1, <2>3
<1> QED
  BY <1>1, <1>2, <1>5, <1>6, <1>7, <1>8

\* What a step that records the pending command leaves in the stream.
LEMMA RecordFacts ==
  ASSUME IInv, Encoding, call.description \in Descriptions,
         sample < call.samples, IsEncoded(sample), Pending \in 1 .. Last,
         NEW commands, commands = Append(stream, CommandAt(sample, Pending)), stream' = commands,
         UNCHANGED <<plans, call, done, content>>
  PROVE  /\ commands \in Seq(Command) /\ Len(commands) = Len(stream) + 1 /\ Len(stream) \in Nat
         /\ commands # <<>> /\ done' \in 0 .. Len(commands)
         /\ \A j \in 1 .. Len(stream) : commands[j] = stream[j]
         /\ commands[Len(stream) + 1] = CommandAt(sample, Pending)
         /\ WellFormed(commands) /\ InOrder(commands) /\ ContentKnown'
         /\ \A j \in 1 .. Len(commands) :
              /\ commands[j].sample \in Nat /\ commands[j].place \in Nat
              /\ \/ commands[j].sample < sample
                 \/ commands[j].sample = sample /\ commands[j].place <= Pending
<1>0. PICK n : n = Len(stream)
  OBVIOUS
<1>1. PICK next1 : next1 = Pending
  OBVIOUS
<1>2. /\ StreamKnown /\ ContentKnown /\ CallKnown /\ stream \in Seq(Command) /\ n \in Nat
      /\ done \in 0 .. n /\ sample \in Nat /\ call.samples \in Nat /\ sample \in Samples
      /\ Last \in Nat
  BY SMTT(60), <1>0, PlaceFacts, LenProperties DEF IInv, EncodeInv, Typed, TypeOK, Samples
<1>3. next1 \in 1 .. Len(Effects) + 3 /\ next1 \in Nat /\ Len(Effects) \in Nat
  <2>1. Last = 1 \/ Last = Len(Effects) + 3
    BY DEF Last
  <2> QED
    BY <1>1, <1>2, <2>1, PlaceFacts
<1>4. CommandAt(sample, next1) \in Command
  <2>1. Kernel(next1) \in Names /\ Source(next1) \in Buffers \cup {"none"} /\ Target(next1) \in Buffers
    BY <1>3, PlaceFacts
  <2> QED
    BY <1>2, <1>3, <2>1 DEF CommandAt, Command, Names
<1>5. PICK c : c = CommandAt(sample, next1)
  OBVIOUS
<1>6. /\ commands \in Seq(Command) /\ Len(commands) = n + 1
      /\ \A j \in 1 .. n : commands[j] = stream[j]
      /\ commands[n + 1] = c
  BY <1>0, <1>1, <1>2, <1>4, <1>5
<1>7. c.sample = sample /\ c.place = next1
  BY <1>5 DEF CommandAt
<1>8. /\ \A j \in 1 .. n + 1 : j \in 1 .. n \/ j = n + 1
      /\ \A j \in 1 .. n : j \in 1 .. n + 1 /\ j < n + 1 /\ ~(n + 1 < j)
      /\ n + 1 \in 1 .. n + 1 /\ n + 1 \notin 1 .. n
  BY <1>2
<1>9. \A j \in 1 .. n : \/ stream[j].sample < sample
                        \/ stream[j].sample = sample /\ stream[j].place < next1
  BY <1>0, <1>1, <1>2 DEF StreamKnown, WellFormed, InOrder, Before, CompleteBefore
<1>10. \A j \in 1 .. n : stream[j].sample \in Nat /\ stream[j].place \in Nat
  <2>1. \A j \in 1 .. n : stream[j] \in Command
    BY <1>0, <1>2, ElementOfSeq
  <2> QED
    BY <2>1 DEF Command
<1>11. next1 > 1 => n > 0 /\ stream[n].sample = sample /\ stream[n].place = next1 - 1
  <2>1. next1 > 1 => stream[n].sample = sample /\ stream[n].place = next1 - 1
    BY <1>0, <1>1, <1>2 DEF StreamKnown, WellFormed, InOrder, Before, CompleteBefore
  <2>2. next1 > 1 => stream # <<>>
    BY <1>1, <1>2 DEF Pending, CallKnown
  <2>3. stream # <<>> => n > 0
    BY <1>0, <1>2, EmptySeq
  <2> QED
    BY <2>1, <2>2, <2>3
<1>12. \A j \in 1 .. n + 1 : \E s \in Samples : \E p \in 1 .. Last :
              /\ IsEncoded(s)
              /\ commands[j] = CommandAt(s, p)
              /\ p > 1 => /\ j > 1
                          /\ commands[j - 1].sample = s
                          /\ commands[j - 1].place = p - 1
  <2> TAKE j \in 1 .. n + 1
  <2>1. CASE j \in 1 .. n
    <3>1. PICK s \in Samples, p \in 1 .. Last :
              /\ IsEncoded(s)
              /\ stream[j] = CommandAt(s, p)
              /\ p > 1 => /\ j > 1
                          /\ stream[j - 1].sample = s
                          /\ stream[j - 1].place = p - 1
      BY <1>0, <1>2, <2>1 DEF StreamKnown, WellFormed, InOrder, Before, CompleteBefore
    <3>2. j > 1 => j - 1 \in 1 .. n
      BY <1>2, <2>1
    <3> QED
      BY <1>6, <2>1, <3>1, <3>2
  <2>2. CASE j = n + 1
    <3>1. n > 0 => n \in 1 .. n /\ j > 1 /\ j - 1 = n
      BY <1>2, <2>2
    <3>2. next1 > 1 => j > 1 /\ commands[j - 1].sample = sample /\ commands[j - 1].place = next1 - 1
      BY <1>6, <1>11, <3>1
    <3>3. next1 \in 1 .. Last /\ commands[j] = CommandAt(sample, next1)
      BY <1>1, <1>5, <1>6, <2>2
    <3> QED
      BY <1>2, <3>2, <3>3
  <2> QED
    BY <1>8, <2>1, <2>2
<1>13. \A i, j \in 1 .. n + 1 :
              i < j => \/ commands[i].sample < commands[j].sample
                       \/ commands[i].sample = commands[j].sample
                          /\ commands[i].place < commands[j].place
  <2> TAKE i, j \in 1 .. n + 1
  <2> HAVE i < j
  <2>1. CASE j \in 1 .. n
    <3>1. i \in 1 .. n
      BY <1>2, <1>8, <2>1
    <3> QED
      BY <1>0, <1>2, <1>6, <2>1, <3>1 DEF StreamKnown, WellFormed, InOrder, Before, CompleteBefore
  <2>2. CASE j = n + 1
    <3>1. i \in 1 .. n
      BY <1>2, <1>8, <2>2
    <3> QED
      BY <1>6, <1>7, <1>9, <2>2, <3>1
  <2> QED
    BY <1>8, <2>1, <2>2
<1>14. \A j \in 1 .. n + 1 : \/ commands[j].sample < sample
                             \/ commands[j].sample = sample /\ commands[j].place <= next1
  <2> TAKE j \in 1 .. n + 1
  <2>1. CASE j \in 1 .. n
    BY <1>3, <1>6, <1>9, <1>10, <2>1
  <2>2. CASE j = n + 1
    BY <1>3, <1>6, <1>7, <2>2
  <2> QED
    BY <1>8, <2>1, <2>2
<1>15. ContentKnown'
  <2>1. \A p : Kernel(p)' = Kernel(p)
    BY CommandsStay
  <2>2. Last' = Last /\ Samples' = Samples
    BY CommandsStay
  <2>3. content' \in [Samples -> [Buffers -> Seq(Common \cup Modules)]]
    BY <1>2 DEF ContentKnown
  <2>4. ASSUME NEW j \in 1 .. done, j = done \/ commands[j].place = Last
        PROVE  Through(content[stream[j].sample][stream[j].target], stream[j].place)'
    <3>1. commands[j] = stream[j]
      BY <1>2, <1>6
    <3>2. Through(content[stream[j].sample][stream[j].target], stream[j].place)
      BY <1>2, <2>4, <3>1 DEF ContentKnown
    <3>3. /\ Len(content[stream[j].sample][stream[j].target]) = stream[j].place
          /\ \A i \in 1 .. stream[j].place : content[stream[j].sample][stream[j].target][i] = Kernel(i)
      BY <3>2 DEF Through
    <3>4. content' = content
      OBVIOUS
    <3>5. /\ Len(content'[commands[j].sample][commands[j].target]) = commands[j].place
          /\ \A i \in 1 .. commands[j].place : content'[commands[j].sample][commands[j].target][i] = Kernel(i)'
      BY <2>1, <3>1, <3>3, <3>4
    <3> QED
      BY <3>5 DEF Through
  <2>5. done' = done
    OBVIOUS
  <2> QED
    BY <2>2, <2>3, <2>4, <2>5 DEF ContentKnown
<1>16. commands # <<>> /\ done' \in 0 .. Len(commands)
  BY <1>2, <1>6
<1>17. WellFormed(commands)
  BY <1>6, <1>12 DEF WellFormed
<1>18. InOrder(commands)
  BY <1>6, <1>13 DEF InOrder
<1>19. \A j \in 1 .. n + 1 : commands[j].sample \in Nat /\ commands[j].place \in Nat
  BY <1>2, <1>3, <1>6, <1>7, <1>8, <1>10
<1> QED
  BY <1>0, <1>1, <1>2, <1>5, <1>6, <1>14, <1>15, <1>16, <1>17, <1>18, <1>19


\* A sample that has a shader for its kernels and a description to look them up.
LEMMA EncodeBaseStep == IInv /\ EncodeBase => IInv'
<1> SUFFICES ASSUME IInv, EncodeBase PROVE IInv'
  OBVIOUS
<1>1. /\ UNCHANGED <<plans, workers, effect, current, scheduled, tasks, next, item, slots,
                     call, sourceIsB, done, content>>
      /\ pc[Caller] = "sample" /\ sample < call.samples /\ IsEncoded(sample)
  BY DEF EncodeBase, At, compiling, device
<1>2. /\ CallKnown /\ StreamKnown /\ ContentKnown /\ sample \in Nat /\ call.samples \in Nat
      /\ Encoding /\ MotionIsValid /\ Pending = 1 /\ Compiled
      /\ pc \in [All -> Places \cup {"idle", "done"}]
      /\ call.strands \in Nat
  BY <1>1 DEF IInv, EncodeInv, Typed, TypeOK, CallKnown, Encoding, Pending, Compiled, Compiling,
     Scheduling, All
<1>3. /\ Samples' = Samples /\ MotionIsValid' = MotionIsValid /\ SizesFit' = SizesFit
      /\ Descriptions' = Descriptions /\ Last' = Last /\ \A s : IsEncoded(s)' = IsEncoded(s)
      /\ \A s, p : CommandAt(s, p)' = CommandAt(s, p) /\ \A q : Kernel(q)' = Kernel(q)
  BY <1>1, CommandsStay
<1>4. CASE ~DispatchIsValid
  <2>1. pc' = [pc EXCEPT ![Caller] = "threw"] /\ sample' = sample /\ stream' = stream
    BY <1>4 DEF EncodeBase, Goto
  <2>2. /\ pc'[Caller] = "threw" /\ \A l \in Lanes : pc'[l] = pc[l]
        /\ pc' \in [All -> Places \cup {"idle", "done"}]
    BY <1>2, <2>1 DEF All, Lanes, Caller, Places
  <2>3. Typed'
    BY <1>1, <1>2, <1>3, <2>1, <2>2 DEF IInv, Typed, TypeOK, All
  <2>4. CompileInv'
    BY <1>1, <1>2, <2>2, CompilationIsOver DEF Compiled, Compiling, Scheduling
  <2>5. CallKnown'
    BY <1>1, <1>2, <1>3, <2>1, <2>2 DEF CallKnown, Scheduling, Compiling, Encoding
  <2>7. StreamKnown'
    <3>1. WellFormed(stream) /\ InOrder(stream)
      BY <1>2 DEF StreamKnown
    <3>2. WellFormed(stream)' /\ InOrder(stream)'
      BY <1>3, <2>1, <3>1 DEF WellFormed, InOrder
    <3> QED
      BY <2>2, <3>2 DEF StreamKnown, Encoding
  <2>8. ContentKnown'
    BY <1>1, <1>2, <1>3, <2>1, <2>2 DEF ContentKnown, Encoding, Through
  <2> QED
    BY <2>3, <2>4, <2>5, <2>7, <2>8 DEF IInv, EncodeInv
<1>5. CASE DispatchIsValid
  <2>1. /\ call.description \in Descriptions /\ call.strands > 0 /\ call.consistent[sample]
    BY <1>2, <1>5 DEF DispatchIsValid
  <2>2. CommandAt(sample, 1) = [sample |-> sample, place |-> 1, kernel |-> "base",
                                source |-> "none", target |-> "a"]
    BY <2>1, PlaceFacts DEF CommandAt
  <2>3. stream' = Append(stream, CommandAt(sample, Pending))
    BY <1>2, <1>5, <2>2 DEF EncodeBase, Record
  <2>4. Last \in Nat /\ Last >= 1 /\ Pending \in 1 .. Last
    BY <1>2, <2>1, PlaceFacts
  <2>5. PICK commands, n : commands = stream' /\ n = Len(stream) + 1
    OBVIOUS
  <2>6. /\ commands \in Seq(Command) /\ Len(commands) = n /\ Len(stream) \in Nat
        /\ commands # <<>> /\ done' \in 0 .. n
        /\ \A j \in 1 .. Len(stream) : commands[j] = stream[j]
        /\ commands[n] = CommandAt(sample, 1)
        /\ WellFormed(commands) /\ InOrder(commands) /\ ContentKnown'
        /\ \A j \in 1 .. n :
             /\ commands[j].sample \in Nat /\ commands[j].place \in Nat
             /\ \/ commands[j].sample < sample
                \/ commands[j].sample = sample /\ commands[j].place <= 1
    <3>1. /\ commands \in Seq(Command) /\ Len(commands) = Len(stream) + 1 /\ Len(stream) \in Nat
          /\ commands # <<>> /\ done' \in 0 .. Len(commands)
          /\ \A j \in 1 .. Len(stream) : commands[j] = stream[j]
          /\ commands[Len(stream) + 1] = CommandAt(sample, Pending)
          /\ WellFormed(commands) /\ InOrder(commands) /\ ContentKnown'
          /\ \A j \in 1 .. Len(commands) :
               /\ commands[j].sample \in Nat /\ commands[j].place \in Nat
               /\ \/ commands[j].sample < sample
                  \/ commands[j].sample = sample /\ commands[j].place <= Pending
      <4>1. commands = Append(stream, CommandAt(sample, Pending)) /\ stream' = commands
        BY <2>3, <2>5
      <4>2. UNCHANGED <<plans, call, done, content>>
        BY <1>1
      <4> QED
        BY <1>1, <1>2, <2>1, <2>4, <4>1, <4>2, RecordFacts
    <3> QED
      BY <1>2, <2>5, <3>1
  <2>7. stream = <<>> => sample = 0
    <3> SUFFICES ASSUME stream = <<>>, sample # 0 PROVE FALSE
      OBVIOUS
    <3>1. 0 \in 0 .. sample - 1
      BY <1>2
    <3>2. IsEncoded(0)
      BY <1>2, MotionFacts DEF IsEncoded
    <3>3. \E j \in 1 .. Len(stream) : stream[j].sample = 0
      BY <1>2, <3>1, <3>2 DEF StreamKnown, CompleteBefore
    <3> QED
      BY <3>3
  <2>8. call.consistent[0]
    <3>1. CASE stream = <<>>
      BY <2>1, <2>7, <3>1
    <3>2. CASE stream # <<>>
      BY <1>2, <3>2 DEF CallKnown
    <3> QED
      BY <3>1, <3>2
  <2>9. /\ n \in 1 .. n /\ n \in Nat /\ commands[n].sample = sample /\ commands[n].place = 1
        /\ \A j \in 1 .. Len(stream) : j \in 1 .. n
        /\ stream' \in Seq(Command) /\ stream' # <<>> /\ done' \in 0 .. Len(stream')
    <3>1. n \in 1 .. n /\ n \in Nat /\ \A j \in 1 .. Len(stream) : j \in 1 .. n
      BY <2>5, <2>6
    <3>2. commands[n].sample = sample /\ commands[n].place = 1
      BY <2>6 DEF CommandAt
    <3>3. stream' = commands
      BY <2>5
    <3> QED
      BY <2>6, <3>1, <3>2, <3>3
  <2>10. CASE call.baseOnly
    <3>1. sample' = sample + 1 /\ pc' = pc
      BY <1>5, <2>10 DEF EncodeBase
    <3>2. Last = 1
      BY <2>10 DEF Last
    <3>3. Typed'
      BY SMTT(60), <1>1, <1>2, <1>3, <2>9, <3>1 DEF IInv, Typed, TypeOK
    <3>4. CompileInv'
      BY <1>1, <1>2, <3>1, CompilationIsOver DEF Compiled, Compiling, Scheduling
    <3>5. CallKnown'
      BY <1>1, <1>2, <1>3, <2>1, <2>8, <3>1 DEF CallKnown, Scheduling, Compiling, Encoding
    <3>6. StreamKnown'
      <4>1. Pending' = 1
        BY <1>1, <3>1 DEF Pending
      <4>2. \A j \in 1 .. n : commands[j].sample < sample + 1
        BY <1>2, <2>6
      <4>3. Before(commands, sample + 1, 1)
        BY <2>6, <4>2 DEF Before
      <4>4. CompleteBefore(commands, sample + 1)
        <5>0. (sample + 1) - 1 = sample
          BY <1>2
        <5> SUFFICES ASSUME NEW s \in 0 .. sample, IsEncoded(s)
                     PROVE  \E j \in 1 .. Len(commands) : commands[j].sample = s /\ commands[j].place = Last
          BY <5>0 DEF CompleteBefore
        <5>1. CASE s = sample
          <6>1. commands[n].sample = s /\ commands[n].place = Last /\ n \in 1 .. Len(commands)
            BY <2>6, <2>9, <3>2, <5>1
          <6> QED
            BY <6>1
        <5>2. CASE s # sample
          <6>1. s \in 0 .. sample - 1
            BY <1>2, <5>2
          <6>2. PICK j \in 1 .. Len(stream) : stream[j].sample = s /\ stream[j].place = Last
            BY <1>2, <6>1 DEF StreamKnown, CompleteBefore
          <6> QED
            BY <2>6, <2>9, <6>2
        <5> QED
          BY <5>1, <5>2
      <4> QED
        BY <1>1, <2>5, <2>6, <3>1, <4>1, <4>3, <4>4, RecordedStream
    <3> QED
      BY <2>6, <3>3, <3>4, <3>5, <3>6 DEF IInv, EncodeInv
  <2>11. CASE ~call.baseOnly
    <3>1. sample' = sample /\ pc' = [pc EXCEPT ![Caller] = "primitive"]
      BY <1>5, <2>11 DEF EncodeBase, Goto
    <3>2. /\ pc'[Caller] = "primitive" /\ \A l \in Lanes : pc'[l] = pc[l]
          /\ pc' \in [All -> Places \cup {"idle", "done"}]
      BY <1>2, <3>1 DEF All, Lanes, Caller, Places
    <3>3. Typed'
      BY <1>1, <1>2, <1>3, <2>9, <3>1, <3>2 DEF IInv, Typed, TypeOK, All
    <3>4. CompileInv'
      BY <1>1, <1>2, <3>2, CompilationIsOver DEF Compiled, Compiling, Scheduling
    <3>5. CallKnown'
      BY <1>1, <1>2, <1>3, <2>1, <2>9, <2>8, <2>11, <3>1, <3>2
      DEF CallKnown, Scheduling, Compiling, Encoding
    <3>6. StreamKnown'
      <4>1. Pending' = 2
        BY <3>2 DEF Pending
      <4>2. Before(commands, sample, 2)
        BY <2>6, <2>9 DEF Before
      <4>3. CompleteBefore(commands, sample)
        <5> SUFFICES ASSUME NEW s \in 0 .. sample - 1, IsEncoded(s)
                     PROVE  \E j \in 1 .. Len(commands) : commands[j].sample = s /\ commands[j].place = Last
          BY DEF CompleteBefore
        <5>1. PICK j \in 1 .. Len(stream) : stream[j].sample = s /\ stream[j].place = Last
          BY <1>2 DEF StreamKnown, CompleteBefore
        <5> QED
          BY <2>6, <2>9, <5>1
      <4> QED
        BY <1>1, <2>5, <2>6, <3>1, <3>2, <4>1, <4>2, <4>3, RecordedStream
    <3> QED
      BY <2>6, <3>3, <3>4, <3>5, <3>6 DEF IInv, EncodeInv
  <2> QED
    BY <2>10, <2>11
<1> QED
  BY <1>4, <1>5


\* The pending command is recorded, and the next one of the sample is pending, or
\* it was the last one.
LEMMA RecordedNext ==
  ASSUME IInv, Encoding, call.description \in Descriptions,
         sample < call.samples, IsEncoded(sample), Pending \in 1 .. Last,
         stream' = Append(stream, CommandAt(sample, Pending)),
         UNCHANGED <<plans, call, done, content>>, pc'[Caller] # "returned",
         \/ sample' = sample /\ Pending' = Pending + 1
         \/ sample' = sample + 1 /\ Pending' = 1 /\ Pending = Last
  PROVE  /\ stream' \in Seq(Command) /\ stream' # <<>> /\ done' \in 0 .. Len(stream')
         /\ StreamKnown' /\ ContentKnown'
<1>1. PICK commands, p : commands = stream' /\ p = Pending
  OBVIOUS
<1>2. /\ commands \in Seq(Command) /\ Len(commands) = Len(stream) + 1 /\ Len(stream) \in Nat
      /\ commands # <<>> /\ done' \in 0 .. Len(commands)
      /\ \A j \in 1 .. Len(stream) : commands[j] = stream[j]
      /\ commands[Len(stream) + 1] = CommandAt(sample, Pending)
      /\ WellFormed(commands) /\ InOrder(commands) /\ ContentKnown'
      /\ \A j \in 1 .. Len(commands) :
           /\ commands[j].sample \in Nat /\ commands[j].place \in Nat
           /\ \/ commands[j].sample < sample
              \/ commands[j].sample = sample /\ commands[j].place <= Pending
  <2>1. commands = Append(stream, CommandAt(sample, Pending)) /\ stream' = commands
    BY <1>1
  <2> QED
    BY <2>1, RecordFacts
<1>3. PICK n : n = Len(commands)
  OBVIOUS
<1>4. /\ n \in Nat /\ n \in 1 .. n /\ commands[n] = CommandAt(sample, p)
      /\ \A j \in 1 .. Len(stream) : j \in 1 .. n /\ commands[j] = stream[j]
      /\ \A j \in 1 .. n :
           /\ commands[j].sample \in Nat /\ commands[j].place \in Nat
           /\ \/ commands[j].sample < sample
              \/ commands[j].sample = sample /\ commands[j].place <= p
  BY <1>1, <1>2, <1>3
<1>5. sample \in Nat /\ Last \in Nat /\ p \in Nat
  BY <1>1, PlaceFacts DEF IInv, Typed, TypeOK
<1>6. commands[n].sample = sample /\ commands[n].place = p
  BY <1>4 DEF CommandAt
<1>7. ASSUME NEW s \in 0 .. sample - 1, IsEncoded(s)
      PROVE  \E j \in 1 .. n : commands[j].sample = s /\ commands[j].place = Last
  <2>1. PICK j \in 1 .. Len(stream) : stream[j].sample = s /\ stream[j].place = Last
    BY <1>7 DEF IInv, EncodeInv, StreamKnown, CompleteBefore
  <2> QED
    BY <1>4, <2>1
<1>8. CASE sample' = sample /\ Pending' = Pending + 1
  <2>1. Before(commands, sample, p + 1)
    <3>1. \A j \in 1 .. n : \/ commands[j].sample < sample
                            \/ commands[j].sample = sample /\ commands[j].place < p + 1
      BY <1>4, <1>5
    <3>2. PICK q : q = p + 1
      OBVIOUS
    <3>3. q - 1 = p
      BY <1>5, <3>2
    <3>4. commands[Len(commands)].sample = sample /\ commands[Len(commands)].place = q - 1
      BY <1>3, <1>6, <3>3
    <3>5. \A j \in 1 .. Len(commands) : \/ commands[j].sample < sample
                                        \/ commands[j].sample = sample /\ commands[j].place < q
      BY <1>3, <3>1, <3>2
    <3>6. Before(commands, sample, q)
      BY <3>4, <3>5 DEF Before
    <3> QED
      BY <3>2, <3>6
  <2>2. CompleteBefore(commands, sample)
    BY <1>3, <1>7 DEF CompleteBefore
  <2>3. Pending' = p + 1 /\ sample' = sample /\ stream' = commands
    BY <1>1, <1>8
  <2>4. StreamKnown'
    BY <1>2, <2>1, <2>2, <2>3, RecordedStream
  <2> QED
    BY <1>1, <1>2, <2>4
<1>9. CASE sample' = sample + 1 /\ Pending' = 1 /\ Pending = Last
  <2>1. Before(commands, sample + 1, 1)
    <3>1. \A j \in 1 .. n : commands[j].sample < sample + 1
      BY SMTT(30), <1>4, <1>5
    <3> QED
      BY <1>3, <3>1 DEF Before
  <2>2. CompleteBefore(commands, sample + 1)
    <3>1. (sample + 1) - 1 = sample
      BY <1>5
    <3> SUFFICES ASSUME NEW s \in 0 .. sample, IsEncoded(s)
                 PROVE  \E j \in 1 .. Len(commands) : commands[j].sample = s /\ commands[j].place = Last
      BY <3>1 DEF CompleteBefore
    <3>2. CASE s = sample
      <4>1. commands[n].sample = s /\ commands[n].place = Last /\ n \in 1 .. Len(commands)
        BY <1>1, <1>3, <1>4, <1>6, <1>9, <3>2
      <4> QED
        BY <4>1
    <3>3. CASE s # sample
      <4>1. s \in 0 .. sample - 1
        BY <1>5, <3>3
      <4> QED
        BY <1>3, <1>7, <4>1
    <3> QED
      BY <3>2, <3>3
  <2>3. Pending' = 1 /\ sample' = sample + 1 /\ stream' = commands
    BY <1>1, <1>9
  <2>4. StreamKnown'
    BY <1>2, <2>1, <2>2, <2>3, RecordedStream
  <2> QED
    BY <1>1, <1>2, <2>4
<1> QED
  BY <1>8, <1>9

LEMMA EncodePrimitiveStep == IInv /\ EncodePrimitive => IInv'
<1> SUFFICES ASSUME IInv, EncodePrimitive PROVE IInv'
  OBVIOUS
<1>1. /\ UNCHANGED <<plans, workers, current, scheduled, tasks, next, item, slots,
                     call, sample, done, content>>
      /\ pc[Caller] = "primitive" /\ pc' = [pc EXCEPT ![Caller] = "effects"]
      /\ sourceIsB' = TRUE /\ effect' = 1
      /\ stream' = Append(stream, [sample |-> sample, place |-> 2, kernel |-> "primitive",
                                   source |-> "a", target |-> "b"])
  BY DEF EncodePrimitive, At, Goto, Record, compiling, device
<1>2. /\ CallKnown /\ sample \in Nat /\ call.samples \in Nat /\ call.description \in Descriptions
      /\ Encoding /\ MotionIsValid /\ Pending = 2 /\ Compiled /\ ~call.baseOnly
      /\ IsEncoded(sample) /\ sample < call.samples /\ stream # <<>>
      /\ pc \in [All -> Places \cup {"idle", "done"}]
  BY <1>1 DEF IInv, EncodeInv, Typed, TypeOK, CallKnown, Encoding, Pending, Compiled, Compiling,
     Scheduling, All
<1>3. /\ MotionIsValid' = MotionIsValid /\ SizesFit' = SizesFit /\ Samples' = Samples
      /\ Descriptions' = Descriptions /\ IsEncoded(sample)' = IsEncoded(sample)
      /\ Effects' = Effects
  BY <1>1, CommandsStay DEF IsEncoded, Effects
<1>4. /\ pc'[Caller] = "effects" /\ \A l \in Lanes : pc'[l] = pc[l]
      /\ pc' \in [All -> Places \cup {"idle", "done"}]
  BY <1>1, <1>2 DEF All, Lanes, Caller, Places
<1>5. Len(Effects) \in Nat /\ Last = Len(Effects) + 3 /\ Pending \in 1 .. Last /\ Pending' = Pending + 1
  BY <1>1, <1>2, <1>4, PlaceFacts DEF Pending
<1>6. stream' = Append(stream, CommandAt(sample, Pending))
  BY <1>1, <1>2, PlaceFacts DEF CommandAt
<1>7. /\ stream' \in Seq(Command) /\ stream' # <<>> /\ done' \in 0 .. Len(stream')
      /\ StreamKnown' /\ ContentKnown'
  BY <1>1, <1>2, <1>4, <1>5, <1>6, RecordedNext
<1>8. Typed'
  BY <1>1, <1>2, <1>3, <1>4, <1>7 DEF IInv, Typed, TypeOK, All
<1>9. CompileInv'
  BY <1>1, <1>2, <1>4, CompilationIsOver DEF Compiled, Compiling, Scheduling
<1>10. CallKnown'
  BY <1>1, <1>2, <1>3, <1>4, <1>5, <1>7 DEF CallKnown, Scheduling, Compiling, Encoding
<1> QED
  BY <1>7, <1>8, <1>9, <1>10 DEF IInv, EncodeInv


\* A kernel of a compiled description is never missing.
LEMMA EffectHasSlot ==
  ASSUME IInv, Compiled, call.description \in Descriptions, NEW i \in 1 .. Len(Effects)
  PROVE  HasSlot(Effects[i])
<1>1. Effects[i] \in KernelsOf(call.description)
  BY DEF Effects, KernelsOf
<1> QED
  BY <1>1, CompleteFacts DEF HasSlot

LEMMA EncodeEffectStep == IInv /\ EncodeEffect => IInv'
<1> SUFFICES ASSUME IInv, EncodeEffect PROVE IInv'
  OBVIOUS
<1>1. /\ UNCHANGED <<plans, workers, current, scheduled, tasks, next, item, slots,
                     call, sample, done, content>>
      /\ pc[Caller] = "effects" /\ effect <= Len(Effects)
  BY DEF EncodeEffect, At, compiling, device
<1>2. /\ CallKnown /\ sample \in Nat /\ call.samples \in Nat /\ call.description \in Descriptions
      /\ Encoding /\ MotionIsValid /\ Pending = effect + 2 /\ Compiled /\ ~call.baseOnly
      /\ IsEncoded(sample) /\ sample < call.samples /\ stream # <<>>
      /\ effect \in 1 .. Len(Effects) + 1 /\ (sourceIsB <=> effect % 2 = 1) /\ sourceIsB \in BOOLEAN
      /\ pc \in [All -> Places \cup {"idle", "done"}]
  BY SMTT(60), <1>1 DEF IInv, EncodeInv, Typed, TypeOK, CallKnown, Encoding, Pending, Compiled, Compiling,
     Scheduling, All
<1>3. PICK e, n : e = effect /\ n = Len(Effects)
  OBVIOUS
<1>4. n \in Nat /\ e \in 1 .. n /\ e \in Nat
  BY <1>1, <1>2, <1>3, PlaceFacts
<1>5. HasSlot(Effects[effect])
  BY <1>2, <1>3, <1>4, EffectHasSlot
<1>6. /\ sourceIsB' = ~sourceIsB /\ effect' = effect + 1 /\ pc' = pc
      /\ stream' = Append(stream, [sample |-> sample, place |-> effect + 2,
                                   kernel |-> Effects[effect],
                                   source |-> IF sourceIsB THEN "b" ELSE "a",
                                   target |-> IF sourceIsB THEN "a" ELSE "b"])
  BY <1>5 DEF EncodeEffect, Record, Flip
<1>7. /\ MotionIsValid' = MotionIsValid /\ SizesFit' = SizesFit /\ Samples' = Samples
      /\ Descriptions' = Descriptions /\ IsEncoded(sample)' = IsEncoded(sample)
      /\ Effects' = Effects
  BY <1>1, CommandsStay DEF IsEncoded, Effects
<1>8. /\ Last = n + 3 /\ Pending \in 1 .. Last /\ Pending' = Pending + 1
  <2>1. Last = n + 3
    BY <1>2, <1>3, PlaceFacts
  <2>2. Pending' = effect' + 2
    BY <1>1, <1>6 DEF Pending
  <2> QED
    BY <1>2, <1>3, <1>4, <1>6, <2>1, <2>2
<1>9. CommandAt(sample, e + 2) = [sample |-> sample, place |-> effect + 2,
                                  kernel |-> Effects[effect],
                                  source |-> IF sourceIsB THEN "b" ELSE "a",
                                  target |-> IF sourceIsB THEN "a" ELSE "b"]
  <2>1. PICK p : p = e + 2
    OBVIOUS
  <2>2. /\ p # 1 /\ p # 2 /\ p < n + 3 /\ p # n + 3 /\ p - 2 = e /\ p - 1 = e + 1
        /\ (p % 2 = 1 <=> e % 2 = 1) /\ ((e + 1) % 2 = 1 <=> e % 2 # 1)
    BY <1>4, <2>1
  <2>3. Kernel(p) = Effects[effect]
    BY <1>3, <2>2 DEF Kernel
  <2>4. Source(p) = IF sourceIsB THEN "b" ELSE "a"
    BY <1>2, <1>3, <2>2 DEF Source, Buffer
  <2>5. Target(p) = IF sourceIsB THEN "a" ELSE "b"
    BY <1>2, <1>3, <2>2 DEF Target, Buffer
  <2> QED
    BY <1>3, <2>1, <2>3, <2>4, <2>5 DEF CommandAt
<1>10. stream' = Append(stream, CommandAt(sample, Pending))
  BY <1>2, <1>3, <1>6, <1>9
<1>11. /\ stream' \in Seq(Command) /\ stream' # <<>> /\ done' \in 0 .. Len(stream')
       /\ StreamKnown' /\ ContentKnown'
  BY <1>1, <1>2, <1>6, <1>8, <1>10, RecordedNext
<1>12. Typed'
  BY SMTT(60), <1>1, <1>2, <1>3, <1>4, <1>6, <1>7, <1>11 DEF IInv, Typed, TypeOK, All
<1>13. CompileInv'
  BY <1>1, <1>2, <1>6, CompilationIsOver DEF Compiled, Compiling, Scheduling
<1>14. effect' \in 1 .. Len(Effects)' + 1 /\ (sourceIsB' <=> effect' % 2 = 1)
  <2>1. e + 1 \in 1 .. n + 1 /\ ((e + 1) % 2 = 1 <=> e % 2 # 1)
    BY <1>4
  <2>2. sourceIsB' <=> ~(e % 2 = 1)
    BY <1>2, <1>3, <1>6
  <2> QED
    BY <1>3, <1>6, <1>7, <2>1, <2>2
<1>15. CallKnown'
  BY <1>1, <1>2, <1>6, <1>7, <1>11, <1>14 DEF CallKnown, Scheduling, Compiling, Encoding
<1> QED
  BY <1>11, <1>12, <1>13, <1>15 DEF IInv, EncodeInv

LEMMA EncodeWidthStep == IInv /\ EncodeWidth => IInv'
<1> SUFFICES ASSUME IInv, EncodeWidth PROVE IInv'
  OBVIOUS
<1>1. /\ UNCHANGED <<plans, workers, current, scheduled, tasks, next, item, slots,
                     call, effect, sourceIsB, done, content>>
      /\ pc[Caller] = "effects" /\ pc' = [pc EXCEPT ![Caller] = "sample"]
      /\ effect > Len(Effects) /\ sample' = sample + 1
      /\ stream' = Append(stream, [sample |-> sample, place |-> effect + 2, kernel |-> "width",
                                   source |-> Output(FALSE), target |-> Output(FALSE)])
  BY DEF EncodeWidth, At, Goto, Record, compiling, device
<1>2. /\ CallKnown /\ sample \in Nat /\ call.samples \in Nat /\ call.description \in Descriptions
      /\ Encoding /\ MotionIsValid /\ Pending = effect + 2 /\ Compiled /\ ~call.baseOnly
      /\ IsEncoded(sample) /\ sample < call.samples /\ stream # <<>>
      /\ effect \in 1 .. Len(Effects) + 1
      /\ pc \in [All -> Places \cup {"idle", "done"}]
  BY SMTT(60), <1>1 DEF IInv, EncodeInv, Typed, TypeOK, CallKnown, Encoding, Pending, Compiled, Compiling,
     Scheduling, All
<1>3. PICK n : n = Len(Effects)
  OBVIOUS
<1>4. n \in Nat /\ effect = n + 1
  BY <1>1, <1>2, <1>3, PlaceFacts
<1>5. /\ pc'[Caller] = "sample" /\ \A l \in Lanes : pc'[l] = pc[l]
      /\ pc' \in [All -> Places \cup {"idle", "done"}]
  BY <1>1, <1>2 DEF All, Lanes, Caller, Places
<1>6. /\ MotionIsValid' = MotionIsValid /\ SizesFit' = SizesFit /\ Samples' = Samples
      /\ Descriptions' = Descriptions
  BY <1>1, CommandsStay
<1>7. Last = n + 3 /\ Pending = n + 3 /\ Pending \in 1 .. Last /\ Pending' = 1
  BY <1>2, <1>3, <1>4, <1>5, PlaceFacts DEF Pending
<1>8. CommandAt(sample, n + 3) = [sample |-> sample, place |-> effect + 2, kernel |-> "width",
                                  source |-> Output(FALSE), target |-> Output(FALSE)]
  <2>1. PICK p : p = n + 3
    OBVIOUS
  <2>2. /\ p # 1 /\ p = effect + 2 /\ ((p - 1) % 2 = 1 <=> n % 2 # 0)
    BY <1>4, <2>1
  <2>3. Kernel(p) = "width"
    BY <1>2, <1>3, <2>1, PlaceFacts
  <2>4. Buffer(p - 1) = Output(FALSE)
    BY <1>3, <2>2 DEF Buffer, Output, OutputIsPointsA
  <2>5. Source(p) = Output(FALSE) /\ Target(p) = Output(FALSE)
    BY <1>3, <2>1, <2>2, <2>4 DEF Source, Target
  <2> QED
    BY <2>1, <2>2, <2>3, <2>5 DEF CommandAt
<1>9. stream' = Append(stream, CommandAt(sample, Pending))
  BY <1>1, <1>7, <1>8
<1>10. /\ stream' \in Seq(Command) /\ stream' # <<>> /\ done' \in 0 .. Len(stream')
       /\ StreamKnown' /\ ContentKnown'
  BY <1>1, <1>2, <1>5, <1>7, <1>9, RecordedNext
<1>11. Typed'
  <2>1. sample' \in 0 .. call.samples'
    BY <1>1, <1>2
  <2>2. TypeOK'
    BY <1>1, <1>5, <1>6, <1>10, <2>1 DEF IInv, Typed, TypeOK, All
  <2> QED
    BY <1>1, <1>10, <2>2 DEF IInv, Typed
<1>12. CompileInv'
  BY <1>1, <1>2, <1>5, CompilationIsOver DEF Compiled, Compiling, Scheduling
<1>13. CallKnown'
  BY <1>1, <1>2, <1>5, <1>6, <1>10 DEF CallKnown, Scheduling, Compiling, Encoding
<1> QED
  BY <1>10, <1>11, <1>12, <1>13 DEF IInv, EncodeInv

LEMMA EndMotionStep == IInv /\ EndMotion => IInv'
<1> SUFFICES ASSUME IInv, EndMotion PROVE IInv'
  OBVIOUS
<1>1. /\ UNCHANGED <<plans, workers, current, scheduled, tasks, next, item, slots,
                     call, effect, sample, sourceIsB, stream, done, content>>
      /\ pc[Caller] = "sample" /\ pc' = [pc EXCEPT ![Caller] = "returned"]
      /\ sample >= call.samples
  BY DEF EndMotion, At, Goto, compiling, encoding, device
<1>2. /\ CallKnown /\ StreamKnown /\ ContentKnown /\ sample \in 0 .. call.samples
      /\ call.samples \in Nat /\ Encoding /\ MotionIsValid /\ Pending = 1 /\ Compiled
      /\ pc \in [All -> Places \cup {"idle", "done"}]
  BY <1>1 DEF IInv, EncodeInv, Typed, TypeOK, CallKnown, Encoding, Pending, Compiled, Compiling,
     Scheduling, All
<1>3. /\ pc'[Caller] = "returned" /\ \A l \in Lanes : pc'[l] = pc[l]
      /\ pc' \in [All -> Places \cup {"idle", "done"}]
  BY <1>1, <1>2 DEF All, Lanes, Caller, Places
<1>4. /\ MotionIsValid' = MotionIsValid /\ SizesFit' = SizesFit /\ Samples' = Samples
      /\ Descriptions' = Descriptions /\ Last' = Last
      /\ \A s : IsEncoded(s)' = IsEncoded(s)
      /\ \A s, p : CommandAt(s, p)' = CommandAt(s, p)
      /\ \A p : Kernel(p)' = Kernel(p)
  BY <1>1, CommandsStay
<1>5. sample = call.samples
  BY <1>1, <1>2
<1>6. Typed'
  BY <1>1, <1>2, <1>3, <1>4 DEF IInv, Typed, TypeOK, All
<1>7. CompileInv'
  BY <1>1, <1>2, <1>3, CompilationIsOver DEF Compiled, Compiling, Scheduling
<1>8. CallKnown'
  BY <1>1, <1>2, <1>3, <1>4, <1>5 DEF CallKnown, Scheduling, Compiling, Encoding
<1>9. StreamKnown'
  <2>1. Pending' = 1 /\ sample' = sample /\ stream' = stream /\ sample' = call.samples'
    BY <1>1, <1>3, <1>5 DEF Pending
  <2>2. WellFormed(stream) /\ InOrder(stream) /\ Before(stream, sample, 1) /\ CompleteBefore(stream, sample)
    BY <1>2 DEF StreamKnown
  <2> QED
    BY <1>1, <2>1, <2>2, <1>5, RecordedStream
<1>10. ContentKnown'
  BY <1>1, <1>2, <1>4 DEF ContentKnown, Encoding, Through
<1> QED
  BY <1>6, <1>7, <1>8, <1>9, <1>10 DEF IInv, EncodeInv


\* What the last executed command of a sample leaves for the next one.
LEMMA PointsOfCommand ==
  ASSUME IInv, done < Len(stream),
         NEW s \in Samples, NEW p \in 1 .. Last, stream[done + 1] = CommandAt(s, p),
         p > 1 => /\ done > 0
                  /\ stream[done].sample = s /\ stream[done].place = p - 1
  PROVE  LET points == IF Source(p) = "none" THEN <<>> ELSE content[s][Source(p)]
         IN points \in Seq(Names) /\ Through(points, p - 1)
<1>1. /\ CallKnown /\ StreamKnown /\ ContentKnown /\ stream \in Seq(Command)
      /\ done \in Nat /\ Len(stream) \in Nat /\ done \in 0 .. Len(stream)
  BY LenProperties DEF IInv, EncodeInv, Typed, TypeOK
<1>2. stream # <<>>
  BY <1>1, EmptySeq
<1>3. /\ call.description \in Descriptions
      /\ content \in [Samples -> [Buffers -> Seq(Names)]]
  BY <1>1, <1>2 DEF CallKnown, ContentKnown, Names
<1>4. p \in Nat /\ p \in 1 .. Len(Effects) + 3 /\ Len(Effects) \in Nat
  <2>1. Last = 1 \/ Last = Len(Effects) + 3
    BY DEF Last
  <2> QED
    BY <1>3, <2>1, PlaceFacts
<1>5. CASE p = 1
  <2>1. Source(p) = "none" /\ p - 1 = 0
    BY <1>3, <1>5, PlaceFacts
  <2>2. <<>> \in Seq(Names) /\ Len(<<>>) = 0
    OBVIOUS
  <2> QED
    BY <2>1, <2>2 DEF Through
<1>6. CASE p > 1
  <2>1. PICK t \in Samples, q \in 1 .. Last : stream[done] = CommandAt(t, q)
    BY <1>1, <1>6 DEF StreamKnown, WellFormed
  <2>2. t = s /\ q = p - 1 /\ stream[done].target = Target(q)
    BY <1>6, <2>1 DEF CommandAt
  <2>3. Source(p) = Target(p - 1) /\ Target(p - 1) \in Buffers
    <3>1. p \in 2 .. Len(Effects) + 3 /\ p - 1 \in 1 .. Len(Effects) + 3
      BY <1>4, <1>6
    <3> QED
      BY <1>3, <3>1, PlaceFacts
  <2>4. Source(p) # "none"
    BY <2>3 DEF Buffers
  <2>5. Through(content[s][Source(p)], p - 1)
    <3>1. done \in 1 .. done
      BY <1>1, <1>6
    <3>2. Through(content[stream[done].sample][stream[done].target], stream[done].place)
      BY <1>1, <3>1 DEF ContentKnown
    <3> QED
      BY <1>6, <2>2, <2>3, <3>2
  <2>6. content[s][Source(p)] \in Seq(Names)
    BY <1>3, <2>3
  <2> QED
    BY <2>4, <2>5, <2>6
<1> QED
  BY <1>4, <1>5, <1>6

LEMMA ExecuteStep == IInv /\ Execute => IInv'
<1> SUFFICES ASSUME IInv, Execute PROVE IInv'
  OBVIOUS
<1>1. /\ UNCHANGED <<plans, workers, pc, current, scheduled, tasks, next, item, slots,
                     call, effect, sample, sourceIsB, stream>>
      /\ done < Len(stream) /\ done' = done + 1
  BY DEF Execute, compiling, encoding
<1>2. /\ CallKnown /\ StreamKnown /\ ContentKnown /\ stream \in Seq(Command)
      /\ done \in Nat /\ Len(stream) \in Nat /\ done' \in 0 .. Len(stream)
  BY <1>1, LenProperties DEF IInv, EncodeInv, Typed, TypeOK
<1>3. stream # <<>>
  BY <1>1, <1>2, EmptySeq
<1>4. /\ call.description \in Descriptions /\ MotionIsValid
      /\ content \in [Samples -> [Buffers -> Seq(Names)]]
      /\ pc[Caller] \in {"sample", "primitive", "effects", "threw", "returned"} \/ ~(pc[Caller] \in Places)
  BY <1>2, <1>3 DEF CallKnown, ContentKnown, Names
<1>5. Compiled
  BY <1>2, <1>3 DEF CallKnown, Compiled, Scheduling, Compiling
<1>6. /\ MotionIsValid' = MotionIsValid /\ SizesFit' = SizesFit /\ Samples' = Samples
      /\ Descriptions' = Descriptions /\ Last' = Last
      /\ \A s : IsEncoded(s)' = IsEncoded(s)
      /\ \A s, p : CommandAt(s, p)' = CommandAt(s, p)
      /\ \A p : Kernel(p)' = Kernel(p)
  BY <1>1, CommandsStay
<1>7. PICK k : k = done + 1
  OBVIOUS
<1>8. k \in Nat /\ k \in 1 .. Len(stream) /\ k - 1 = done
  BY <1>1, <1>2, <1>7
<1>9. PICK s \in Samples : \E p \in 1 .. Last :
        /\ IsEncoded(s)
        /\ stream[k] = CommandAt(s, p)
        /\ p > 1 => k > 1 /\ stream[k - 1].sample = s /\ stream[k - 1].place = p - 1
  BY <1>2, <1>8 DEF StreamKnown, WellFormed
<1>10. PICK p \in 1 .. Last :
        /\ stream[k] = CommandAt(s, p)
        /\ p > 1 => k > 1 /\ stream[k - 1].sample = s /\ stream[k - 1].place = p - 1
  BY <1>9
<1>11. PICK points : points = IF Source(p) = "none" THEN <<>> ELSE content[s][Source(p)]
  OBVIOUS
<1>12. points \in Seq(Names) /\ Through(points, p - 1)
  BY <1>1, <1>2, <1>7, <1>8, <1>10, <1>11, PointsOfCommand
<1>13. p \in Nat /\ Last \in Nat /\ Kernel(p) \in Names /\ Target(p) \in Buffers
  <2>1. Last = 1 \/ Last = Len(Effects) + 3
    BY DEF Last
  <2> QED
    BY <1>4, <2>1, PlaceFacts
<1>14. content' = [content EXCEPT ![s][Target(p)] = Append(points, Kernel(p))]
  BY <1>7, <1>10, <1>11 DEF Execute, CommandAt
<1>15. Append(points, Kernel(p)) \in Seq(Names) /\ Through(Append(points, Kernel(p)), p)
  <2>1. PICK q : q = Append(points, Kernel(p))
    OBVIOUS
  <2>2. /\ q \in Seq(Names) /\ Len(q) = p
        /\ \A i \in 1 .. p - 1 : q[i] = points[i]
        /\ q[p] = Kernel(p)
    BY <1>12, <1>13, <2>1 DEF Through
  <2>3. \A i \in 1 .. p : i = p \/ i \in 1 .. p - 1
    BY <1>13
  <2>4. \A i \in 1 .. p - 1 : points[i] = Kernel(i)
    BY <1>12 DEF Through
  <2> QED
    BY <2>1, <2>2, <2>3, <2>4 DEF Through
<1>16. /\ content' \in [Samples -> [Buffers -> Seq(Names)]]
       /\ content'[s][Target(p)] = Append(points, Kernel(p))
       /\ \A t \in Samples \ {s} : content'[t] = content[t]
  BY <1>4, <1>13, <1>14, <1>15
<1>17. ContentKnown'
  <2>1. ASSUME NEW j \in 1 .. done', j = done' \/ stream[j].place = Last
        PROVE  Through(content'[stream[j].sample][stream[j].target], stream[j].place)
    <3>1. CASE j = k
      <4>1. stream[j].sample = s /\ stream[j].place = p /\ stream[j].target = Target(p)
        BY <1>10, <3>1 DEF CommandAt
      <4> QED
        BY <1>15, <1>16, <4>1
    <3>2. CASE j # k
      <4>1. j \in 1 .. done /\ j \in 1 .. Len(stream) /\ j < k /\ stream[j].place = Last
        BY <1>1, <1>2, <1>7, <2>1, <3>2
      <4>2. PICK t \in Samples : \E q \in 1 .. Last : stream[j] = CommandAt(t, q)
        BY <1>2, <4>1 DEF StreamKnown, WellFormed
      <4>3. stream[j].sample = t /\ stream[k].sample = s /\ stream[k].place = p
        BY <1>10, <4>2 DEF CommandAt
      <4>4. \/ t < s
            \/ t = s /\ Last < p
        BY <1>2, <1>8, <4>1, <4>3 DEF StreamKnown, InOrder
      <4>5. s \in Int /\ t \in Int
        BY DEF Samples
      <4>6. t # s
        BY <1>10, <1>13, <4>4, <4>5
      <4>7. Through(content[stream[j].sample][stream[j].target], stream[j].place)
        BY <1>2, <4>1 DEF ContentKnown
      <4> QED
        BY <1>16, <4>3, <4>6, <4>7
    <3> QED
      BY <3>1, <3>2
  <2>2. Encoding' => Encoding
    BY <1>1 DEF Encoding
  <2>3. \A j \in 1 .. done' : j = done' \/ stream[j].place = Last =>
          Through(content'[stream[j].sample][stream[j].target], stream[j].place)
    BY <2>1
  <2>4. \A j \in 1 .. done' : j = done' \/ stream'[j].place = Last' =>
          Through(content[stream[j].sample][stream[j].target], stream[j].place)'
    BY <1>1, <1>6, <2>3 DEF Through
  <2> QED
    BY <1>6, <1>16, <2>4 DEF ContentKnown, Names
<1>18. Typed'
  BY <1>1, <1>2, <1>6 DEF IInv, Typed, TypeOK, All
<1>19. CompileInv'
  BY <1>1, <1>5, CompilationIsOver DEF Compiled, Compiling, Scheduling
<1>20. CallKnown'
  BY <1>1, <1>2, <1>6 DEF CallKnown, Scheduling, Compiling, Encoding, Effects, IsEncoded
<1>21. StreamKnown'
  <2>1. WellFormed(stream)'
    BY <1>1, <1>2, <1>6 DEF StreamKnown, WellFormed
  <2>2. InOrder(stream)'
    BY <1>1, <1>2 DEF StreamKnown, InOrder
  <2>3. Pending' = Pending /\ Encoding' = Encoding
    BY <1>1 DEF Pending, Encoding
  <2>4. Encoding => Before(stream, sample, Pending)'
    BY <1>1, <1>2, <2>3 DEF StreamKnown, Before
  <2>5. Encoding => CompleteBefore(stream, sample)'
    BY <1>1, <1>2, <1>6 DEF StreamKnown, CompleteBefore
  <2> QED
    BY <1>1, <1>2, <2>1, <2>2, <2>3, <2>4, <2>5 DEF StreamKnown
<1> QED
  BY <1>17, <1>18, <1>19, <1>20, <1>21 DEF IInv, EncodeInv


LEMMA StutterStep == IInv /\ UNCHANGED vars => IInv'
<1> SUFFICES ASSUME IInv, UNCHANGED vars PROVE IInv'
  OBVIOUS
<1>1. UNCHANGED <<plans, workers, pc, current, scheduled, tasks, next, item, slots, effect,
                  call, sample, sourceIsB, stream, done, content>>
  BY DEF vars, compiling, encoding, device
<1>2. Typed'
  BY <1>1 DEF IInv, Typed, TypeOK, Descriptions
<1>3. TasksKnown'
  <2>1. Descriptions' = Descriptions /\ \A d : KernelsOf(d)' = KernelsOf(d)
    BY <1>1 DEF Descriptions, KernelsOf
  <2>2. \A d : TaskedOf(d)' = TaskedOf(d)
    BY <1>1, <2>1 DEF TaskedOf
  <2>3. Scheduling' = Scheduling /\ Compiling' = Compiling /\ Compiled' = Compiled
    BY <1>1 DEF Scheduling, Compiling, Compiled
  <2>4. EveryTaskHasItsSlot'
    BY <1>1 DEF IInv, CompileInv, TasksKnown, EveryTaskHasItsSlot
  <2> QED
    BY <1>1, <2>1, <2>2, <2>3, <2>4 DEF IInv, CompileInv, TasksKnown, At
<1>4. TasksClaimed'
  BY <1>1 DEF IInv, CompileInv, TasksClaimed, Scheduling, Compiling, Compiled, At
<1>5. CallKnown'
  BY <1>1 DEF IInv, EncodeInv, CallKnown, Scheduling, Compiling, Encoding, Effects, IsEncoded,
     MotionIsValid, SizesFit, PlacementsIncrease, SourcesResolve, Samples, Descriptions
<1>6. StreamKnown'
  BY <1>1 DEF IInv, EncodeInv, StreamKnown, WellFormed, InOrder, Before, CompleteBefore, Encoding,
     IsEncoded, Samples, Last, Effects, CommandAt, Kernel, Source, Target, Pending
<1>7. ContentKnown'
  BY <1>1 DEF IInv, EncodeInv, ContentKnown, Through, Encoding, Samples, Last, Effects, Kernel
<1> QED
  BY <1>2, <1>3, <1>4, <1>5, <1>6, <1>7 DEF IInv, CompileInv, EncodeInv

LEMMA NextIInv == IInv /\ [Next]_vars => IInv'
<1> SUFFICES ASSUME IInv, [Next]_vars PROVE IInv'
  OBVIOUS
<1>1. CASE Validate
  BY <1>1, ValidateStep
<1>2. CASE Schedule
  BY <1>2, ScheduleDescriptionStep, ScheduleEffectStep, EndDescriptionStep, StartTasksStep
  DEF Schedule
<1>3. CASE EndTasks
  BY <1>3, EndTasksStep
<1>4. CASE CallEncodeMotion
  BY <1>4, CallEncodeMotionStep
<1>5. CASE EncodeMotion
  BY <1>5, CheckMotionStep, SkipSampleStep, EncodeBaseStep, EncodePrimitiveStep, EncodeEffectStep,
     EncodeWidthStep, EndMotionStep DEF EncodeMotion
<1>6. CASE Execute
  BY <1>6, ExecuteStep
<1>7. ASSUME NEW l \in All, CompileTask(l) PROVE IInv'
  BY <1>7, ClaimStep, CompileStep, CompileFailsStep DEF CompileTask
<1>8. CASE Finished \/ UNCHANGED vars
  BY <1>8, StutterStep DEF Finished
<1> QED
  BY <1>1, <1>2, <1>3, <1>4, <1>5, <1>6, <1>7, <1>8 DEF Next, All

\* In every state of the compilation, of the encoding and of the execution of
\* the stream the inductive invariant holds: for any collection, any number of
\* workers, any motion table.
THEOREM InductiveInvariant == Spec => []IInv
<1>1. Init => IInv
  BY InitIInv
<1>2. IInv /\ [Next]_vars => IInv'
  BY NextIInv
<1> QED
  BY <1>1, <1>2, PTL DEF Spec

\* Every variable has its type: no task or command names a kernel or a
\* description that is not there, and the sample stays within the table.
THEOREM TypeCorrect == Spec => []TypeOK
<1>1. IInv => TypeOK
  BY DEF IInv, Typed
<1> QED
  BY <1>1, InductiveInvariant, PTL

\* No two tasks of the compilation write one shader_slot (launch() and its
\* scheduled_ flags).
THEOREM TasksHaveTheirSlots == Spec => []EveryTaskHasItsSlot
<1>1. IInv => EveryTaskHasItsSlot
  BY DEF IInv, CompileInv, TasksKnown
<1> QED
  BY <1>1, InductiveInvariant, PTL

\* A pipeline that is handed out has a shader for every kernel of every
\* description, and encode() never finds one missing.
THEOREM PipelinesAreComplete == Spec => []PipelineIsComplete
<1>1. IInv => PipelineIsComplete
  <2> SUFFICES ASSUME IInv PROVE PipelineIsComplete
    OBVIOUS
  <2>1. pc[Caller] # "missing"
    BY DEF IInv, EncodeInv, CallKnown
  <2>2. pc[Caller] \notin {"validate", "schedule", "wait", "claim", "compile", "refused"} => Compiled
    BY DEF Compiled, Compiling, Scheduling
  <2> QED
    BY <2>1, <2>2, CompleteFacts DEF PipelineIsComplete
<1> QED
  BY <1>1, InductiveInvariant, PTL

\* Placements that increase from each sample to the next are in order.
LEMMA PlacementsInOrder ==
  ASSUME NEW m \in Nat, NEW f, \A i \in 0 .. m - 1 : f[i] \in Int,
         \A i \in (0 .. m - 1) \ {0} : f[i] > f[i - 1]
  PROVE  \A i, j \in 0 .. m - 1 : i < j => f[i] < f[j]
<1> SUFFICES ASSUME NEW i \in 0 .. m - 1 PROVE \A j \in 0 .. m - 1 : i < j => f[i] < f[j]
  OBVIOUS
<1> DEFINE T == {j \in 0 .. m - 1 : i < j /\ ~(f[i] < f[j])}
<1>1. CASE T = {}
  BY <1>1
<1>2. CASE T # {}
  <2>1. PICK x \in T : \A y \in T : x <= y
    <3>1. T \in SUBSET Nat
      OBVIOUS
    <3> HIDE DEF T
    <3> QED
      BY <1>2, <3>1, LeastNatural
  <2>2. /\ x \in (0 .. m - 1) \ {0} /\ x - 1 \in 0 .. m - 1 /\ x - 1 < x
        /\ i < x /\ ~(f[i] < f[x])
        /\ f[i] \in Int /\ f[x] \in Int /\ f[x - 1] \in Int /\ f[x - 1] < f[x]
    BY <2>1
  <2>3. CASE x - 1 = i
    BY <2>2, <2>3
  <2>4. CASE x - 1 # i
    <3>1. x - 1 \notin T
      BY <2>1, <2>2
    <3>2. f[i] < f[x - 1]
      BY <2>2, <2>4, <3>1
    <3> QED
      BY <2>2, <3>2
  <2> QED
    BY <2>3, <2>4
<1> QED
  BY <1>1, <1>2

\* Nothing is on the stream unless encode_motion() was given a good motion
\* table: finite placements in strict order, sources that are their own.
THEOREM RecordsGoodMotion == Spec => []OnlyGoodMotionIsRecorded
<1>1. IInv => OnlyGoodMotionIsRecorded
  <2> SUFFICES ASSUME IInv, stream # <<>> PROVE OnlyGoodMotionIsRecorded
    BY DEF OnlyGoodMotionIsRecorded
  <2>1. /\ MotionIsValid /\ call.strands > 0 /\ call.consistent[0]
        /\ call.placements \in [Samples -> Placements \cup {NotFinite}]
    BY DEF IInv, EncodeInv, CallKnown, MotionIsValid
  <2>2. /\ call.samples \in Nat /\ call.samples > 0 /\ Samples = 0 .. call.samples - 1
        /\ \A i \in Samples : call.sources[i] \in Samples /\ call.sources[i] <= i
                              /\ IsEncoded(call.sources[i])
        /\ DOMAIN call.sources = Samples
    BY <2>1, MotionFacts
  <2>3. \A i \in Samples : call.placements[i] \in Int
    BY <2>1, ClassicCollectionAssumption DEF MotionIsValid, PlacementsIncrease
  <2>4. \A i, j \in Samples : i < j =>
          NotFinite \notin {call.placements[i], call.placements[j]}
          /\ call.placements[i] < call.placements[j]
    <3>1. PICK m, f : m = call.samples /\ f = call.placements
      OBVIOUS
    <3>2. /\ m \in Nat /\ Samples = 0 .. m - 1
          /\ \A i \in 0 .. m - 1 : f[i] \in Int /\ f[i] # NotFinite
      BY <2>1, <2>2, <2>3, <3>1, ClassicCollectionAssumption DEF MotionIsValid, PlacementsIncrease
    <3>3. \A i \in (0 .. m - 1) \ {0} : f[i] > f[i - 1]
      BY <2>1, <3>1, <3>2 DEF MotionIsValid, PlacementsIncrease
    <3>4. \A i, j \in 0 .. m - 1 : i < j => f[i] < f[j]
      BY <3>2, <3>3, PlacementsInOrder
    <3> QED
      BY <3>1, <3>2, <3>4
  <2>5. \A i \in Samples : \E j \in OwnSamples(call.sources) : call.sources[i] = j /\ j <= i
    BY <2>2 DEF OwnSamples, IsEncoded
  <2> QED
    BY <2>1, <2>4, <2>5 DEF OnlyGoodMotionIsRecorded
<1> QED
  BY <1>1, InductiveInvariant, PTL

\* The buffer of the last command is the one output_is_points_a() names.
LEMMA OutputFacts ==
  ASSUME IInv, call.description \in Descriptions
  PROVE  Target(Last) = Output(call.baseOnly)
<1>1. PICK n \in Nat : n = Len(Effects)
  BY PlaceFacts
<1>2. CASE call.baseOnly
  <2>1. Last = 1
    BY <1>2 DEF Last
  <2> QED
    BY <1>2, <2>1, PlaceFacts DEF Output, OutputIsPointsA
<1>3. CASE ~call.baseOnly
  <2>1. PICK p : p = n + 3
    OBVIOUS
  <2>2. (p - 1) % 2 = 1 <=> n % 2 # 0
    BY <1>1, <2>1
  <2>3. Last = p /\ Target(p) = Buffer(p - 1)
    BY <1>1, <1>3, <2>1 DEF Last, Target
  <2> QED
    BY <1>1, <1>3, <2>2, <2>3 DEF Buffer, Output, OutputIsPointsA
<1> QED
  BY <1>2, <1>3

\* Points that went through the whole chain.
LEMMA WantedFacts ==
  ASSUME IInv, call.description \in Descriptions, NEW points \in Seq(Names), Through(points, Last)
  PROVE  points = Wanted
<1>1. PICK n \in Nat : n = Len(Effects)
  BY PlaceFacts
<1>2. CASE call.baseOnly
  <2>1. Last = 1 /\ Kernel(1) = "base" /\ 1 \in 1 .. 1
    BY <1>2, PlaceFacts DEF Last
  <2>2. Len(points) = 1 /\ points[1] = "base"
    BY <2>1 DEF Through
  <2>3. points = <<"base">>
    BY <2>2
  <2> QED
    BY <1>2, <2>3 DEF Wanted
<1>3. CASE ~call.baseOnly
  <2>1. PICK e : e = Effects
    OBVIOUS
  <2>2. /\ e \in Seq(Modules) /\ n = Len(e) /\ Last = n + 3
        /\ Kernel(1) = "base" /\ Kernel(2) = "primitive" /\ Kernel(n + 3) = "width"
    BY <1>1, <1>3, <2>1, PlaceFacts
  <2>3. e \in Seq(Names)
    BY <2>2 DEF Names
  <2>4. PICK w : w = Wanted
    OBVIOUS
  <2>5. w = (<<"base", "primitive">> \o e) \o <<"width">>
    BY <1>3, <2>1, <2>4 DEF Wanted, Chain, Effects
  <2>6. PICK front : front = <<"base", "primitive">> \o e
    OBVIOUS
  <2>7. <<"base", "primitive">> \in Seq(Names) /\ <<"width">> \in Seq(Names)
    BY DEF Names, Common
  <2>8. /\ front \in Seq(Names) /\ Len(front) = n + 2
        /\ front[1] = "base" /\ front[2] = "primitive"
        /\ \A i \in 3 .. n + 2 : front[i] = e[i - 2]
    BY <2>2, <2>3, <2>6, <2>7
  <2>9. /\ w \in Seq(Names) /\ Len(w) = n + 3
        /\ \A i \in 1 .. n + 2 : w[i] = front[i]
        /\ w[n + 3] = "width"
    BY <2>5, <2>6, <2>7, <2>8
  <2>10. ASSUME NEW i \in 1 .. n + 3 PROVE w[i] = Kernel(i)
    <3>1. CASE i = 1 \/ i = 2
      BY <2>2, <2>8, <2>9, <3>1
    <3>2. CASE i = n + 3
      BY <2>2, <2>9, <3>2
    <3>3. CASE i \in 3 .. n + 2
      <4>1. i \in 1 .. n + 2 /\ i # 1 /\ i # 2 /\ i < n + 3
        BY <3>3
      <4>2. w[i] = e[i - 2]
        BY <2>8, <2>9, <3>3, <4>1
      <4> QED
        BY <1>1, <2>1, <4>1, <4>2 DEF Kernel
    <3> QED
      BY <3>1, <3>2, <3>3
  <2>11. Len(points) = n + 3 /\ \A i \in 1 .. n + 3 : points[i] = Kernel(i)
    BY <2>2 DEF Through
  <2>12. points = w
    <3>1. \A i \in 1 .. Len(points) : points[i] = w[i]
      BY <2>10, <2>11
    <3> QED
      BY <2>9, <2>11, <3>1, SeqEqual
  <2> QED
    BY <2>4, <2>12
<1> QED
  BY <1>2, <1>3

\* When encode_motion() has returned and the device has executed the stream,
\* every sample has the points of its whole chain of kernels, once each and in
\* order, in the buffer output_is_points_a() names.
THEOREM SamplesHaveCurves == Spec => []EverySampleHasCurves
<1>1. IInv => EverySampleHasCurves
  <2> SUFFICES ASSUME IInv, pc[Caller] = "returned", done = Len(stream), NEW s \in Samples
               PROVE  content[call.sources[s]][Output(call.baseOnly)] = Wanted
    BY DEF EverySampleHasCurves
  <2>1. /\ CallKnown /\ StreamKnown /\ ContentKnown /\ Encoding /\ stream \in Seq(Command)
        /\ done \in Nat
    BY LenProperties DEF IInv, EncodeInv, Typed, TypeOK, Encoding
  <2>2. MotionIsValid /\ sample = call.samples /\ CompleteBefore(stream, sample)
    BY <2>1 DEF CallKnown, StreamKnown
  <2>3. PICK t \in Samples : t = call.sources[s] /\ IsEncoded(t)
    BY <2>2, MotionFacts
  <2>4. PICK j \in 1 .. Len(stream) : stream[j].sample = t /\ stream[j].place = Last
    BY <2>2, <2>3 DEF CompleteBefore, Samples
  <2>5. stream # <<>> /\ j \in 1 .. done
    BY <2>1, <2>4, EmptySeq
  <2>6. /\ call.description \in Descriptions
        /\ content \in [Samples -> [Buffers -> Seq(Names)]]
    BY <2>1, <2>5 DEF CallKnown, ContentKnown, Names
  <2>7. PICK u \in Samples, q \in 1 .. Last : stream[j] = CommandAt(u, q)
    BY <2>1, <2>4 DEF StreamKnown, WellFormed
  <2>8. stream[j].target = Output(call.baseOnly)
    BY <2>4, <2>6, <2>7, OutputFacts DEF CommandAt
  <2>9. Through(content[t][Output(call.baseOnly)], Last)
    BY <2>1, <2>4, <2>5, <2>8 DEF ContentKnown
  <2>10. content[t][Output(call.baseOnly)] \in Seq(Names)
    BY <2>6 DEF Output, Buffers
  <2> QED
    BY <2>3, <2>6, <2>9, <2>10, WantedFacts
<1> QED
  BY <1>1, InductiveInvariant, PTL

=============================================================================
