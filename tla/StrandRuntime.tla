--------------------------- MODULE StrandRuntime ---------------------------
(***************************************************************************)
(* apply_xgen_classic_float_runtime_plan_cpu() of                           *)
(* src/xgen_classic_runtime.cpp, from the point where its arguments are     *)
(* found to be consistent: the strands of one description are rewritten in  *)
(* place by the tasks of one parallel_for(), which claim them in chunks    *)
(* from a 32-bit atomic counter, and the strands that were culled are       *)
(* then squeezed out in order.                                              *)
(*                                                                          *)
(* What the plan's expressions do to a strand is abstracted to one of three *)
(* outcomes.  The executor is the one ParallelFor describes: every task is   *)
(* run once, in any order, at once or one after another, the call ends      *)
(* after all of them and rethrows if one of them threw.                     *)
(***************************************************************************)
EXTENDS Integers, FiniteSets

CONSTANTS
  MaxStrands,      \* Bound: the largest strand count
  MaxCapacity,     \* Bound: the largest worker count of an executor
  ChunkSize,       \* chunk_size: 2048
  StrandsPerTask,  \* minimum_strands_per_task: 4096
  Modulus          \* 2^32: the counter and the strand indices are uint32

\* Nothing in the code says so, but it needs room for one claim of each task
\* beyond the last strand: with 2^32 strands less a few it would wrap.
ASSUME StrandRuntimeAssumption ==
  /\ MaxStrands \in Nat
  /\ MaxCapacity \in Nat \ {0}
  /\ ChunkSize \in Nat \ {0}
  /\ StrandsPerTask \in Nat \ {0}
  /\ Modulus \in Nat
  /\ MaxStrands + MaxCapacity * ChunkSize <= Modulus

VARIABLES
  count,     \* curves.strand_count of the call
  capacity,  \* worker_count() of the context, or of the machine
  outcome,   \* [Strands -> what the plan makes of the strand]
  counter,   \* next_strand
  pc,        \* [Lanes \cup {Caller} -> place]
  at,        \* [Lanes \cup {Caller} -> the strand it is at]
  stop,      \* [Lanes \cup {Caller} -> the end of its range]
  applied,   \* [Strands -> how often it has been rewritten: 0, 1 or more]
  keep,      \* [Strands -> keep]
  read,      \* the strand the compaction is at
  write,     \* write
  slots      \* [Strands -> the strand stored there], the compacted arrays

vars == <<count, capacity, outcome, counter, pc, at, stop, applied, keep,
          read, write, slots>>

input   == <<count, capacity, outcome>>
strands == <<applied, keep>>
packing == <<read, write, slots>>

Strands == 0 .. count - 1
Caller  == 0
Lanes   == 1 .. MaxCapacity

-----------------------------------------------------------------------------
(* Helpers *)

Least(m, n) == IF m <= n THEN m ELSE n
Greatest(m, n) == IF m >= n THEN m ELSE n

UsefulTasks == Greatest(1, (count + StrandsPerTask - 1) \div StrandsPerTask)
TaskCount == Least(capacity, UsefulTasks)
Tasks == 1 .. TaskCount
Parallel == TaskCount > 1

\* uint32 arithmetic
Wrap(n) == n % Modulus

\* std::min(begin + chunk_size, curves.strand_count)
RangeEnd(begin) == Least(Wrap(begin + ChunkSize), count)

At(l, place) == pc[l] = place
Goto(l, place) == pc' = [pc EXCEPT ![l] = place]

-----------------------------------------------------------------------------
Init ==
  /\ count \in 0 .. MaxStrands
  /\ capacity \in 1 .. MaxCapacity
  /\ outcome \in [Strands -> {"kept", "culled", "fails"}]
  /\ counter = 0
  /\ pc = [l \in Lanes \cup {Caller} |->
             IF l = Caller THEN IF Parallel THEN "wait" ELSE "apply"
             ELSE IF Parallel /\ l \in Tasks THEN "queued" ELSE "unused"]
  /\ at = [l \in Lanes \cup {Caller} |-> 0]
  /\ stop = [l \in Lanes \cup {Caller} |-> IF l = Caller /\ ~Parallel THEN count ELSE 0]
  /\ applied = [s \in Strands |-> 0]
  /\ keep = [s \in Strands |-> TRUE]
  /\ read = 0
  /\ write = 0
  /\ slots = [s \in Strands |-> s]

(* A task of the parallel_for() *)

\* The executor runs the task.
Begin(l) ==
  /\ At(l, "queued")
  /\ Goto(l, "claim")
  /\ UNCHANGED <<input, counter, at, stop, strands, packing>>

\* Mutations of Advance: the counter moves by one strand, and not at all.
AdvanceByOne(n) == Wrap(n + 1)
AdvanceNot(n) == n

Advance(n) == Wrap(n + ChunkSize)

\* next_strand.fetch_add(chunk_size): a chunk, or the end of the task.
Claim(l) ==
  /\ At(l, "claim")
  /\ counter' = Advance(counter)
  /\ IF counter < count
     THEN /\ at' = [at EXCEPT ![l] = counter]
          /\ stop' = [stop EXCEPT ![l] = RangeEnd(counter)]
          /\ Goto(l, "apply")
     ELSE Goto(l, "done") /\ UNCHANGED <<at, stop>>
  /\ UNCHANGED <<input, strands, packing>>

\* apply_range(): one strand is rewritten in place; it may be culled.
Apply(l) ==
  LET s == at[l]
  IN /\ At(l, "apply")
     /\ s < stop[l]
     /\ outcome[s] # "fails"
     /\ applied' = [applied EXCEPT ![s] = Least(@ + 1, 2)]
     /\ keep' = [keep EXCEPT ![s] = outcome[s] = "kept"]
     /\ at' = [at EXCEPT ![l] = s + 1]
     /\ UNCHANGED <<input, counter, pc, stop, packing>>

\* apply_range() throws with the strand half rewritten: the task ends.
Fail(l) ==
  LET s == at[l]
  IN /\ At(l, "apply")
     /\ s < stop[l]
     /\ outcome[s] = "fails"
     /\ applied' = [applied EXCEPT ![s] = Least(@ + 1, 2)]
     /\ Goto(l, "threw")
     /\ UNCHANGED <<input, counter, at, stop, keep, packing>>

\* apply_range() is through: the next claim, or, without tasks, the compaction.
EndRange(l) ==
  /\ At(l, "apply")
  /\ ~(at[l] < stop[l])
  /\ Goto(l, IF l = Caller THEN "compact" ELSE "claim")
  /\ UNCHANGED <<input, counter, at, stop, strands, packing>>

(* The caller *)

Ended == \A l \in Tasks : pc[l] \in {"done", "threw"}

\* Mutation of AfterTasks: no exception is looked at.
AfterTasksIgnoringErrors == "compact"

AfterTasks == IF \E l \in Tasks : At(l, "threw") THEN "threw" ELSE "compact"

\* parallel_for() returns or rethrows.
EndTasks ==
  /\ At(Caller, "wait")
  /\ Ended
  /\ Goto(Caller, AfterTasks)
  /\ UNCHANGED <<input, counter, at, stop, strands, packing>>

\* Mutation of MoveDown: the strand that is written is not the one read.
MoveWrittenDown == [slots EXCEPT ![write] = write]

MoveDown == [slots EXCEPT ![write] = slots[read]]

\* One strand of the compaction.
Compact ==
  /\ At(Caller, "compact")
  /\ read < count
  /\ read' = read + 1
  /\ IF keep[read]
     THEN /\ slots' = IF write # read THEN MoveDown ELSE slots
          /\ write' = write + 1
     ELSE UNCHANGED <<slots, write>>
  /\ UNCHANGED <<input, counter, pc, at, stop, strands>>

\* strand_count is now write.
Finish ==
  /\ At(Caller, "compact")
  /\ ~(read < count)
  /\ Goto(Caller, "returned")
  /\ UNCHANGED <<input, counter, at, stop, strands, packing>>

RangeStep(l) == Apply(l) \/ Fail(l) \/ EndRange(l)
LaneStep(l) == Begin(l) \/ Claim(l) \/ RangeStep(l)
CallerStep == RangeStep(Caller) \/ EndTasks \/ Compact \/ Finish

Terminated == pc[Caller] \in {"returned", "threw"} /\ UNCHANGED vars

Next == CallerStep \/ (\E l \in Lanes : LaneStep(l)) \/ Terminated

Spec == Init /\ [][Next]_vars

\* The executor runs every task it has accepted.
FairSpec == Spec /\ WF_vars(CallerStep) /\ \A l \in Lanes : WF_vars(LaneStep(l))

-----------------------------------------------------------------------------
(* Correctness *)

LanePlaces   == {"unused", "queued", "claim", "apply", "done", "threw"}
CallerPlaces == {"wait", "apply", "compact", "returned", "threw"}

\* Every variable keeps its type.
TypeOK ==
  /\ count \in 0 .. MaxStrands
  /\ capacity \in 1 .. MaxCapacity
  /\ outcome \in [Strands -> {"kept", "culled", "fails"}]
  /\ counter \in 0 .. Modulus - 1
  /\ pc \in [Lanes \cup {Caller} -> LanePlaces \cup CallerPlaces]
  /\ at \in [Lanes \cup {Caller} -> 0 .. count]
  /\ stop \in [Lanes \cup {Caller} -> 0 .. count]
  /\ applied \in [Strands -> 0 .. 2]
  /\ keep \in [Strands -> BOOLEAN]
  /\ read \in 0 .. count
  /\ write \in 0 .. read
  /\ slots \in [Strands -> Strands]

\* No strand is ever rewritten twice, which would move it twice since the
\* rewriting is in place, and when the strands are compacted each has been
\* rewritten once (lines 2018-2048).
EachStrandOnce ==
  /\ \A s \in Strands : applied[s] <= 1
  /\ pc[Caller] \in {"compact", "returned"} => \A s \in Strands : applied[s] = 1

\* Two tasks never hold the same strand: they write its points without a lock.
Holds(l, s) == at[l] <= s /\ s < stop[l]

RangesApart ==
  \A l, m \in Lanes \cup {Caller} :
    l # m /\ At(l, "apply") /\ At(m, "apply") =>
      \A s \in Strands : ~(Holds(l, s) /\ Holds(m, s))

\* The call throws exactly when a strand fails, however many tasks there are.
ThrowsForAStrand ==
  /\ At(Caller, "returned") => \A s \in Strands : outcome[s] # "fails"
  /\ At(Caller, "threw") => \E s \in Strands : outcome[s] = "fails"

\* The call returns the strands that were kept, all of them, in their order
\* (lines 2050-2076).
KeptInOrder ==
  At(Caller, "returned") =>
    /\ {slots[i] : i \in 0 .. write - 1} = {s \in Strands : outcome[s] = "kept"}
    /\ \A i, j \in 0 .. write - 1 : i < j => slots[i] < slots[j]

\* The call ends: with any executor that runs its tasks.
CallEnds == <>(pc[Caller] \in {"returned", "threw"})

-----------------------------------------------------------------------------
(* The inductive invariant behind EachStrandOnce, RangesApart,              *)
(* ThrowsForAStrand and KeptInOrder.                                        *)

Over == {l \in Tasks : At(l, "done")}

\* The caller rewrites the strands or the tasks do.
PlacesMatch ==
  /\ \A l \in Lanes : pc[l] \in LanePlaces
  /\ pc[Caller] \in CallerPlaces
  /\ Parallel => pc[Caller] # "apply" /\ \A l \in Lanes : l \in Tasks <=> ~At(l, "unused")
  /\ ~Parallel => pc[Caller] # "wait" /\ \A l \in Lanes : At(l, "unused")
  /\ Parallel /\ pc[Caller] \in {"compact", "returned"} => \A l \in Tasks : At(l, "done")
  /\ ~Parallel => stop[Caller] = count
  /\ ~Parallel /\ pc[Caller] \in {"compact", "returned"} => at[Caller] = count

\* The counter is less than a chunk beyond the end for each task that has seen
\* the end, and one chunk more: it does not wrap while a task still claims.
CounterFits ==
  Over # Tasks =>
    /\ counter <= count - 1 + (Cardinality(Over) + 1) * ChunkSize
    /\ Over # {} => counter >= count
    /\ \A l \in Tasks : At(l, "apply") => stop[l] <= counter
    /\ Parallel => \A s \in Strands : s >= counter => applied[s] = 0

Held(s) == \E l \in Lanes : pc[l] \in {"apply", "threw"} /\ Holds(l, s)

\* A strand below the counter has been rewritten or is in the range of a task.
ClaimsCover ==
  /\ \A s \in Strands : s < counter \/ Over # {} => applied[s] = 1 \/ Held(s)
  /\ ~Parallel => \A s \in Strands : s < at[Caller] => applied[s] = 1
  /\ \A s \in Strands : applied[s] <= 1
  /\ \A l \in Lanes \cup {Caller} : At(l, "apply") =>
       \A s \in Strands : Holds(l, s) => applied[s] = 0

\* What is known of a strand that was rewritten.
OutcomesMatch ==
  /\ \A s \in Strands : applied[s] = 1 /\ outcome[s] # "fails" => keep[s] = (outcome[s] = "kept")
  /\ \A s \in Strands : applied[s] = 1 /\ outcome[s] = "fails" =>
       \E l \in Lanes \cup {Caller} : At(l, "threw")
  /\ \A l \in Lanes \cup {Caller} : At(l, "threw") => \E s \in Strands : outcome[s] = "fails"

\* The strands that were kept of those read lie in front, the others wait.
PackedSoFar ==
  /\ pc[Caller] \notin {"compact", "returned"} => read = 0
  /\ At(Caller, "returned") => read = count
  /\ {slots[i] : i \in 0 .. write - 1} = {s \in 0 .. read - 1 : keep[s]}
  /\ \A i, j \in 0 .. write - 1 : i < j => slots[i] < slots[j]
  /\ \A i \in read .. count - 1 : slots[i] = i

IInv ==
  /\ TypeOK /\ PlacesMatch /\ CounterFits /\ RangesApart
  /\ ClaimsCover /\ OutcomesMatch /\ PackedSoFar

=============================================================================
