---------------------------- MODULE StrandTiles ----------------------------
(***************************************************************************)
(* The CPU generators of src/asset.cpp, from the point where their input is   *)
(* found valid and the output has its size: parallel_for_strands(), and the   *)
(* same loop in generate_linear_modifier_reference_cpu().  Threads of their  *)
(* own claim blocks of strands from a 32-bit atomic counter and write the     *)
(* points of their strands into shared arrays without a lock.               *)
(*                                                                          *)
(* What is generated for a strand is left out; it does not throw.  The only  *)
(* failure is a thread that cannot be started.  If it is the first, the       *)
(* call throws; if others are running, the vector of threads is destroyed     *)
(* while they can be joined, and the process ends (std::terminate).          *)
(***************************************************************************)
EXTENDS Integers, FiniteSets

CONSTANTS
  MaxStrands,  \* Bound: the largest strand count
  MaxThreads,  \* Bound: the largest number of threads that is asked for
  Modulus      \* 2^32: the counter and the number of blocks are uint32

\* Nothing in the code says so, but the counter needs room for one claim of
\* each thread beyond the last block; a block has one strand at least.
ASSUME StrandTilesAssumption ==
  /\ MaxStrands \in Nat \ {0}
  /\ MaxThreads \in Nat \ {0}
  /\ Modulus \in Nat
  /\ MaxStrands + MaxThreads <= Modulus

VARIABLES
  count,    \* params.strand_count, or seeds.size(), of the call
  block,    \* options.strands_per_work_block
  asked,    \* options.worker_count, 0 for a number the code chooses
  cores,    \* std::thread::hardware_concurrency(), 0 if it is not known
  counter,  \* next_block
  started,  \* workers.size()
  pc,       \* [Lanes \cup {Caller} -> place]
  at,       \* [Lanes \cup {Caller} -> the strand it is at]
  stop,     \* [Lanes \cup {Caller} -> the end of its block]
  times     \* [Strands -> how often it has been generated: 0, 1 or more]

vars == <<count, block, asked, cores, counter, started, pc, at, stop, times>>

input == <<count, block, asked, cores>>

Strands == 0 .. count - 1
Caller  == 0
Lanes   == 1 .. MaxThreads

-----------------------------------------------------------------------------
(* Helpers *)

Least(m, n) == IF m <= n THEN m ELSE n
Greatest(m, n) == IF m >= n THEN m ELSE n

\* uint32 arithmetic
Wrap(n) == n % Modulus

\* logical_block_count
Blocks == (count + block - 1) \div block

\* Without a number of its own the call takes a thread for four blocks.
UsefulThreads == Wrap(Blocks + 3) \div 4
ChosenThreads == Least(Greatest(1, cores), Greatest(1, UsefulThreads))

\* worker_count
Threads == Least(IF asked = 0 THEN ChosenThreads ELSE asked, Blocks)

Parallel == Threads > 1

\* Mutation of BlockEnd: one strand of the next block.
BlockEndTooFar(b) == Least(b * block + block + 1, count)

BlockEnd(b) == Least(b * block + block, count)

StandsAt(l, place) == pc[l] = place
Goto(l, place) == pc' = [pc EXCEPT ![l] = place]

Alive == ~StandsAt(Caller, "terminated")

-----------------------------------------------------------------------------
Init ==
  /\ count \in 1 .. MaxStrands
  /\ block \in 1 .. MaxStrands + 1
  /\ asked \in 0 .. MaxThreads
  /\ cores \in 0 .. MaxThreads
  /\ counter = 0
  /\ started = 0
  /\ pc = [l \in Lanes \cup {Caller} |->
             IF l # Caller THEN "unstarted" ELSE IF Parallel THEN "start" ELSE "claim"]
  /\ at = [l \in Lanes \cup {Caller} |-> 0]
  /\ stop = [l \in Lanes \cup {Caller} |-> 0]
  /\ times = [s \in Strands |-> 0]

(* worker: of a thread, or called by the caller itself *)

\* next_block.fetch_add(1): a block, or the end.
Claim(l) ==
  /\ Alive
  /\ StandsAt(l, "claim")
  /\ counter' = Wrap(counter + 1)
  /\ IF counter < Blocks
     THEN /\ at' = [at EXCEPT ![l] = counter * block]
          /\ stop' = [stop EXCEPT ![l] = BlockEnd(counter)]
          /\ Goto(l, "generate")
     ELSE /\ Goto(l, IF l = Caller THEN "returned" ELSE "done")
          /\ UNCHANGED <<at, stop>>
  /\ UNCHANGED <<input, started, times>>

\* One strand is written.
Generate(l) ==
  LET s == at[l]
  IN /\ Alive
     /\ StandsAt(l, "generate")
     /\ s < stop[l]
     /\ times' = [times EXCEPT ![s] = Least(@ + 1, 2)]
     /\ at' = [at EXCEPT ![l] = s + 1]
     /\ UNCHANGED <<input, counter, started, pc, stop>>

EndBlock(l) ==
  /\ Alive
  /\ StandsAt(l, "generate")
  /\ ~(at[l] < stop[l])
  /\ Goto(l, "claim")
  /\ UNCHANGED <<input, counter, started, at, stop, times>>

(* The caller *)

StartThread ==
  /\ StandsAt(Caller, "start")
  /\ started < Threads
  /\ started' = started + 1
  /\ Goto(started + 1, "claim")
  /\ UNCHANGED <<input, counter, at, stop, times>>

\* A thread cannot be started.
StartFails ==
  /\ StandsAt(Caller, "start")
  /\ started < Threads
  /\ Goto(Caller, IF started = 0 THEN "threw" ELSE "terminated")
  /\ UNCHANGED <<input, counter, started, at, stop, times>>

\* Mutation of Joined: the thread that was started last is not joined.
JoinedButLast == \A l \in 1 .. started - 1 : StandsAt(l, "done")

Joined == \A l \in 1 .. started : StandsAt(l, "done")

\* All threads are started and joined.
Join ==
  /\ StandsAt(Caller, "start")
  /\ started = Threads
  /\ Joined
  /\ Goto(Caller, "returned")
  /\ UNCHANGED <<input, counter, started, at, stop, times>>

Work(l) == Claim(l) \/ Generate(l) \/ EndBlock(l)

CallerStep == Work(Caller) \/ StartThread \/ StartFails \/ Join

Terminated ==
  /\ pc[Caller] \in {"returned", "threw", "terminated"}
  /\ UNCHANGED vars

Next == CallerStep \/ (\E l \in Lanes : Work(l)) \/ Terminated

Spec == Init /\ [][Next]_vars

\* A thread that can go on does.
FairSpec == Spec /\ WF_vars(CallerStep) /\ \A l \in Lanes : WF_vars(Work(l))

-----------------------------------------------------------------------------
(* Correctness *)

Places ==
  {"unstarted", "claim", "generate", "done", "start", "returned", "threw", "terminated"}

\* Every variable keeps its type.
TypeOK ==
  /\ count \in 1 .. MaxStrands
  /\ block \in 1 .. MaxStrands + 1
  /\ asked \in 0 .. MaxThreads
  /\ cores \in 0 .. MaxThreads
  /\ counter \in 0 .. Modulus - 1
  /\ started \in 0 .. Threads
  /\ pc \in [Lanes \cup {Caller} -> Places]
  /\ at \in [Lanes \cup {Caller} -> 0 .. count]
  /\ stop \in [Lanes \cup {Caller} -> 0 .. count]
  /\ times \in [Strands -> 0 .. 2]

\* The counter and the output arrays are locals of the call: when it is left,
\* by return or exception, no thread is still using them.
LocalsOutliveThreads ==
  pc[Caller] \in {"returned", "threw"} =>
    \A l \in Lanes : pc[l] \in {"unstarted", "done"}

\* How the call has ended.
Result ==
  CASE StandsAt(Caller, "returned") -> "returned"
    [] pc[Caller] \in {"threw", "terminated"} -> "failed"
    [] OTHER -> "none"

Loop == INSTANCE StrandLoop WITH result <- Result

\* The loop over the strands keeps its promise: no strand is generated twice by
\* whatever threads, none is left out, and the call comes to an end.
ImplementsStrandLoop == Loop!FairSpec

-----------------------------------------------------------------------------
(* The inductive invariant of GenerationProofs *)

\* Those who claim blocks, and those of them who have seen the end.
Workers == IF Parallel THEN 1 .. Threads ELSE {Caller}
Over == {l \in Workers : pc[l] \in {"done", "returned"}}

PlacesMatch ==
  /\ \A l \in Lanes : pc[l] \in {"unstarted", "claim", "generate", "done"}
  /\ Parallel =>
       /\ pc[Caller] \in {"start", "returned", "threw", "terminated"}
       /\ \A l \in Lanes : StandsAt(l, "unstarted") <=> l > started
       /\ StandsAt(Caller, "threw") => started = 0
       /\ StandsAt(Caller, "returned") => Over = Workers
  /\ ~Parallel =>
       /\ pc[Caller] \in {"claim", "generate", "returned"}
       /\ \A l \in Lanes : StandsAt(l, "unstarted")

\* Where the next block begins, if there is one.
Frontier == counter * block

\* The counter is beyond the last block by one for each worker that has seen
\* the end: it does not wrap while a worker still claims.
CounterFits ==
  Over # Workers =>
    /\ counter <= Blocks + Cardinality(Over)
    /\ Over # {} => counter >= Blocks
    /\ \A l \in Workers : StandsAt(l, "generate") => stop[l] <= Frontier
    /\ \A s \in Strands : s >= Frontier => times[s] = 0

Holds(l, s) == StandsAt(l, "generate") /\ at[l] <= s /\ s < stop[l]

\* A strand before the frontier is generated or in the block of one worker.
ClaimsCover ==
  /\ \A s \in Strands : s < Frontier \/ Over # {} =>
       times[s] = 1 \/ \E l \in Workers : Holds(l, s)
  /\ \A s \in Strands : times[s] <= 1
  /\ \A l \in Workers : \A s \in Strands : Holds(l, s) => times[s] = 0
  /\ \A l, m \in Workers : \A s \in Strands : Holds(l, s) /\ Holds(m, s) => l = m

IInv == TypeOK /\ PlacesMatch /\ CounterFits /\ ClaimsCover

=============================================================================
