----------------------------- MODULE StrandLoop -----------------------------
(***************************************************************************)
(* What the parallel loops over the strands promise their callers: every    *)
(* strand is handled once, in any order, and the call returns when all have  *)
(* been; or it fails, in the middle.  Nothing happens after it is over.     *)
(*                                                                          *)
(* An abstract specification; StrandTiles is shown to implement it.         *)
(***************************************************************************)
EXTENDS Integers

VARIABLES
  count,    \* the number of strands of the call
  times,    \* [Strands -> how often the strand has been handled]
  result    \* "none" until the call is over, then "returned" or "failed"

loopVars == <<count, times, result>>

Strands == 0 .. count - 1

Init ==
  /\ count \in Nat
  /\ times = [s \in Strands |-> 0]
  /\ result = "none"

Handle(s) ==
  /\ result = "none"
  /\ times[s] = 0
  /\ times' = [times EXCEPT ![s] = 1]
  /\ UNCHANGED <<count, result>>

Return ==
  /\ result = "none"
  /\ \A s \in Strands : times[s] = 1
  /\ result' = "returned"
  /\ UNCHANGED <<count, times>>

Fail ==
  /\ result = "none"
  /\ result' = "failed"
  /\ UNCHANGED <<count, times>>

Next == (\E s \in Strands : Handle(s)) \/ Return \/ Fail

Spec == Init /\ [][Next]_loopVars

\* Handling strands is bounded, so the call is over at some time.
FairSpec == Spec /\ WF_loopVars(Next)

=============================================================================
