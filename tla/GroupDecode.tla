---------------------------- MODULE GroupDecode ----------------------------
(***************************************************************************)
(* Decoding the groups of an XGen BLOB (src/xgen.cpp): the last part of     *)
(* parse_xgen_document() and of parse_fused_packed_curves(), when the group *)
(* headers have been read and the metadata's references are in bounds.      *)
(*                                                                          *)
(* A bounded number of threads claim the groups from one atomic counter.    *)
(* A group is a sequence of array records; decoding stops at the first      *)
(* record that does not fit.  The document reader keeps a group when it is  *)
(* complete; the fused reader keeps the arrays the curves refer to, one by  *)
(* one, in slots all threads share.  What is wrong with the file is chosen  *)
(* in the initial state and never known to the code before it meets it.     *)
(***************************************************************************)
EXTENDS Integers, FiniteSets

CONSTANTS
  Groups,          \* the group count, metadata.group_count
  ArrayCount,      \* [0 .. Groups - 1 -> Nat], the array count of a group's header
  Selected,        \* the <<group, array>> the curves refer to
  ConcurrencyCap,  \* 8 in the code: the largest number of threads
  Concurrencies,   \* the values hardware_concurrency() may have
  NoGroup          \* first_error is null

Ordinals  == 0 .. Groups - 1
ArraysOf(g) == {g} \X (0 .. ArrayCount[g] - 1)
Arrays    == UNION {ArraysOf(g) : g \in Ordinals}
Lanes     == 1 .. ConcurrencyCap
Caller    == 0

ASSUME GroupDecodeAssumption ==
  /\ Groups \in Nat
  /\ ArrayCount \in [Ordinals -> Nat]
  /\ Selected \subseteq Arrays
  /\ ConcurrencyCap \in Nat \ {0}
  /\ Concurrencies \subseteq Nat
  /\ NoGroup \notin Ordinals

VARIABLES
  fused,        \* the call is parse_fused_packed_curves(), not parse_xgen_document()
  concurrency,  \* std::thread::hardware_concurrency(), 0 when unknown
  breaks,       \* [Ordinals -> the record its decoding stops at, -1 when it does not]
  nextGroup,    \* next_group
  failed,       \* failed
  firstError,   \* first_error: the group it is from
  pc,           \* [Lanes \cup {Caller} -> place]
  group,        \* [Lanes \cup {Caller} -> the ordinal it has claimed]
  record,       \* [Lanes \cup {Caller} -> the array record it is at]
  kept,         \* the arrays in the document, or the loaded slots
  fate          \* [Ordinals -> what became of the group]

vars == <<fused, concurrency, breaks, nextGroup, failed, firstError, pc, group,
          record, kept, fate>>

input  == <<fused, concurrency, breaks>>
shared == <<nextGroup, failed, firstError>>
work   == <<group, record, kept, fate>>

-----------------------------------------------------------------------------
(* Helpers *)

Least(m, n) == IF m <= n THEN m ELSE n
Greatest(m, n) == IF m >= n THEN m ELSE n

\* min(groups, max(1, min(8, hardware_concurrency())))
WorkerCount == Least(Groups, Greatest(1, Least(ConcurrencyCap, concurrency)))
Workers == 1 .. WorkerCount
Parallel == WorkerCount > 1

\* The arrays of a group that are to be kept.
Wanted(g) == IF fused THEN ArraysOf(g) \cap Selected ELSE ArraysOf(g)

At(l, place) == pc[l] = place
Goto(l, place) == pc' = [pc EXCEPT ![l] = place]

\* A thread in a place where it may still touch the caller's locals.
Busy(l) == pc[l] \notin {"unborn", "done"}

-----------------------------------------------------------------------------
(* The calling thread *)

\* What may be wrong with a file: in each group nothing (-1), a record, or the
\* sum of its records.
Breakages ==
  {b \in [Ordinals -> UNION {-1 .. ArrayCount[g] : g \in Ordinals}] :
     \A g \in Ordinals : b[g] \in -1 .. ArrayCount[g]}

Init ==
  /\ fused \in BOOLEAN
  /\ concurrency \in Concurrencies
  /\ breaks \in Breakages
  /\ nextGroup = 0
  /\ failed = FALSE
  /\ firstError = NoGroup
  /\ pc = [l \in Lanes \cup {Caller} |->
             IF l \in Lanes THEN "unborn" ELSE IF Parallel THEN "start" ELSE "pick"]
  /\ group = [l \in Lanes \cup {Caller} |-> 0]
  /\ record = [l \in Lanes \cup {Caller} |-> 0]
  /\ kept = {}
  /\ fate = [g \in Ordinals |-> "waiting"]

\* workers.start(): the next thread begins; after the last one, join.
Start(l) ==
  /\ At(Caller, "start")
  /\ l \in Workers /\ At(l, "unborn")
  /\ \A m \in Workers : m < l => ~At(m, "unborn")
  /\ pc' = [pc EXCEPT ![l] = "check", ![Caller] = IF l = WorkerCount THEN "join" ELSE "start"]
  /\ UNCHANGED <<input, shared, work>>

\* std::thread cannot be started: the exception leaves through the
\* destructor of JoiningThreads, which joins the threads there are.
StartFails ==
  /\ At(Caller, "start")
  /\ Goto(Caller, "unwind")
  /\ UNCHANGED <<input, shared, work>>

\* Mutation of Joined: the threads are not joined when one cannot be started.
JoinedOrUnwinding == At(Caller, "unwind") \/ \A l \in Lanes : ~Busy(l)

Joined == \A l \in Lanes : ~Busy(l)

Unwound ==
  /\ At(Caller, "unwind")
  /\ Joined
  /\ Goto(Caller, "threw")
  /\ UNCHANGED <<input, shared, work>>

\* workers.join(), then rethrow the first error.
Join ==
  /\ At(Caller, "join")
  /\ Joined
  /\ Goto(Caller, IF firstError # NoGroup THEN "threw" ELSE "assemble")
  /\ UNCHANGED <<input, shared, work>>

\* The fused reader looks whether every slot was loaded; the document reader
\* returns its document.
Assemble ==
  /\ At(Caller, "assemble")
  /\ Goto(Caller, IF fused /\ ~(Selected \subseteq kept) THEN "undecoded" ELSE "returned")
  /\ UNCHANGED <<input, shared, work>>

\* With one thread or none the caller takes the groups in order itself.
Pick ==
  /\ At(Caller, "pick")
  /\ IF nextGroup < Groups
     THEN /\ group' = [group EXCEPT ![Caller] = nextGroup]
          /\ record' = [record EXCEPT ![Caller] = 0]
          /\ fate' = [fate EXCEPT ![nextGroup] = "claimed"]
          /\ nextGroup' = nextGroup + 1
          /\ Goto(Caller, "decode")
     ELSE /\ Goto(Caller, "assemble")
          /\ UNCHANGED <<nextGroup, group, record, fate>>
  /\ UNCHANGED <<input, failed, firstError, kept>>

-----------------------------------------------------------------------------
(* A thread *)

\* while (!failed.load())
Check(l) ==
  /\ At(l, "check")
  /\ Goto(l, IF failed THEN "done" ELSE "claim")
  /\ UNCHANGED <<input, shared, work>>

\* Mutation of Advance: the counter is read and not moved.
AdvanceNot(n) == n

Advance(n) == n + 1

\* next_group.fetch_add(1)
Claim(l) ==
  /\ At(l, "claim")
  /\ nextGroup' = Advance(nextGroup)
  /\ IF nextGroup < Groups
     THEN /\ group' = [group EXCEPT ![l] = nextGroup]
          /\ record' = [record EXCEPT ![l] = 0]
          /\ fate' = [fate EXCEPT ![nextGroup] = "claimed"]
          /\ Goto(l, "decode")
     ELSE /\ Goto(l, "done")
          /\ UNCHANGED <<group, record, fate>>
  /\ UNCHANGED <<input, failed, firstError, kept>>

\* decode_group(): one array record, which the fused reader may keep at once.
DecodeArray(l) ==
  LET g == group[l]
      i == record[l]
  IN /\ At(l, "decode")
     /\ i < ArrayCount[g]
     /\ breaks[g] # i
     /\ record' = [record EXCEPT ![l] = i + 1]
     /\ kept' = IF fused /\ <<g, i>> \in Selected THEN kept \cup {<<g, i>>} ELSE kept
     /\ UNCHANGED <<input, shared, pc, group, fate>>

\* Mutation of KeepGroup: the group is not put into the document.
KeepNothing(g) == kept

KeepGroup(g) == IF fused THEN kept ELSE kept \cup ArraysOf(g)

\* decode_group() returns; the document reader keeps the group.
EndGroup(l) ==
  LET g == group[l]
  IN /\ At(l, "decode")
     /\ record[l] = ArrayCount[g]
     /\ breaks[g] # record[l]
     /\ kept' = KeepGroup(g)
     /\ fate' = [fate EXCEPT ![g] = "decoded"]
     /\ Goto(l, IF l = Caller THEN "pick" ELSE "check")
     /\ UNCHANGED <<input, shared, group, record>>

\* decode_group() throws; alone, the caller has no handler for it.
Breaks(l) ==
  /\ At(l, "decode")
  /\ breaks[group[l]] = record[l]
  /\ IF l = Caller
     THEN /\ Goto(l, "threw")
          /\ firstError' = group[l]
          /\ fate' = [fate EXCEPT ![group[l]] = "broken"]
     ELSE Goto(l, "catch") /\ UNCHANGED <<firstError, fate>>
  /\ UNCHANGED <<input, nextGroup, failed, group, record, kept>>

FirstOf(kept_, new) == IF kept_ = NoGroup THEN new ELSE kept_

\* The handler: under error_mutex keep the first error, then set failed.
Catch(l) ==
  /\ At(l, "catch")
  /\ firstError' = FirstOf(firstError, group[l])
  /\ failed' = TRUE
  /\ fate' = [fate EXCEPT ![group[l]] = "broken"]
  /\ Goto(l, "done")
  /\ UNCHANGED <<input, nextGroup, group, record, kept>>

Decode(l) == DecodeArray(l) \/ EndGroup(l) \/ Breaks(l)
LaneStep(l) == Check(l) \/ Claim(l) \/ Decode(l) \/ Catch(l)
CallerStep == (\E l \in Lanes : Start(l)) \/ Unwound \/ Join \/ Assemble \/ Pick \/ Decode(Caller)

Terminated == pc[Caller] \in {"returned", "threw", "undecoded"} /\ UNCHANGED vars

Next == CallerStep \/ StartFails \/ (\E l \in Lanes : LaneStep(l)) \/ Terminated

Spec == Init /\ [][Next]_vars

\* Threads that can run get to run; nothing makes the start of one fail.
FairSpec ==
  /\ Spec
  /\ WF_vars(CallerStep)
  /\ \A l \in Lanes : WF_vars(LaneStep(l))

-----------------------------------------------------------------------------
(* Correctness *)

Places == {"unborn", "start", "join", "unwind", "assemble", "pick", "check", "claim",
           "decode", "catch", "done", "returned", "threw", "undecoded"}

\* Every variable keeps its type.
TypeOK ==
  /\ fused \in BOOLEAN
  /\ concurrency \in Concurrencies
  /\ breaks \in Breakages
  /\ nextGroup \in Nat
  /\ failed \in BOOLEAN
  /\ firstError \in Ordinals \cup {NoGroup}
  /\ pc \in [Lanes \cup {Caller} -> Places]
  /\ group \in [Lanes \cup {Caller} -> Nat]
  /\ record \in [Lanes \cup {Caller} -> Nat]
  /\ kept \subseteq Arrays
  /\ fate \in [Ordinals -> {"waiting", "claimed", "decoded", "broken"}]

Broken(g) == breaks[g] # -1

\* The parse returns exactly the files without a broken group, and then it has
\* every array it wants, whichever thread decoded it; when it throws and
\* every thread could be started, it throws the error of a group that is broken
\* (lines 1205-1238, 1033-1063).
OutcomeIsOfTheFile ==
  /\ At(Caller, "returned") =>
       /\ \A g \in Ordinals : ~Broken(g)
       /\ kept = UNION {Wanted(g) : g \in Ordinals}
  /\ At(Caller, "threw") /\ (\A l \in Workers : Parallel => ~At(l, "unborn")) =>
       firstError # NoGroup /\ Broken(firstError)

\* Two threads never decode the same group: their slots and their places in
\* the document are apart, which is why they need no lock (lines 1012-1023, 1226).
GroupsApart ==
  \A l, m \in Lanes \cup {Caller} :
    /\ l # m
    /\ pc[l] \in {"decode", "catch"}
    /\ pc[m] \in {"decode", "catch"}
    => group[l] # group[m]

\* Once an error is kept no later one replaces it (lines 1228-1229).
FirstErrorStays == [][firstError # NoGroup => firstError' = firstError]_vars

\* When the parse has left, by return or by exception, also one of starting a
\* thread, no thread is left that would use the locals it captured (lines 91-117).
NoThreadOutlives ==
  pc[Caller] \in {"returned", "threw", "undecoded"} => \A l \in Lanes : ~Busy(l)

\* The check for slots that were not loaded never fires: the references were
\* checked against the headers and a group that lacks one is broken
\* (lines 1027-1030, 1064-1066).
NothingUndecoded == ~At(Caller, "undecoded")

\* The parse ends, with any file and any number of threads.
ParseEnds == <>(pc[Caller] \in {"returned", "threw"})

-----------------------------------------------------------------------------
(* The inductive invariant behind OutcomeIsOfTheFile. *)

LanePlaces   == {"unborn", "check", "claim", "decode", "catch", "done"}
CallerPlaces == {"start", "join", "unwind", "assemble", "pick", "decode",
                 "returned", "threw", "undecoded"}
Decoders     == {l \in Lanes \cup {Caller} : pc[l] \in {"decode", "catch"}}

\* The caller decodes or the lanes do.
PlacesMatch ==
  /\ \A l \in Lanes : pc[l] \in LanePlaces
  /\ pc[Caller] \in CallerPlaces
  /\ pc[Caller] \in {"start", "join", "unwind"} => Parallel
  /\ pc[Caller] \in {"pick", "decode"} => ~Parallel /\ \A l \in Lanes : At(l, "unborn")
  /\ pc[Caller] \in {"start", "unwind"} => At(WorkerCount, "unborn")
  /\ pc[Caller] \in {"join", "assemble", "returned", "undecoded"} =>
       \A l \in Workers : Parallel => ~At(l, "unborn")

\* What a thread has seen of the group it has claimed.
ClaimsMatch ==
  \A l \in Decoders :
    LET g == group[l]
        i == record[l]
    IN /\ g \in Ordinals /\ i \in 0 .. ArrayCount[g]
       /\ fate[g] = "claimed"
       /\ breaks[g] \notin 0 .. i - 1
       /\ At(l, "catch") => Broken(g)
       /\ fused => Selected \cap ({g} \X (0 .. i - 1)) \subseteq kept

FatesMatch ==
  \A g \in Ordinals :
    /\ fate[g] = "waiting" <=> g >= nextGroup
    /\ fate[g] = "claimed" => \E l \in Decoders : group[l] = g
    /\ fate[g] = "decoded" => ~Broken(g) /\ Wanted(g) \subseteq kept
    /\ fate[g] = "broken" => firstError # NoGroup

ErrorsMatch ==
  /\ firstError # NoGroup => Broken(firstError)
  /\ failed => firstError # NoGroup
  /\ kept \subseteq UNION {Wanted(g) : g \in Ordinals}
  /\ \A l \in Lanes : At(l, "done") => failed \/ nextGroup >= Groups
  /\ pc[Caller] \in {"pick", "decode", "assemble", "returned", "undecoded"} => firstError = NoGroup
  /\ At(Caller, "threw") /\ firstError = NoGroup => Parallel /\ At(WorkerCount, "unborn")

AssembledComplete ==
  pc[Caller] \in {"assemble", "returned", "undecoded"} =>
    /\ Decoders = {}
    /\ nextGroup >= Groups

IInv ==
  /\ TypeOK /\ PlacesMatch /\ GroupsApart
  /\ ClaimsMatch /\ FatesMatch /\ ErrorsMatch /\ AssembledComplete

=============================================================================
