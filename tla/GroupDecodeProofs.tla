------------------------- MODULE GroupDecodeProofs -------------------------
(***************************************************************************)
(* The outcome of GroupDecode, for any file and any number of threads.      *)
(***************************************************************************)
EXTENDS GroupDecode, TLAPS

All == Lanes \cup {Caller}

\* The number of threads is at most the cap, and there is a last one.
LEMMA WorkerFacts ==
  ASSUME concurrency \in Nat
  PROVE  /\ WorkerCount \in Nat /\ WorkerCount <= ConcurrencyCap
         /\ Workers \subseteq Lanes
         /\ Parallel => WorkerCount \in Workers /\ WorkerCount \in Lanes
         /\ Caller \notin Lanes
<1>1. ConcurrencyCap \in Nat \ {0} /\ Groups \in Nat
  BY GroupDecodeAssumption
<1>2. WorkerCount \in Nat /\ WorkerCount <= ConcurrencyCap
  BY <1>1 DEF WorkerCount, Least, Greatest
<1> QED
  BY <1>1, <1>2 DEF Workers, Parallel, Lanes, Caller

LEMMA ConcurrencyNat == TypeOK => concurrency \in Nat
  BY GroupDecodeAssumption DEF TypeOK

\* A step that leaves the work and the decoders alone keeps what they know.
LEMMA QuietWork ==
  ASSUME IInv, UNCHANGED <<input, work>>, UNCHANGED <<nextGroup, firstError>>,
         \A l \in All : pc'[l] \in {"decode", "catch"} <=> pc[l] \in {"decode", "catch"},
         \A l \in All : pc[l] \in {"decode", "catch"} => pc'[l] = pc[l]
  PROVE  GroupsApart' /\ ClaimsMatch' /\ FatesMatch' /\ Decoders' = Decoders
<1>1. Decoders' = Decoders
  BY DEF Decoders, All
<1>2. GroupsApart'
  BY DEF IInv, GroupsApart, work, All
<1>3. ClaimsMatch'
  BY <1>1 DEF IInv, ClaimsMatch, Decoders, At, All, input, work, Broken
<1>4. FatesMatch'
  BY <1>1 DEF IInv, FatesMatch, input, work, Broken, Wanted
<1> QED
  BY <1>1, <1>2, <1>3, <1>4

LEMMA InitIInv == Init => IInv
<1> SUFFICES ASSUME Init PROVE IInv
  OBVIOUS
<1> USE DEF At
<1>1. /\ nextGroup = 0 /\ failed = FALSE /\ firstError = NoGroup /\ kept = {}
      /\ \A l \in Lanes : pc[l] = "unborn"
      /\ pc[Caller] = IF Parallel THEN "start" ELSE "pick"
      /\ \A g \in Ordinals : fate[g] = "waiting"
      /\ Decoders = {}
  BY GroupDecodeAssumption DEF Init, Lanes, Caller, Decoders
<1>2. TypeOK
  <2>1. breaks \in Breakages
    BY DEF Init
  <2>2. pc \in [Lanes \cup {Caller} -> Places]
    BY DEF Init, Places
  <2>3. /\ group \in [Lanes \cup {Caller} -> Nat] /\ record \in [Lanes \cup {Caller} -> Nat]
        /\ fate \in [Ordinals -> {"waiting", "claimed", "decoded", "broken"}]
        /\ concurrency \in Concurrencies /\ fused \in BOOLEAN
    BY DEF Init
  <2>4. nextGroup \in Nat /\ failed \in BOOLEAN /\ firstError \in Ordinals \cup {NoGroup}
    BY <1>1
  <2>5. kept \subseteq Arrays
    BY <1>1
  <2> QED
    BY <2>1, <2>2, <2>3, <2>4, <2>5 DEF TypeOK
<1>3. PlacesMatch
  BY <1>1, <1>2, WorkerFacts, ConcurrencyNat DEF PlacesMatch, LanePlaces, CallerPlaces
<1>4. GroupsApart /\ ClaimsMatch
  BY <1>1 DEF GroupsApart, ClaimsMatch, Decoders
<1>5. FatesMatch /\ ErrorsMatch /\ AssembledComplete
  BY <1>1 DEF FatesMatch, ErrorsMatch, AssembledComplete, Ordinals
<1> QED
  BY <1>2, <1>3, <1>4, <1>5 DEF IInv

\* The caller between the threads: it starts them, waits for them, leaves.
LEMMA CallerIInv ==
  ASSUME IInv, \/ \E l \in Lanes : Start(l)
               \/ StartFails \/ Unwound \/ Join \/ Assemble
  PROVE  IInv'
<1> USE DEF At, Goto
<1>1. UNCHANGED <<input, work, shared>>
  BY DEF Start, StartFails, Unwound, Join, Assemble
<1>2. TypeOK /\ PlacesMatch /\ ErrorsMatch /\ AssembledComplete
  BY DEF IInv
<1>3. /\ WorkerCount \in Nat /\ WorkerCount' = WorkerCount /\ Parallel' = Parallel
      /\ Workers' = Workers /\ Workers \subseteq Lanes /\ Caller \notin Lanes
      /\ Parallel => WorkerCount \in Workers /\ WorkerCount \in Lanes
  BY <1>1, <1>2, WorkerFacts, ConcurrencyNat DEF input, WorkerCount, Parallel, Workers
<1>4. CASE \E l \in Lanes : Start(l)
  <2>1. PICK l \in Lanes : Start(l)
    BY <1>4
  <2>2. /\ pc[Caller] = "start" /\ pc[l] = "unborn" /\ l \in Workers /\ Parallel
        /\ \A m \in Workers : m < l => pc[m] # "unborn"
        /\ \A x \in All : pc'[x] = IF x = Caller THEN IF l = WorkerCount THEN "join" ELSE "start"
                                   ELSE IF x = l THEN "check" ELSE pc[x]
    BY <1>2, <1>3, <2>1 DEF Start, TypeOK, PlacesMatch, All
  <2>3. TypeOK'
    BY <1>1, <1>2, <2>1 DEF Start, TypeOK, input, shared, work, Places
  <2>4. PlacesMatch'
    <3>1. \A x \in Lanes : pc'[x] \in LanePlaces
      BY <1>2, <1>3, <2>2 DEF PlacesMatch, LanePlaces, All
    <3>2. l = WorkerCount => \A m \in Workers : pc'[m] # "unborn"
      BY <1>3, <2>2 DEF Workers, All
    <3>3. l # WorkerCount => pc'[WorkerCount] = "unborn"
      BY <1>2, <1>3, <2>2 DEF PlacesMatch, All
    <3>4. pc'[Caller] = IF l = WorkerCount THEN "join" ELSE "start"
      BY <2>2 DEF All
    <3> QED
      BY <1>3, <2>2, <3>1, <3>2, <3>3, <3>4 DEF PlacesMatch, CallerPlaces
  <2>5. GroupsApart' /\ ClaimsMatch' /\ FatesMatch' /\ Decoders' = Decoders
    BY <1>1, <2>2, QuietWork DEF shared
  <2>6. ErrorsMatch' /\ AssembledComplete'
    BY <1>1, <1>2, <1>3, <2>2 DEF ErrorsMatch, AssembledComplete, input, shared, work, Broken, Wanted, All
  <2> QED
    BY <2>3, <2>4, <2>5, <2>6 DEF IInv
<1>5. CASE StartFails \/ Unwound \/ Join \/ Assemble
  <2>1. \A x \in Lanes : pc'[x] = pc[x]
    BY <1>2, <1>3, <1>5 DEF StartFails, Unwound, Join, Assemble, TypeOK
  <2>2. /\ pc[Caller] \in {"start", "unwind", "join", "assemble"}
        /\ pc'[Caller] \in {"unwind", "threw", "assemble", "undecoded", "returned"}
    BY <1>2, <1>5 DEF StartFails, Unwound, Join, Assemble, TypeOK
  <2>3. TypeOK'
    <3>1. pc' \in [Lanes \cup {Caller} -> Places]
      BY <1>2, <1>5 DEF StartFails, Unwound, Join, Assemble, TypeOK, Places
    <3> QED
      BY <1>1, <1>2, <3>1 DEF TypeOK, input, shared, work
  <2>4. GroupsApart' /\ ClaimsMatch' /\ FatesMatch' /\ Decoders' = Decoders
    <3>1. \A x \in All : pc'[x] \in {"decode", "catch"} <=> pc[x] \in {"decode", "catch"}
      BY <2>1, <2>2 DEF All
    <3>2. \A x \in All : pc[x] \in {"decode", "catch"} => pc'[x] = pc[x]
      BY <2>1, <2>2 DEF All
    <3> QED
      BY <1>1, <3>1, <3>2, QuietWork DEF shared
  <2>5. CASE StartFails
    <3>1. pc[Caller] = "start" /\ pc'[Caller] = "unwind"
      BY <1>2, <2>5 DEF StartFails, TypeOK
    <3> QED
      BY <1>1, <1>2, <1>3, <2>1, <2>3, <2>4, <3>1
      DEF IInv, PlacesMatch, ErrorsMatch, AssembledComplete, CallerPlaces, input, shared, work, Broken, Wanted
  <2>6. CASE Unwound
    <3>1. pc[Caller] = "unwind" /\ pc'[Caller] = "threw"
      BY <1>2, <2>6 DEF Unwound, TypeOK
    <3> QED
      BY <1>1, <1>2, <1>3, <2>1, <2>3, <2>4, <3>1
      DEF IInv, PlacesMatch, ErrorsMatch, AssembledComplete, CallerPlaces, input, shared, work, Broken, Wanted
  <2>7. CASE Join
    <3>1. /\ pc[Caller] = "join" /\ \A x \in Lanes : pc[x] \in {"unborn", "done"}
          /\ pc'[Caller] = IF firstError # NoGroup THEN "threw" ELSE "assemble"
      BY <1>2, <2>7 DEF Join, Joined, Busy, TypeOK
    <3>2. Decoders' = {}
      BY <2>1, <2>2, <3>1 DEF Decoders
    <3>3. pc[WorkerCount] = "done"
      BY <1>2, <1>3, <3>1 DEF PlacesMatch
    <3>4. firstError = NoGroup => nextGroup >= Groups
      BY <1>2, <1>3, <3>1, <3>3 DEF PlacesMatch, ErrorsMatch
    <3>5. PlacesMatch'
      BY <1>2, <1>3, <2>1, <2>2, <3>1 DEF PlacesMatch, CallerPlaces
    <3>6. ErrorsMatch'
      BY <1>1, <1>2, <1>3, <2>1, <3>1 DEF ErrorsMatch, input, shared, work, Broken, Wanted
    <3>7. AssembledComplete'
      BY <1>1, <3>1, <3>2, <3>4 DEF AssembledComplete, shared
    <3> QED
      BY <2>3, <2>4, <3>5, <3>6, <3>7 DEF IInv
  <2>8. CASE Assemble
    <3>1. pc[Caller] = "assemble" /\ pc'[Caller] \in {"undecoded", "returned"}
      BY <1>2, <2>8 DEF Assemble, TypeOK
    <3> QED
      BY <1>1, <1>2, <1>3, <2>1, <2>3, <2>4, <3>1
      DEF IInv, PlacesMatch, ErrorsMatch, AssembledComplete, CallerPlaces, input, shared, work, Broken, Wanted
  <2> QED
    BY <1>5, <2>5, <2>6, <2>7, <2>8
<1> QED
  BY <1>4, <1>5

\* A group is claimed by one thread: the counter was at it and is past it.
LEMMA ClaimsNew ==
  ASSUME IInv, NEW l \in All, pc[l] \notin {"decode", "catch"}, nextGroup < Groups,
         group' = [group EXCEPT ![l] = nextGroup], record' = [record EXCEPT ![l] = 0],
         fate' = [fate EXCEPT ![nextGroup] = "claimed"], nextGroup' = nextGroup + 1,
         pc' = [pc EXCEPT ![l] = "decode"], UNCHANGED <<input, failed, firstError, kept>>
  PROVE  TypeOK' /\ GroupsApart' /\ ClaimsMatch' /\ FatesMatch' /\ Decoders' = Decoders \cup {l}
<1> USE DEF At
<1>1. TypeOK /\ GroupsApart /\ ClaimsMatch /\ FatesMatch /\ nextGroup \in Ordinals
  BY GroupDecodeAssumption DEF IInv, TypeOK, Ordinals
<1>2. /\ \A m \in All : pc'[m] = IF m = l THEN "decode" ELSE pc[m]
      /\ \A m \in All : group'[m] = IF m = l THEN nextGroup ELSE group[m]
      /\ \A m \in All : record'[m] = IF m = l THEN 0 ELSE record[m]
      /\ \A g \in Ordinals : fate'[g] = IF g = nextGroup THEN "claimed" ELSE fate[g]
  BY <1>1 DEF TypeOK, All
<1>3. fate[nextGroup] = "waiting" /\ \A m \in Decoders : group[m] # nextGroup
  <2>1. nextGroup \in Int
    BY <1>1 DEF TypeOK
  <2> QED
    BY <1>1, <2>1 DEF FatesMatch, ClaimsMatch
<1>4. Decoders' = Decoders \cup {l} /\ l \notin Decoders /\ Decoders \subseteq All
  BY <1>2 DEF Decoders, All
<1>5. TypeOK'
  <2>1. fused' = fused /\ breaks' = breaks /\ concurrency' = concurrency
    BY DEF input
  <2>2. /\ pc' \in [Lanes \cup {Caller} -> Places]
        /\ group' \in [Lanes \cup {Caller} -> Nat] /\ record' \in [Lanes \cup {Caller} -> Nat]
        /\ fate' \in [Ordinals -> {"waiting", "claimed", "decoded", "broken"}]
        /\ nextGroup' \in Nat
    BY <1>1 DEF TypeOK, Places, All
  <2> QED
    BY <1>1, <2>1, <2>2 DEF TypeOK
<1>6. GroupsApart'
  BY <1>1, <1>2, <1>3 DEF GroupsApart, Decoders, All
<1>7. ClaimsMatch'
  <2>1. ASSUME NEW m \in Decoders
        PROVE  /\ pc'[m] = pc[m] /\ group'[m] = group[m] /\ record'[m] = record[m]
               /\ group[m] \in Ordinals /\ fate'[group[m]] = "claimed"
    BY <1>1, <1>2, <1>4 DEF ClaimsMatch
  <2>2. \A m \in Decoders :
          LET g == group'[m]
              i == record'[m]
          IN /\ g \in Ordinals /\ i \in 0 .. ArrayCount[g]
             /\ fate'[g] = "claimed"
             /\ breaks'[g] \notin 0 .. i - 1
             /\ pc'[m] = "catch" => breaks'[g] # -1
             /\ fused => Selected \cap ({g} \X (0 .. i - 1)) \subseteq kept'
    BY <1>1, <2>1 DEF ClaimsMatch, Broken, input
  <2>3. LET g == group'[l]
            i == record'[l]
        IN /\ g \in Ordinals /\ i \in 0 .. ArrayCount[g]
           /\ fate'[g] = "claimed"
           /\ breaks'[g] \notin 0 .. i - 1
           /\ pc'[l] = "catch" => breaks'[g] # -1
           /\ fused => Selected \cap ({g} \X (0 .. i - 1)) \subseteq kept'
    <3>1. ArrayCount[nextGroup] \in Nat
      BY <1>1, GroupDecodeAssumption
    <3> QED
      BY <1>1, <1>2, <3>1
  <2> QED
    BY <1>4, <2>2, <2>3 DEF ClaimsMatch, Broken, input
<1>8. FatesMatch'
  <2>1. ASSUME NEW g \in Ordinals
        PROVE  fate'[g] = "waiting" <=> g >= nextGroup'
    <3>1. g \in Int /\ nextGroup \in Int /\ nextGroup' = nextGroup + 1
      BY <1>1 DEF Ordinals, TypeOK
    <3>2. fate[g] = "waiting" <=> g >= nextGroup
      BY <1>1 DEF FatesMatch
    <3>3. CASE g = nextGroup
      BY <1>2, <3>1, <3>3
    <3>4. CASE g # nextGroup
      <4>1. fate'[g] = fate[g]
        BY <1>2, <3>4
      <4>2. g >= nextGroup <=> g >= nextGroup + 1
        BY <3>1, <3>4
      <4> QED
        BY <3>1, <3>2, <4>1, <4>2
    <3> QED
      BY <3>3, <3>4
  <2>2. ASSUME NEW g \in Ordinals, fate'[g] = "claimed"
        PROVE  \E m \in Decoders' : group'[m] = g
    <3>1. CASE g = nextGroup
      BY <1>2, <1>4, <3>1
    <3>2. CASE g # nextGroup
      <4>1. PICK m \in Decoders : group[m] = g
        BY <1>1, <1>2, <2>2, <3>2 DEF FatesMatch
      <4> QED
        BY <1>2, <1>4, <4>1
    <3> QED
      BY <3>1, <3>2
  <2>3. ASSUME NEW g \in Ordinals
        PROVE  /\ fate'[g] = "decoded" => ~Broken(g)' /\ Wanted(g)' \subseteq kept'
               /\ fate'[g] = "broken" => firstError' # NoGroup
    BY <1>1, <1>2 DEF FatesMatch, Broken, Wanted, input
  <2> QED
    BY <2>1, <2>2, <2>3 DEF FatesMatch
<1> QED
  BY <1>4, <1>5, <1>6, <1>7, <1>8

\* The places and the errors after a step of one thread at work.
LEMMA WorkingPlaces ==
  ASSUME IInv, NEW l \in All, NEW place, pc' = [pc EXCEPT ![l] = place], UNCHANGED input,
         l \in Lanes => pc[l] # "unborn" /\ place \in LanePlaces \ {"unborn"},
         l = Caller => /\ pc[Caller] \in {"pick", "decode"}
                       /\ place \in {"pick", "decode", "assemble", "threw"}
  PROVE  PlacesMatch'
<1> USE DEF At
<1>1. TypeOK /\ PlacesMatch
  BY DEF IInv
<1>2. \A m \in All : pc'[m] = IF m = l THEN place ELSE pc[m]
  BY <1>1 DEF TypeOK, All
<1>3. /\ WorkerCount' = WorkerCount /\ Parallel' = Parallel /\ Workers' = Workers
      /\ Workers \subseteq Lanes /\ Caller \notin Lanes
      /\ Parallel => WorkerCount \in Lanes
  BY <1>1, WorkerFacts, ConcurrencyNat DEF input, WorkerCount, Parallel, Workers
<1>4. CASE l \in Lanes
  <2>1. pc[Caller] \notin {"pick", "decode"} /\ pc'[Caller] = pc[Caller]
    BY <1>1, <1>2, <1>3, <1>4 DEF PlacesMatch, All
  <2>2. \A m \in Lanes : pc'[m] \in LanePlaces /\ (pc'[m] = "unborn" <=> pc[m] = "unborn")
    BY <1>1, <1>2, <1>4 DEF PlacesMatch, All, LanePlaces
  <2> QED
    BY <1>1, <1>3, <2>1, <2>2 DEF PlacesMatch
<1>5. CASE l = Caller
  <2>1. \A m \in Lanes : pc'[m] = pc[m]
    BY <1>2, <1>3, <1>5 DEF All
  <2>2. pc'[Caller] \in {"pick", "decode", "assemble", "threw"}
    BY <1>2, <1>5 DEF All
  <2>3. ~Parallel /\ \A m \in Lanes : pc[m] = "unborn"
    BY <1>1, <1>5 DEF PlacesMatch
  <2> QED
    BY <1>1, <1>3, <2>1, <2>2, <2>3 DEF PlacesMatch, CallerPlaces
<1> QED
  BY <1>4, <1>5 DEF All

LEMMA BreaksType ==
  ASSUME TypeOK, NEW g \in Ordinals
  PROVE  breaks[g] \in -1 .. ArrayCount[g] /\ ArrayCount[g] \in Nat
  BY GroupDecodeAssumption DEF TypeOK, Breakages

LEMMA PickIInv == ASSUME IInv, Pick PROVE IInv'
<1> USE DEF At, Goto
<1>1. /\ TypeOK /\ PlacesMatch /\ ErrorsMatch /\ AssembledComplete /\ Caller \in All
      /\ pc[Caller] = "pick" /\ firstError = NoGroup
      /\ UNCHANGED <<input, failed, firstError, kept>>
  BY DEF IInv, Pick, All, ErrorsMatch
<1>2. ~Parallel /\ (\A l \in Lanes : pc[l] = "unborn") /\ Decoders = {} /\ Caller \notin Lanes
  BY <1>1, WorkerFacts, ConcurrencyNat DEF PlacesMatch, Decoders
<1>3. CASE nextGroup < Groups
  <2>1. /\ pc' = [pc EXCEPT ![Caller] = "decode"] /\ nextGroup' = nextGroup + 1
        /\ TypeOK' /\ GroupsApart' /\ ClaimsMatch' /\ FatesMatch'
    BY <1>1, <1>3, ClaimsNew DEF Pick
  <2>2. PlacesMatch'
    BY <1>1, <1>2, <2>1, WorkingPlaces
  <2>3. pc'[Caller] = "decode" /\ \A l \in Lanes : pc'[l] = "unborn"
    BY <1>1, <1>2, <2>1 DEF TypeOK
  <2>4. ErrorsMatch' /\ AssembledComplete'
    BY <1>1, <2>3 DEF ErrorsMatch, AssembledComplete, Broken, Wanted, input
  <2> QED
    BY <2>1, <2>2, <2>4 DEF IInv
<1>4. CASE ~(nextGroup < Groups)
  <2>1. pc' = [pc EXCEPT ![Caller] = "assemble"] /\ UNCHANGED <<work, shared>>
    BY <1>1, <1>4 DEF Pick, work, shared
  <2>2. pc'[Caller] = "assemble" /\ \A l \in Lanes : pc'[l] = pc[l]
    BY <1>1, <1>2, <2>1 DEF TypeOK
  <2>3. TypeOK'
    BY <1>1, <2>1 DEF TypeOK, Places, input, work, shared
  <2>4. PlacesMatch'
    BY <1>1, <1>2, <2>1, WorkingPlaces
  <2>5. GroupsApart' /\ ClaimsMatch' /\ FatesMatch' /\ Decoders' = Decoders
    BY <1>1, <2>1, <2>2, QuietWork DEF All, shared
  <2>6. ErrorsMatch'
    BY <1>1, <2>1, <2>2 DEF ErrorsMatch, Broken, Wanted, input, work, shared
  <2>7. AssembledComplete'
    <3>1. nextGroup' >= Groups
      BY <1>1, <1>4, GroupDecodeAssumption DEF Pick, TypeOK
    <3> QED
      BY <1>2, <2>5, <3>1 DEF AssembledComplete
  <2> QED
    BY <2>3, <2>4, <2>5, <2>6, <2>7 DEF IInv
<1> QED
  BY <1>3, <1>4

\* While a lane works the caller starts threads or waits for them.
LEMMA CallerWaits ==
  ASSUME IInv, NEW l \in Lanes, pc[l] # "unborn", pc[l] # "done"
  PROVE  /\ pc[Caller] \notin {"pick", "decode"}
         /\ l \in Decoders => pc[Caller] \notin {"assemble", "returned", "undecoded"}
  BY DEF IInv, PlacesMatch, AssembledComplete, At

LEMMA CheckClaimIInv ==
  ASSUME IInv, NEW l \in Lanes, Check(l) \/ Claim(l)
  PROVE  IInv'
<1> USE DEF At, Goto
<1>1. /\ TypeOK /\ PlacesMatch /\ ErrorsMatch /\ AssembledComplete
      /\ l \in All /\ pc[l] \in {"check", "claim"} /\ l # Caller
      /\ UNCHANGED <<input, failed, firstError, kept>>
  BY WorkerFacts, ConcurrencyNat DEF IInv, Check, Claim, All, shared, work
<1>2. \A m \in Lanes : m # l => pc'[m] = pc[m]
  BY <1>1 DEF Check, Claim, TypeOK
<1>3. pc'[Caller] = pc[Caller] /\ WorkerCount' = WorkerCount /\ Parallel' = Parallel
  BY <1>1 DEF Check, Claim, TypeOK, input, WorkerCount, Parallel
<1>4. CASE Claim(l) /\ nextGroup < Groups
  <2>1. /\ pc' = [pc EXCEPT ![l] = "decode"] /\ nextGroup' = nextGroup + 1
        /\ TypeOK' /\ GroupsApart' /\ ClaimsMatch' /\ FatesMatch'
    BY <1>1, <1>4, ClaimsNew DEF Claim, Advance
  <2>2. PlacesMatch'
    BY <1>1, <2>1, WorkingPlaces DEF LanePlaces
  <2>3. pc[Caller] \notin {"assemble", "returned", "undecoded"}
    BY <1>1, <1>4, GroupDecodeAssumption DEF AssembledComplete, TypeOK
  <2>4. pc'[l] = "decode"
    BY <1>1, <2>1 DEF TypeOK
  <2>5. ErrorsMatch'
    <3>1. \A m \in Lanes : pc'[m] = "done" => failed' \/ nextGroup' >= Groups
      <4>1. nextGroup \in Nat /\ Groups \in Nat
        BY <1>1, GroupDecodeAssumption DEF TypeOK
      <4> QED
        BY <1>1, <1>2, <2>1, <2>4, <4>1 DEF ErrorsMatch
    <3>2. Parallel => (pc'[WorkerCount'] = "unborn" <=> pc[WorkerCount] = "unborn")
      BY <1>1, <1>2, <1>3, <2>4, WorkerFacts, ConcurrencyNat
    <3> QED
      BY <1>1, <1>3, <3>1, <3>2 DEF ErrorsMatch, Broken, Wanted, input
  <2>6. AssembledComplete'
    BY <1>3, <2>3 DEF AssembledComplete
  <2> QED
    BY <2>1, <2>2, <2>5, <2>6 DEF IInv
<1>5. CASE Check(l) \/ (Claim(l) /\ ~(nextGroup < Groups))
  <2>1. PICK place \in {"done", "claim"} : pc' = [pc EXCEPT ![l] = place]
    BY <1>1, <1>5 DEF Check, Claim
  <2>2. UNCHANGED work /\ nextGroup' \in Nat /\ nextGroup' >= nextGroup
    BY <1>1, <1>5 DEF Check, Claim, work, shared, TypeOK, Advance
  <2>3. pc'[l] = place
    BY <1>1, <2>1 DEF TypeOK
  <2>4. TypeOK'
    BY <1>1, <2>1, <2>2 DEF TypeOK, Places, input, work
  <2>5. PlacesMatch'
    BY <1>1, <2>1, WorkingPlaces DEF LanePlaces
  <2>6. Decoders' = Decoders
    BY <1>1, <1>2, <1>3, <2>3 DEF Decoders
  <2>7. \A m \in Decoders : pc'[m] = pc[m]
    BY <1>1, <1>2, <1>3 DEF Decoders
  <2>8. GroupsApart' /\ ClaimsMatch'
    <3>1. GroupsApart /\ ClaimsMatch
      BY DEF IInv
    <3>2. GroupsApart'
      BY <2>2, <2>6, <3>1 DEF GroupsApart, Decoders, work
    <3> QED
      BY <1>1, <2>2, <2>6, <2>7, <3>1, <3>2 DEF ClaimsMatch, input, work, Broken
  <2>9. FatesMatch'
    <3>1. FatesMatch
      BY DEF IInv
    <3>2. ASSUME NEW g \in Ordinals
          PROVE  g >= nextGroup <=> g >= nextGroup'
      <4>1. CASE Check(l)
        BY <4>1 DEF Check, shared
      <4>2. CASE Claim(l) /\ ~(nextGroup < Groups)
        <5>1. g \in Int /\ g < Groups /\ nextGroup \in Nat /\ Groups \in Nat
          BY <1>1, GroupDecodeAssumption DEF TypeOK, Ordinals
        <5> QED
          BY <2>2, <4>2, <5>1
      <4> QED
        BY <1>5, <4>1, <4>2
    <3> QED
      BY <1>1, <2>2, <2>6, <3>1, <3>2 DEF FatesMatch, input, work, Broken, Wanted
  <2>10. ErrorsMatch' /\ AssembledComplete'
    <3>1. nextGroup \in Nat /\ Groups \in Nat
      BY <1>1, GroupDecodeAssumption DEF TypeOK
    <3>2. place = "done" => failed \/ nextGroup >= Groups
      <4>1. CASE Check(l)
        BY <1>1, <2>3, <4>1 DEF Check, TypeOK
      <4>2. CASE Claim(l) /\ ~(nextGroup < Groups)
        BY <3>1, <4>2
      <4> QED
        BY <1>5, <4>1, <4>2
    <3>3. \A m \in Lanes : pc'[m] = "done" => failed' \/ nextGroup' >= Groups
      BY <1>1, <1>2, <2>2, <2>3, <3>1, <3>2 DEF ErrorsMatch
    <3>4. Parallel => (pc'[WorkerCount'] = "unborn" <=> pc[WorkerCount] = "unborn")
      BY <1>1, <1>2, <1>3, <2>1, <2>3, WorkerFacts, ConcurrencyNat
    <3>5. nextGroup >= Groups => nextGroup' >= Groups
      BY <2>2, <3>1
    <3> QED
      BY <1>1, <1>3, <2>6, <3>3, <3>4, <3>5 DEF ErrorsMatch, AssembledComplete, Broken, Wanted, input
  <2> QED
    BY <2>4, <2>5, <2>8, <2>9, <2>10 DEF IInv
<1> QED
  BY <1>4, <1>5

\* What a thread that decodes knows.
LEMMA DecoderFacts ==
  ASSUME IInv, NEW l \in Decoders
  PROVE  /\ TypeOK /\ PlacesMatch /\ ErrorsMatch /\ AssembledComplete
         /\ l \in All
         /\ group[l] \in Ordinals /\ ArrayCount[group[l]] \in Nat
         /\ record[l] \in 0 .. ArrayCount[group[l]]
         /\ fate[group[l]] = "claimed"
         /\ breaks[group[l]] \notin 0 .. record[l] - 1
         /\ breaks[group[l]] \in -1 .. ArrayCount[group[l]]
         /\ \A m \in Decoders : m # l => group[m] # group[l]
         /\ l # Caller => l \in Lanes /\ pc[Caller] \in {"start", "join", "unwind", "threw"}
         /\ l = Caller => ~Parallel /\ Decoders = {Caller} /\ pc[Caller] = "decode"
<1>1. TypeOK /\ PlacesMatch /\ ErrorsMatch /\ AssembledComplete /\ ClaimsMatch /\ GroupsApart
  BY DEF IInv
<1>2. l \in All /\ Decoders \subseteq All
  BY DEF Decoders, All
<1>3. group[l] \in Ordinals
  BY <1>1 DEF ClaimsMatch
<1>4. breaks[group[l]] \in -1 .. ArrayCount[group[l]] /\ ArrayCount[group[l]] \in Nat
  BY <1>1, <1>3, BreaksType
<1>5. \A m \in Decoders : m # l => group[m] # group[l]
  BY <1>1 DEF GroupsApart, Decoders
<1>6. l # Caller => l \in Lanes /\ pc[Caller] \in {"start", "join", "unwind", "threw"}
  BY <1>1, <1>2 DEF PlacesMatch, AssembledComplete, CallerPlaces, Decoders, All, At
<1>7. l = Caller => ~Parallel /\ Decoders = {Caller} /\ pc[Caller] = "decode"
  BY <1>1, <1>2 DEF PlacesMatch, CallerPlaces, Decoders, All, At
<1>8. /\ record[l] \in 0 .. ArrayCount[group[l]] /\ fate[group[l]] = "claimed"
      /\ breaks[group[l]] \notin 0 .. record[l] - 1
  BY <1>1 DEF ClaimsMatch
<1> QED
  BY <1>1, <1>2, <1>3, <1>4, <1>5, <1>6, <1>7, <1>8

\* A thread is done with its group, whose fate is now known.
LEMMA LeavesGroup ==
  ASSUME IInv, NEW l \in Decoders, NEW place, place \notin {"decode", "catch"},
         NEW end \in {"decoded", "broken"},
         pc' = [pc EXCEPT ![l] = place], fate' = [fate EXCEPT ![group[l]] = end],
         kept \subseteq kept', UNCHANGED <<input, group, record, nextGroup>>,
         end = "decoded" => ~Broken(group[l]) /\ Wanted(group[l]) \subseteq kept',
         end = "broken" \/ firstError # NoGroup => firstError' # NoGroup
  PROVE  GroupsApart' /\ ClaimsMatch' /\ FatesMatch' /\ Decoders' = Decoders \ {l}
<1> USE DEF At
<1>1. TypeOK /\ GroupsApart /\ ClaimsMatch /\ FatesMatch
  BY DEF IInv
<1>2. /\ l \in All /\ group[l] \in Ordinals /\ fate[group[l]] = "claimed"
      /\ \A m \in Decoders : m # l => group[m] # group[l]
  BY DecoderFacts
<1>3. /\ \A m \in All : pc'[m] = IF m = l THEN place ELSE pc[m]
      /\ \A g \in Ordinals : fate'[g] = IF g = group[l] THEN end ELSE fate[g]
      /\ breaks' = breaks /\ fused' = fused
  BY <1>1, <1>2 DEF TypeOK, All, input
<1>4. Decoders' = Decoders \ {l}
  BY <1>3 DEF Decoders, All
<1>5. GroupsApart'
  BY <1>1, <1>3 DEF GroupsApart, All
<1>6. ClaimsMatch'
  <2>1. ASSUME NEW m \in Decoders'
        PROVE  /\ m \in Decoders /\ pc'[m] = pc[m] /\ group[m] \in Ordinals
               /\ fate'[group[m]] = "claimed"
    BY <1>1, <1>2, <1>3, <1>4 DEF ClaimsMatch, Decoders, All
  <2> QED
    BY <1>1, <1>3, <2>1 DEF ClaimsMatch, Broken
<1>7. FatesMatch'
  <2>1. ASSUME NEW g \in Ordinals
        PROVE  fate'[g] = "waiting" <=> g >= nextGroup'
    BY <1>1, <1>2, <1>3 DEF FatesMatch
  <2>2. ASSUME NEW g \in Ordinals, fate'[g] = "claimed"
        PROVE  \E m \in Decoders' : group'[m] = g
    BY <1>1, <1>3, <1>4, <2>2 DEF FatesMatch
  <2>3. ASSUME NEW g \in Ordinals, fate'[g] = "decoded"
        PROVE  ~Broken(g)' /\ Wanted(g)' \subseteq kept'
    BY <1>1, <1>3, <2>3 DEF FatesMatch, Broken, Wanted
  <2>4. ASSUME NEW g \in Ordinals, fate'[g] = "broken"
        PROVE  firstError' # NoGroup
    BY <1>1, <1>3, <2>4 DEF FatesMatch
  <2> QED
    BY <2>1, <2>2, <2>3, <2>4 DEF FatesMatch
<1> QED
  BY <1>4, <1>5, <1>6, <1>7

LEMMA DecodeArrayIInv ==
  ASSUME IInv, NEW l \in All, DecodeArray(l)
  PROVE  IInv'
<1> USE DEF At
<1>1. /\ pc[l] = "decode" /\ l \in Decoders /\ pc' = pc /\ Decoders' = Decoders
      /\ group' = group /\ fate' = fate /\ UNCHANGED <<input, shared>>
      /\ record[l] < ArrayCount[group[l]] /\ breaks[group[l]] # record[l]
  BY DEF DecodeArray, Decoders, All
<1>2. DEFINE g == group[l]
             i == record[l]
<1>3. /\ TypeOK /\ PlacesMatch /\ ErrorsMatch /\ AssembledComplete
      /\ l \in All /\ g \in Ordinals /\ ArrayCount[g] \in Nat /\ i \in 0 .. ArrayCount[g]
      /\ breaks[g] \notin 0 .. i - 1 /\ breaks[g] \in -1 .. ArrayCount[g]
      /\ \A m \in Decoders : m # l => group[m] # g
  BY <1>1, DecoderFacts
<1>4. /\ record' = [record EXCEPT ![l] = i + 1]
      /\ \A m \in All : record'[m] = IF m = l THEN i + 1 ELSE record[m]
      /\ kept' = IF fused /\ <<g, i>> \in Selected THEN kept \cup {<<g, i>>} ELSE kept
  BY <1>3 DEF DecodeArray, TypeOK, All
<1>5. <<g, i>> \in ArraysOf(g)
  BY <1>1, <1>3 DEF ArraysOf
<1>6. TypeOK'
  <2>1. kept' \subseteq Arrays
    BY <1>3, <1>4, GroupDecodeAssumption DEF TypeOK
  <2>2. record' \in [Lanes \cup {Caller} -> Nat]
    BY <1>3, <1>4 DEF TypeOK, All
  <2> QED
    BY <1>1, <1>3, <2>1, <2>2 DEF TypeOK, input, shared
<1>7. PlacesMatch' /\ GroupsApart' /\ AssembledComplete'
  BY <1>1 DEF IInv, PlacesMatch, GroupsApart, AssembledComplete, input, shared,
              WorkerCount, Parallel, Workers
<1>8. ClaimsMatch'
  <2>1. ClaimsMatch
    BY DEF IInv
  <2>2. ASSUME NEW m \in Decoders, m # l
        PROVE  record'[m] = record[m]
    BY <1>4, <2>2 DEF Decoders, All
  <2>3. breaks'[g] \notin 0 .. (i + 1) - 1 /\ i + 1 \in 0 .. ArrayCount[g]
    <3>1. breaks' = breaks
      BY <1>1 DEF input
    <3> QED
      BY <1>1, <1>3, <3>1
  <2>4. fused => Selected \cap ({g} \X (0 .. (i + 1) - 1)) \subseteq kept'
    <3>1. SUFFICES ASSUME fused, NEW a \in Selected \cap ({g} \X (0 .. (i + 1) - 1))
                   PROVE  a \in kept'
      OBVIOUS
    <3>2. CASE a = <<g, i>>
      BY <1>4, <3>1, <3>2
    <3>3. CASE a # <<g, i>>
      <4>1. PICK j \in 0 .. (i + 1) - 1 : a = <<g, j>>
        BY <3>1
      <4>2. j \in 0 .. i - 1
        BY <1>3, <3>3, <4>1
      <4>3. a \in Selected \cap ({g} \X (0 .. i - 1))
        BY <3>1, <4>1, <4>2
      <4> QED
        BY <1>1, <1>4, <2>1, <3>1, <4>3 DEF ClaimsMatch
    <3> QED
      BY <3>2, <3>3
  <2>5. ASSUME NEW m \in Decoders, m # l
        PROVE  fused => Selected \cap ({group[m]} \X (0 .. record[m] - 1)) \subseteq kept'
    BY <1>4, <2>1 DEF ClaimsMatch
  <2>6. /\ record'[l] = i + 1 /\ group'[l] = g /\ fate'[g] = "claimed" /\ pc'[l] = "decode"
        /\ breaks' = breaks /\ fused' = fused
    BY <1>1, <1>3, <1>4, <2>1 DEF ClaimsMatch, input
  <2>7. ASSUME NEW m \in Decoders, m = l
        PROVE  /\ group'[m] \in Ordinals /\ record'[m] \in 0 .. ArrayCount[group'[m]]
               /\ fate'[group'[m]] = "claimed"
               /\ breaks'[group'[m]] \notin 0 .. record'[m] - 1
               /\ pc'[m] # "catch"
               /\ fused => Selected \cap ({group'[m]} \X (0 .. record'[m] - 1)) \subseteq kept'
    BY <1>3, <2>3, <2>4, <2>6, <2>7
  <2>8. ASSUME NEW m \in Decoders, m # l
        PROVE  /\ group'[m] \in Ordinals /\ record'[m] \in 0 .. ArrayCount[group'[m]]
               /\ fate'[group'[m]] = "claimed"
               /\ breaks'[group'[m]] \notin 0 .. record'[m] - 1
               /\ pc'[m] = "catch" => breaks'[group'[m]] # -1
               /\ fused => Selected \cap ({group'[m]} \X (0 .. record'[m] - 1)) \subseteq kept'
    BY <1>1, <2>1, <2>2, <2>5, <2>6, <2>8 DEF ClaimsMatch, Broken
  <2> QED
    BY <1>1, <2>6, <2>7, <2>8 DEF ClaimsMatch, Broken
<1>9. FatesMatch'
  <2>1. FatesMatch /\ kept \subseteq kept'
    BY <1>4 DEF IInv
  <2> QED
    BY <1>1, <2>1 DEF FatesMatch, input, shared, Broken, Wanted
<1>10. ErrorsMatch'
  <2>1. kept' \subseteq UNION {Wanted(h) : h \in Ordinals}
    <3>1. fused /\ <<g, i>> \in Selected => <<g, i>> \in Wanted(g)
      BY <1>5 DEF Wanted
    <3> QED
      BY <1>3, <1>4, <3>1 DEF ErrorsMatch
  <2> QED
    BY <1>1, <1>3, <2>1 DEF ErrorsMatch, input, shared, Broken, Wanted, WorkerCount, Parallel
<1> QED
  BY <1>6, <1>7, <1>8, <1>9, <1>10 DEF IInv

LEMMA EndGroupIInv ==
  ASSUME IInv, NEW l \in All, EndGroup(l)
  PROVE  IInv'
<1> USE DEF At, Goto
<1>1. PICK place \in {"pick", "check"} :
        /\ place = IF l = Caller THEN "pick" ELSE "check"
        /\ pc' = [pc EXCEPT ![l] = place]
  BY DEF EndGroup
<1>2. DEFINE g == group[l]
<1>3. /\ l \in Decoders /\ pc[l] = "decode" /\ record[l] = ArrayCount[g] /\ breaks[g] # record[l]
      /\ kept' = KeepGroup(g) /\ fate' = [fate EXCEPT ![g] = "decoded"]
      /\ UNCHANGED <<input, shared, group, record>>
  BY DEF EndGroup, Decoders, All
<1>4. /\ TypeOK /\ PlacesMatch /\ ErrorsMatch /\ AssembledComplete
      /\ g \in Ordinals /\ ArrayCount[g] \in Nat
      /\ breaks[g] \notin 0 .. record[l] - 1 /\ breaks[g] \in -1 .. ArrayCount[g]
      /\ l # Caller => l \in Lanes /\ pc[Caller] \in {"start", "join", "unwind", "threw"}
      /\ l = Caller => ~Parallel /\ Decoders = {Caller} /\ pc[Caller] = "decode"
  BY <1>3, DecoderFacts
<1>5. ~Broken(g)
  BY <1>3, <1>4 DEF Broken
<1>6. kept \subseteq kept' /\ Wanted(g) \subseteq kept' /\ kept' \subseteq kept \cup Wanted(g)
  <2>1. fused => Selected \cap ({g} \X (0 .. ArrayCount[g] - 1)) \subseteq kept
    BY <1>3 DEF IInv, ClaimsMatch
  <2> QED
    BY <1>3, <2>1 DEF KeepGroup, Wanted, ArraysOf
<1>7. GroupsApart' /\ ClaimsMatch' /\ FatesMatch' /\ Decoders' = Decoders \ {l}
  BY <1>1, <1>3, <1>5, <1>6, LeavesGroup DEF shared
<1>8. TypeOK'
  <2>1. Wanted(g) \subseteq Arrays
    BY <1>4 DEF Wanted, Arrays
  <2>2. kept' \subseteq Arrays
    BY <1>4, <1>6, <2>1 DEF TypeOK
  <2>3. pc' \in [Lanes \cup {Caller} -> Places]
    BY <1>1, <1>4 DEF TypeOK, Places
  <2>4. fate' \in [Ordinals -> {"waiting", "claimed", "decoded", "broken"}]
    BY <1>3, <1>4 DEF TypeOK
  <2> QED
    BY <1>3, <1>4, <2>2, <2>3, <2>4 DEF TypeOK, input, shared
<1>9. /\ \A m \in All : pc'[m] = IF m = l THEN place ELSE pc[m]
      /\ Caller \in All /\ Caller \notin Lanes /\ Lanes \subseteq All
      /\ WorkerCount' = WorkerCount /\ Parallel' = Parallel
      /\ Parallel => WorkerCount \in Lanes
  BY <1>1, <1>3, <1>4, WorkerFacts, ConcurrencyNat DEF TypeOK, All, input, WorkerCount, Parallel
<1>10. PlacesMatch'
  BY <1>1, <1>3, <1>4, <1>9, WorkingPlaces DEF LanePlaces
<1>11. ErrorsMatch'
  <2>1. kept' \subseteq UNION {Wanted(h) : h \in Ordinals}
    BY <1>4, <1>6 DEF ErrorsMatch
  <2>2. \A m \in Lanes : pc'[m] = "done" => failed' \/ nextGroup' >= Groups
    BY <1>1, <1>3, <1>4, <1>9 DEF ErrorsMatch, shared
  <2>3. pc'[Caller] = pc[Caller] \/ (pc'[Caller] = "pick" /\ pc[Caller] = "decode")
    BY <1>1, <1>4, <1>9
  <2>4. Parallel => (pc'[WorkerCount] = "unborn" <=> pc[WorkerCount] = "unborn")
    BY <1>1, <1>3, <1>9
  <2> QED
    BY <1>3, <1>4, <1>9, <2>1, <2>2, <2>3, <2>4 DEF ErrorsMatch, input, shared, Broken, Wanted
<1>12. AssembledComplete'
  BY <1>1, <1>4, <1>9 DEF AssembledComplete
<1> QED
  BY <1>7, <1>8, <1>10, <1>11, <1>12 DEF IInv

\* The caller, alone, meets the record that does not fit: the parse throws.
LEMMA CallerBreaksIInv ==
  ASSUME IInv, Breaks(Caller)
  PROVE  IInv'
<1> USE DEF At, Goto
<1>1. DEFINE g == group[Caller]
<1>2. /\ Caller \in Decoders /\ breaks[g] = record[Caller]
      /\ pc' = [pc EXCEPT ![Caller] = "threw"] /\ firstError' = g
      /\ fate' = [fate EXCEPT ![g] = "broken"]
      /\ UNCHANGED <<input, nextGroup, failed, group, record, kept>>
  BY DEF Breaks, Decoders
<1>3. /\ TypeOK /\ PlacesMatch /\ ErrorsMatch /\ AssembledComplete
      /\ g \in Ordinals /\ g # NoGroup /\ ArrayCount[g] \in Nat
      /\ record[Caller] \in 0 .. ArrayCount[g]
      /\ ~Parallel /\ Decoders = {Caller} /\ pc[Caller] = "decode"
  BY <1>2, DecoderFacts, GroupDecodeAssumption
<1>4. breaks' = breaks /\ breaks[g] # -1
  BY <1>2, <1>3 DEF input
<1>5. GroupsApart' /\ ClaimsMatch' /\ FatesMatch' /\ Decoders' = Decoders \ {Caller}
  BY <1>2, <1>3, LeavesGroup
<1>6. TypeOK'
  <2>1. pc' \in [Lanes \cup {Caller} -> Places]
    BY <1>2, <1>3 DEF TypeOK, Places
  <2>2. fate' \in [Ordinals -> {"waiting", "claimed", "decoded", "broken"}]
    BY <1>2, <1>3 DEF TypeOK
  <2> QED
    BY <1>2, <1>3, <2>1, <2>2 DEF TypeOK, input
<1>7. PlacesMatch'
  BY <1>2, <1>3, WorkingPlaces, WorkerFacts, ConcurrencyNat DEF All
<1>8. pc'[Caller] = "threw" /\ \A m \in Lanes : pc'[m] = pc[m]
  BY <1>2, <1>3, WorkerFacts, ConcurrencyNat DEF TypeOK
<1>9. ErrorsMatch' /\ AssembledComplete'
  BY <1>2, <1>3, <1>4, <1>8 DEF ErrorsMatch, AssembledComplete, Broken, Wanted, input
<1> QED
  BY <1>5, <1>6, <1>7, <1>9 DEF IInv

\* A thread meets the record that does not fit and goes to its handler.
LEMMA LaneBreaksIInv ==
  ASSUME IInv, NEW l \in Lanes, Breaks(l)
  PROVE  IInv'
<1> USE DEF At, Goto
<1>1. /\ l # Caller /\ l \in All /\ Caller \notin Lanes
      /\ concurrency' = concurrency
  BY WorkerFacts, ConcurrencyNat DEF IInv, All, Breaks, input
<1>2. /\ l \in Decoders /\ pc[l] = "decode" /\ breaks[group[l]] = record[l]
      /\ pc' = [pc EXCEPT ![l] = "catch"] /\ UNCHANGED <<input, shared, work>>
  BY <1>1 DEF Breaks, Decoders, All, shared, work
<1>3. /\ TypeOK /\ PlacesMatch /\ ErrorsMatch /\ AssembledComplete
      /\ record[l] \in 0 .. ArrayCount[group[l]] /\ ArrayCount[group[l]] \in Nat
      /\ pc[Caller] \in {"start", "join", "unwind", "threw"}
  BY <1>1, <1>2, DecoderFacts
<1>4. \A m \in All : pc'[m] = IF m = l THEN "catch" ELSE pc[m]
  BY <1>2, <1>3 DEF TypeOK, All
<1>5. Decoders' = Decoders
  BY <1>2, <1>4 DEF Decoders, All
<1>6. TypeOK'
  BY <1>2, <1>3 DEF TypeOK, Places, input, shared, work
<1>7. PlacesMatch'
  BY <1>1, <1>2, WorkingPlaces DEF LanePlaces
<1>8. GroupsApart'
  BY <1>2, <1>4, <1>5 DEF IInv, GroupsApart, Decoders, All, work
<1>9. breaks[group[l]] # -1
  BY <1>2, <1>3
<1>10. ClaimsMatch'
  <2>1. ClaimsMatch
    BY DEF IInv
  <2>2. \A m \in Decoders : pc'[m] = "catch" => Broken(group[m])
    BY <1>4, <1>9, <2>1 DEF ClaimsMatch, Decoders, All, Broken
  <2> QED
    BY <1>2, <1>5, <2>1, <2>2 DEF ClaimsMatch, input, work, Broken
<1>11. FatesMatch'
  BY <1>2, <1>5 DEF IInv, FatesMatch, input, shared, work, Broken, Wanted
<1>12. pc'[Caller] = pc[Caller] /\ \A m \in Lanes : pc'[m] = pc[m] \/ (pc[m] = "decode" /\ pc'[m] = "catch")
  BY <1>1, <1>2, <1>4 DEF All
<1>13. Parallel => (pc'[WorkerCount] = "unborn" <=> pc[WorkerCount] = "unborn")
  BY <1>3, <1>12, WorkerFacts, ConcurrencyNat
<1>14. ErrorsMatch'
  BY <1>2, <1>3, <1>12, <1>13
  DEF ErrorsMatch, input, shared, work, Broken, Wanted, WorkerCount, Parallel
<1>15. AssembledComplete'
  BY <1>3, <1>12 DEF AssembledComplete
<1> QED
  BY <1>6, <1>7, <1>8, <1>10, <1>11, <1>14, <1>15 DEF IInv

\* The handler: an error is kept, and failed tells the others.
LEMMA CatchIInv ==
  ASSUME IInv, NEW l \in Lanes, Catch(l)
  PROVE  IInv'
<1> USE DEF At, Goto
<1>1. /\ l # Caller /\ l \in All /\ Caller \notin Lanes
  BY WorkerFacts, ConcurrencyNat DEF IInv, All
<1>2. DEFINE g == group[l]
<1>3. /\ l \in Decoders /\ pc[l] = "catch" /\ pc' = [pc EXCEPT ![l] = "done"]
      /\ fate' = [fate EXCEPT ![g] = "broken"] /\ failed' = TRUE
      /\ firstError' = IF firstError = NoGroup THEN g ELSE firstError
      /\ UNCHANGED <<input, nextGroup, group, record, kept>>
  BY <1>1 DEF Catch, Decoders, All, FirstOf
<1>4. /\ TypeOK /\ PlacesMatch /\ ErrorsMatch /\ AssembledComplete
      /\ g \in Ordinals /\ g # NoGroup
      /\ pc[Caller] \in {"start", "join", "unwind", "threw"}
  BY <1>1, <1>3, DecoderFacts, GroupDecodeAssumption
<1>5. Broken(g)
  BY <1>3 DEF IInv, ClaimsMatch
<1>6. firstError' # NoGroup /\ firstError' \in Ordinals \cup {NoGroup} /\ Broken(firstError')
  BY <1>3, <1>4, <1>5 DEF ErrorsMatch, TypeOK
<1>7. GroupsApart' /\ ClaimsMatch' /\ FatesMatch' /\ Decoders' = Decoders \ {l}
  BY <1>3, <1>4, <1>6, LeavesGroup
<1>8. TypeOK'
  <2>1. pc' \in [Lanes \cup {Caller} -> Places]
    BY <1>3, <1>4 DEF TypeOK, Places
  <2>2. fate' \in [Ordinals -> {"waiting", "claimed", "decoded", "broken"}]
    BY <1>3, <1>4 DEF TypeOK
  <2> QED
    BY <1>3, <1>4, <1>6, <2>1, <2>2 DEF TypeOK, input
<1>9. PlacesMatch'
  BY <1>1, <1>3, WorkingPlaces DEF LanePlaces
<1>10. pc'[Caller] = pc[Caller]
  BY <1>1, <1>3, <1>4 DEF TypeOK
<1>11. ErrorsMatch' /\ AssembledComplete'
  BY <1>3, <1>4, <1>6, <1>10 DEF ErrorsMatch, AssembledComplete, input, Broken, Wanted
<1> QED
  BY <1>7, <1>8, <1>9, <1>11 DEF IInv

LEMMA NextIInv == IInv /\ [Next]_vars => IInv'
<1> SUFFICES ASSUME IInv, [Next]_vars PROVE IInv'
  OBVIOUS
<1> USE DEF All
<1>1. CASE UNCHANGED vars
  BY <1>1 DEF vars, IInv, TypeOK, PlacesMatch, GroupsApart, ClaimsMatch, FatesMatch, ErrorsMatch,
              AssembledComplete, Decoders, WorkerCount, Workers, Parallel, At, Broken, Wanted
<1>2. CASE \/ \E l \in Lanes : Start(l)
           \/ StartFails \/ Unwound \/ Join \/ Assemble
  BY <1>2, CallerIInv
<1>3. CASE Pick
  BY <1>3, PickIInv
<1>4. CASE Decode(Caller)
  BY <1>4, DecodeArrayIInv, EndGroupIInv, CallerBreaksIInv DEF Decode
<1>5. CASE \E l \in Lanes : LaneStep(l)
  <2>1. PICK l \in Lanes : LaneStep(l)
    BY <1>5
  <2> QED
    BY <2>1, CheckClaimIInv, DecodeArrayIInv, EndGroupIInv, LaneBreaksIInv, CatchIInv
    DEF LaneStep, Decode
<1> QED
  BY <1>1, <1>2, <1>3, <1>4, <1>5 DEF Next, CallerStep, Terminated

\* IInv holds in every state of every execution.
THEOREM InductiveInvariant == Spec => []IInv
  BY InitIInv, NextIInv, PTL DEF Spec

\* The variables keep their types.
THEOREM TypeCorrect == Spec => []TypeOK
<1>1. IInv => TypeOK
  BY DEF IInv
<1> QED
  BY <1>1, InductiveInvariant, PTL

\* No two threads decode one group: the unlocked writes are apart.
THEOREM ThreadsApart == Spec => []GroupsApart
<1>1. IInv => GroupsApart
  BY DEF IInv
<1> QED
  BY <1>1, InductiveInvariant, PTL

\* Whether the parse returns, and what it then holds, depends on the file
\* alone, for any number of threads and any interleaving of them.
THEOREM OutcomeIsDetermined == Spec => []OutcomeIsOfTheFile
<1>1. ASSUME IInv PROVE OutcomeIsOfTheFile
  <2> USE DEF At
  <2>1. ASSUME pc[Caller] = "returned"
        PROVE  /\ \A g \in Ordinals : ~Broken(g)
               /\ kept = UNION {Wanted(g) : g \in Ordinals}
    <3>1. /\ nextGroup >= Groups /\ Decoders = {} /\ firstError = NoGroup
          /\ kept \subseteq UNION {Wanted(g) : g \in Ordinals}
      BY <1>1, <2>1 DEF IInv, AssembledComplete, ErrorsMatch
    <3>2. ASSUME NEW g \in Ordinals
          PROVE  fate[g] = "decoded"
      <4>1. fate[g] \in {"waiting", "claimed", "decoded", "broken"}
        BY <1>1 DEF IInv, TypeOK
      <4>2. ~(g >= nextGroup)
        BY <1>1, <3>1, GroupDecodeAssumption DEF IInv, TypeOK, Ordinals
      <4> QED
        BY <1>1, <3>1, <4>1, <4>2 DEF IInv, FatesMatch
    <3> QED
      BY <1>1, <3>1, <3>2 DEF IInv, FatesMatch
  <2>2. ASSUME pc[Caller] = "threw", \A l \in Workers : Parallel => pc[l] # "unborn"
        PROVE  firstError # NoGroup /\ Broken(firstError)
    BY <1>1, <2>2, WorkerFacts, ConcurrencyNat DEF IInv, ErrorsMatch
  <2> QED
    BY <2>1, <2>2 DEF OutcomeIsOfTheFile
<1> QED
  BY <1>1, InductiveInvariant, PTL

\* When the caller assembles its result every slot the curves refer to is loaded.
LEMMA AllLoaded ==
  ASSUME IInv, Assemble, fused
  PROVE  Selected \subseteq kept
<1>1. nextGroup >= Groups /\ Decoders = {} /\ firstError = NoGroup
  BY DEF IInv, AssembledComplete, ErrorsMatch, Assemble, At
<1>2. ASSUME NEW a \in Selected
      PROVE  a \in kept
  <2>1. PICK g \in Ordinals : a \in ArraysOf(g)
    BY <1>2, GroupDecodeAssumption DEF Arrays
  <2>2. fate[g] \in {"waiting", "claimed", "decoded", "broken"}
    BY DEF IInv, TypeOK
  <2>3. ~(g >= nextGroup)
    BY <1>1, GroupDecodeAssumption DEF IInv, TypeOK, Ordinals
  <2>4. fate[g] = "decoded"
    BY <1>1, <2>2, <2>3 DEF IInv, FatesMatch
  <2> QED
    BY <2>1, <2>4 DEF IInv, FatesMatch, Wanted
<1> QED
  BY <1>2

\* The fused reader's look for slots that were not loaded finds none.
THEOREM EverySlotLoaded == Spec => []NothingUndecoded
<1> USE DEF At, Goto
<1>1. Init => NothingUndecoded
  BY DEF Init, NothingUndecoded, Lanes, Caller
<1>2. ASSUME IInv, NothingUndecoded, [Next]_vars
      PROVE  NothingUndecoded'
  <2>1. TypeOK /\ Caller \notin Lanes
    BY <1>2, WorkerFacts, ConcurrencyNat DEF IInv
  <2>2. CASE \E l \in Lanes : Start(l) \/ LaneStep(l)
    BY <1>2, <2>1, <2>2 DEF NothingUndecoded, TypeOK, Start, LaneStep, Check, Claim, Decode,
                             DecodeArray, EndGroup, Breaks, Catch
  <2>3. CASE Assemble
    BY <1>2, <2>1, <2>3, AllLoaded DEF NothingUndecoded, TypeOK, Assemble
  <2>4. CASE StartFails \/ Unwound \/ Join \/ Pick \/ Decode(Caller)
    BY <1>2, <2>1, <2>4 DEF NothingUndecoded, TypeOK, StartFails, Unwound, Join, Pick, Decode,
                             DecodeArray, EndGroup, Breaks
  <2>5. CASE UNCHANGED vars
    BY <1>2, <2>5 DEF NothingUndecoded, vars
  <2> QED
    BY <1>2, <2>2, <2>3, <2>4, <2>5 DEF Next, CallerStep, Terminated
<1> QED
  BY <1>1, <1>2, InductiveInvariant, PTL DEF Spec

\* From the join to the end no thread of the call runs.
NoneRuns ==
  pc[Caller] \in {"assemble", "returned", "threw", "undecoded"} => \A l \in Lanes : ~Busy(l)

\* A thread only runs while the call that owns its locals has not left.
THEOREM LocalsOutliveThreads == Spec => []NoThreadOutlives
<1> USE DEF At, Goto
<1>1. Init => NoneRuns
  BY DEF Init, NoneRuns, Lanes, Caller
<1>2. ASSUME IInv, NoneRuns, [Next]_vars
      PROVE  NoneRuns'
  <2>1. TypeOK /\ PlacesMatch /\ Caller \notin Lanes
    BY <1>2, WorkerFacts, ConcurrencyNat DEF IInv
  <2>2. CASE \E l \in Lanes : Start(l)
    BY <1>2, <2>1, <2>2 DEF NoneRuns, TypeOK, Start
  <2>3. CASE \E l \in Lanes : LaneStep(l)
    BY <1>2, <2>1, <2>3 DEF NoneRuns, Busy, TypeOK, LaneStep, Check, Claim, Decode,
                             DecodeArray, EndGroup, Breaks, Catch
  <2>4. CASE StartFails
    BY <1>2, <2>1, <2>4 DEF NoneRuns, TypeOK, StartFails
  <2>5. CASE Unwound \/ Join \/ Assemble
    BY <1>2, <2>1, <2>5 DEF NoneRuns, TypeOK, Unwound, Join, Joined, Busy, Assemble
  <2>6. CASE Pick \/ Decode(Caller)
    BY <1>2, <2>1, <2>6 DEF NoneRuns, TypeOK, PlacesMatch, Busy, Decode, DecodeArray,
                             EndGroup, Breaks, Pick
  <2>7. CASE UNCHANGED vars
    BY <1>2, <2>7 DEF NoneRuns, vars, Busy
  <2> QED
    BY <1>2, <2>2, <2>3, <2>4, <2>5, <2>6, <2>7 DEF Next, CallerStep, Terminated
<1>3. NoneRuns => NoThreadOutlives
  BY DEF NoneRuns, NoThreadOutlives
<1> QED
  BY <1>1, <1>2, <1>3, InductiveInvariant, PTL DEF Spec

\* An error that is kept is never replaced.
THEOREM FirstErrorIsKept == Spec => FirstErrorStays
<1>1. ASSUME IInv, [Next]_vars, firstError # NoGroup PROVE firstError' = firstError
  <2>1. CASE \E l \in Lanes : Start(l) \/ LaneStep(l)
    BY <1>1, <2>1, WorkerFacts, ConcurrencyNat
    DEF IInv, shared, Start, LaneStep, Check, Claim, Decode, DecodeArray, EndGroup, Breaks,
        Catch, FirstOf
  <2>2. CASE StartFails \/ Unwound \/ Join \/ Assemble \/ Pick
    BY <1>1, <2>2 DEF shared, StartFails, Unwound, Join, Assemble, Pick
  <2>3. CASE Decode(Caller)
    <3>1. pc[Caller] # "decode"
      BY <1>1 DEF IInv, ErrorsMatch
    <3> QED
      BY <2>3, <3>1 DEF Decode, DecodeArray, EndGroup, Breaks, At
  <2>4. CASE UNCHANGED vars
    BY <2>4 DEF vars
  <2> QED
    BY <1>1, <2>1, <2>2, <2>3, <2>4 DEF Next, CallerStep, Terminated
<1> QED
  BY <1>1, InductiveInvariant, PTL DEF Spec, FirstErrorStays

=============================================================================
