------------------------ MODULE StrandRuntimeProofs ------------------------
(***************************************************************************)
(* The strands of StrandRuntime are rewritten once and compacted in order,  *)
(* for any number of strands and tasks the counter has room for.            *)
(***************************************************************************)
EXTENDS StrandRuntime, FiniteSetTheorems, TLAPS

All == Lanes \cup {Caller}

\* There are tasks, at most as many as lanes.
LEMMA TaskFacts ==
  ASSUME count \in 0 .. MaxStrands, capacity \in 1 .. MaxCapacity
  PROVE  /\ TaskCount \in Nat /\ 1 <= TaskCount /\ TaskCount <= MaxCapacity
         /\ Tasks \subseteq Lanes /\ Caller \notin Lanes /\ 1 \in Tasks
         /\ Parallel => count > 0
         /\ count \in Nat
<1>1. /\ StrandsPerTask \in Nat /\ StrandsPerTask > 0 /\ MaxCapacity \in Nat /\ MaxStrands \in Nat
      /\ capacity \in Nat /\ count \in Nat
  BY StrandRuntimeAssumption
<1>2. DEFINE useful == (count + StrandsPerTask - 1) \div StrandsPerTask
<1>3. useful \in Nat
  BY <1>1
<1>4. count = 0 => useful = 0
  BY <1>1
<1> HIDE DEF useful
<1>5. UsefulTasks = Greatest(1, useful)
  BY DEF UsefulTasks, useful
<1> QED
  BY <1>1, <1>3, <1>4, <1>5 DEF TaskCount, Greatest, Least, Tasks, Lanes, Caller, Parallel

\* The tasks that are over are counted.
LEMMA OverFacts ==
  ASSUME TypeOK
  PROVE  /\ IsFiniteSet(Tasks) /\ Cardinality(Tasks) = TaskCount
         /\ IsFiniteSet(Over) /\ Cardinality(Over) \in Nat
         /\ Over # Tasks => Cardinality(Over) + 1 <= TaskCount
<1>1. TaskCount \in Nat
  BY TaskFacts DEF TypeOK
<1>2. IsFiniteSet(Tasks) /\ Cardinality(Tasks) = TaskCount
  BY <1>1, FS_Interval DEF Tasks
<1>3. Over \subseteq Tasks
  BY DEF Over
<1>4. IsFiniteSet(Over) /\ Cardinality(Over) \in Nat
  BY <1>2, <1>3, FS_Subset, FS_CardinalityType
<1>5. Cardinality(Over) <= Cardinality(Tasks) /\ (Cardinality(Tasks) = Cardinality(Over) => Tasks = Over)
  BY <1>2, <1>3, FS_Subset
<1> QED
  BY <1>1, <1>2, <1>4, <1>5

LEMMA InitIInv == Init => IInv
<1> SUFFICES ASSUME Init PROVE IInv
  OBVIOUS
<1> USE DEF At
<1>1. /\ TaskCount \in Nat /\ 1 <= TaskCount /\ Tasks \subseteq Lanes /\ Caller \notin Lanes
      /\ 1 \in Tasks /\ count \in 0 .. MaxStrands /\ MaxStrands \in Nat
      /\ capacity \in 1 .. MaxCapacity /\ Parallel => count > 0
  BY TaskFacts, StrandRuntimeAssumption DEF Init
<1>2. /\ \A l \in Lanes : pc[l] = IF Parallel /\ l \in Tasks THEN "queued" ELSE "unused"
      /\ pc[Caller] = IF Parallel THEN "wait" ELSE "apply"
      /\ \A l \in All : at[l] = 0
      /\ stop[Caller] = IF ~Parallel THEN count ELSE 0
      /\ \A s \in Strands : applied[s] = 0
      /\ \A s \in Strands : slots[s] = s
      /\ counter = 0 /\ read = 0 /\ write = 0
  BY <1>1 DEF Init, All
<1>3. TypeOK
  <2>1. pc \in [Lanes \cup {Caller} -> LanePlaces \cup CallerPlaces]
    BY DEF Init, LanePlaces, CallerPlaces
  <2>2. at \in [Lanes \cup {Caller} -> 0 .. count] /\ stop \in [Lanes \cup {Caller} -> 0 .. count]
    BY <1>1 DEF Init
  <2>3. applied \in [Strands -> 0 .. 2] /\ keep \in [Strands -> BOOLEAN] /\ slots \in [Strands -> Strands]
    BY DEF Init
  <2>4. counter \in 0 .. Modulus - 1
    <3>1. MaxCapacity * ChunkSize \in Nat /\ MaxCapacity * ChunkSize > 0 /\ Modulus \in Nat
      BY StrandRuntimeAssumption
    <3> QED
      BY <1>1, <1>2, <3>1, StrandRuntimeAssumption
  <2> QED
    BY <1>1, <1>2, <2>1, <2>2, <2>3, <2>4 DEF TypeOK, Init
<1>4. PlacesMatch
  BY <1>1, <1>2 DEF PlacesMatch, LanePlaces, CallerPlaces
<1>5. Over = {}
  BY <1>1, <1>2 DEF Over
<1>6. CounterFits
  <2>1. Cardinality(Over) = 0
    BY <1>5, FS_EmptySet
  <2>2. counter <= count - 1 + (Cardinality(Over) + 1) * ChunkSize
    BY <1>1, <1>2, <2>1, StrandRuntimeAssumption
  <2> QED
    BY <1>1, <1>2, <1>5, <2>2 DEF CounterFits
<1>7. RangesApart /\ ClaimsCover
  BY <1>1, <1>2, <1>5 DEF RangesApart, ClaimsCover, All, Strands
<1>8. OutcomesMatch /\ PackedSoFar
  BY <1>1, <1>2 DEF OutcomesMatch, PackedSoFar, Strands, All
<1> QED
  BY <1>3, <1>4, <1>6, <1>7, <1>8 DEF IInv

LEMMA Monotone ==
  ASSUME NEW a \in Nat, NEW b \in Nat, NEW c \in Nat, a <= b
  PROVE  a * c <= b * c /\ a * c \in Nat /\ (a + 1) * c = a * c + c
<1>1. PICK d \in Nat : b = a + d
  <2>1. b - a \in Nat /\ b = a + (b - a)
    OBVIOUS
  <2> QED
    BY <2>1
<1>2. b * c = a * c + d * c /\ d * c \in Nat /\ a * c \in Nat
  BY <1>1
<1>3. (a + 1) * c = a * c + c
  OBVIOUS
<1> QED
  BY <1>2, <1>3

\* Below the modulus a number is its own remainder.
LEMMA SmallWrap == ASSUME NEW n \in 0 .. Modulus - 1 PROVE Wrap(n) = n
  BY StrandRuntimeAssumption DEF Wrap

LEMMA WrapType == ASSUME NEW n \in Nat, Modulus > 0 PROVE Wrap(n) \in 0 .. Modulus - 1
  BY StrandRuntimeAssumption DEF Wrap

\* What the counter is when a task claims.
LEMMA ClaimFacts ==
  ASSUME IInv, NEW l \in Tasks, At(l, "claim")
  PROVE  /\ Modulus > 0
         /\ counter < count =>
              /\ Advance(counter) = counter + ChunkSize
              /\ RangeEnd(counter) = Least(counter + ChunkSize, count)
         /\ counter >= count /\ Over \cup {l} # Tasks =>
              /\ Advance(counter) = counter + ChunkSize
              /\ counter + ChunkSize <= count - 1 + (Cardinality(Over) + 2) * ChunkSize
<1>1. TypeOK /\ CounterFits /\ l \notin Over /\ Over # Tasks
  BY DEF IInv, Over, At
<1>2. /\ TaskCount \in Nat /\ TaskCount <= MaxCapacity /\ 1 <= TaskCount
      /\ count \in Nat /\ count <= MaxStrands /\ MaxStrands \in Nat
      /\ counter \in Nat /\ ChunkSize \in Nat /\ ChunkSize > 0 /\ Modulus \in Nat
      /\ MaxCapacity \in Nat
  BY <1>1, TaskFacts, StrandRuntimeAssumption DEF TypeOK
<1>3. /\ IsFiniteSet(Over) /\ Cardinality(Over) \in Nat /\ Cardinality(Over) + 1 <= TaskCount
  BY <1>1, OverFacts
<1>4. ChunkSize <= MaxCapacity * ChunkSize /\ MaxCapacity * ChunkSize \in Nat
      /\ MaxStrands + MaxCapacity * ChunkSize <= Modulus
  <2>1. 1 * ChunkSize <= MaxCapacity * ChunkSize
    BY <1>2, Monotone
  <2>2. 1 * ChunkSize = ChunkSize /\ MaxCapacity * ChunkSize \in Nat
    BY <1>2
  <2> QED
    BY <2>1, <2>2, StrandRuntimeAssumption
<1>5. Modulus > 0
  BY <1>2, <1>4
<1>6. counter < count => counter + ChunkSize \in 0 .. Modulus - 1
  BY <1>2, <1>4
<1>7. ASSUME counter >= count, Over \cup {l} # Tasks
      PROVE  /\ counter + ChunkSize <= count - 1 + (Cardinality(Over) + 2) * ChunkSize
             /\ counter + ChunkSize \in 0 .. Modulus - 1
  <2>1. counter <= count - 1 + (Cardinality(Over) + 1) * ChunkSize
    BY <1>1 DEF CounterFits
  <2>2. /\ (Cardinality(Over) + 2) * ChunkSize = (Cardinality(Over) + 1) * ChunkSize + ChunkSize
        /\ (Cardinality(Over) + 1) * ChunkSize \in Nat
    <3> DEFINE k == Cardinality(Over) + 1
    <3>1. k \in Nat /\ k + 1 = Cardinality(Over) + 2
      BY <1>3
    <3> HIDE DEF k
    <3>2. (k + 1) * ChunkSize = k * ChunkSize + ChunkSize /\ k * ChunkSize \in Nat
      BY <1>2, <3>1, Monotone
    <3> QED
      BY <3>1, <3>2 DEF k
  <2>3. Cardinality(Over) + 2 <= TaskCount
    <3>1. Cardinality(Over \cup {l}) = Cardinality(Over) + 1 /\ IsFiniteSet(Over \cup {l})
      BY <1>1, <1>3, FS_AddElement
    <3>2. Over \cup {l} \in SUBSET Tasks
      BY DEF Over
    <3>3. /\ Cardinality(Over \cup {l}) <= Cardinality(Tasks)
          /\ Cardinality(Tasks) = Cardinality(Over \cup {l}) => Tasks = Over \cup {l}
          /\ Cardinality(Tasks) = TaskCount
      BY <1>1, <3>2, OverFacts, FS_Subset
    <3> QED
      BY <1>2, <1>3, <1>7, <3>1, <3>3
  <2>4. (Cardinality(Over) + 2) * ChunkSize <= MaxCapacity * ChunkSize
    <3>1. Cardinality(Over) + 2 \in Nat /\ Cardinality(Over) + 2 <= MaxCapacity
      BY <1>2, <1>3, <2>3
    <3> QED
      BY <1>2, <3>1, Monotone
  <2>5. (Cardinality(Over) + 2) * ChunkSize \in Nat
    BY <1>2, <2>2
  <2> QED
    BY <1>2, <1>4, <2>1, <2>2, <2>4, <2>5
<1> QED
  BY <1>5, <1>6, <1>7, SmallWrap DEF Advance, RangeEnd

\* Steps that begin or end tasks and ranges and change no strand.
LEMMA Quiet ==
  ASSUME IInv, UNCHANGED <<input, counter, at, stop, strands>>,
         \A l \in All : pc'[l] = "apply" => pc[l] = "apply",
         \A l \in All : pc[l] = "apply" /\ pc'[l] # "apply" => ~(at[l] < stop[l]),
         \A l \in Lanes : pc'[l] = "threw" <=> pc[l] = "threw",
         \A l \in Lanes : pc'[l] = "done" <=> pc[l] = "done"
  PROVE  CounterFits' /\ RangesApart' /\ ClaimsCover'
<1> USE DEF At
<1>1. TypeOK /\ CounterFits /\ RangesApart /\ ClaimsCover
  BY DEF IInv
<1>2. /\ Strands' = Strands /\ TaskCount' = TaskCount /\ Tasks' = Tasks /\ Parallel' = Parallel
      /\ count' = count /\ applied' = applied /\ at' = at /\ stop' = stop /\ counter' = counter
  BY DEF input, strands, Strands, TaskCount, Tasks, Parallel, UsefulTasks
<1>3. Over' = Over
  BY <1>1, <1>2, TaskFacts DEF Over, TypeOK
<1>4. CounterFits'
  BY <1>1, <1>2, <1>3, TaskFacts DEF CounterFits, TypeOK, All
<1>5. RangesApart'
  BY <1>1, <1>2 DEF RangesApart, Holds, All
<1>6. ClaimsCover'
  <2>1. ASSUME NEW s \in Strands, Held(s) PROVE Held(s)'
    <3>1. PICK l \in Lanes : pc[l] \in {"apply", "threw"} /\ Holds(l, s)
      BY <2>1 DEF Held
    <3>2. at[l] \in Int /\ stop[l] \in Int /\ s \in Int
      BY <1>1, TaskFacts DEF TypeOK, Strands
    <3>3. at[l] < stop[l]
      BY <3>1, <3>2 DEF Holds
    <3>4. pc'[l] \in {"apply", "threw"}
      BY <3>1, <3>3 DEF All
    <3> QED
      BY <1>2, <3>1, <3>4 DEF Held, Holds
  <2>2. \A s \in Strands : s < counter \/ Over # {} => applied[s] = 1 \/ Held(s)'
    BY <1>1, <2>1 DEF ClaimsCover
  <2> QED
    BY <1>1, <1>2, <1>3, <2>2 DEF ClaimsCover, Holds, All
<1> QED
  BY <1>4, <1>5, <1>6

\* A task begins, or is through with its range.
LEMMA LaneGoesIInv ==
  ASSUME IInv, NEW l \in Lanes, Begin(l) \/ EndRange(l)
  PROVE  IInv'
<1> USE DEF At, Goto
<1>1. /\ TypeOK /\ PlacesMatch /\ OutcomesMatch /\ PackedSoFar
      /\ l \in All /\ l # Caller /\ Caller \in All /\ Lanes \subseteq All
  BY TaskFacts DEF IInv, TypeOK, All
<1>2. /\ pc[l] \in {"queued", "apply"} /\ pc' = [pc EXCEPT ![l] = "claim"]
      /\ pc[l] = "apply" => ~(at[l] < stop[l])
      /\ UNCHANGED <<input, counter, at, stop, strands, packing>>
  BY <1>1 DEF Begin, EndRange
<1>3. \A m \in All : pc'[m] = IF m = l THEN "claim" ELSE pc[m]
  BY <1>1, <1>2 DEF TypeOK, All
<1>4. CounterFits' /\ RangesApart' /\ ClaimsCover'
  BY <1>1, <1>2, <1>3, Quiet
<1>5. /\ Strands' = Strands /\ TaskCount' = TaskCount /\ Tasks' = Tasks /\ Parallel' = Parallel
      /\ count' = count
  BY <1>2 DEF input, Strands, TaskCount, Tasks, Parallel, UsefulTasks
<1>6. TypeOK'
  <2>1. pc' \in [Lanes \cup {Caller} -> LanePlaces \cup CallerPlaces]
    BY <1>1, <1>2 DEF TypeOK, LanePlaces
  <2> QED
    BY <1>1, <1>2, <1>5, <2>1 DEF TypeOK, input, strands, packing
<1>7. PlacesMatch'
  <2>1. pc[l] # "unused" /\ pc[l] # "done" /\ pc'[Caller] = pc[Caller]
    BY <1>1, <1>2, <1>3
  <2> QED
    BY <1>1, <1>2, <1>3, <1>5, <2>1, TaskFacts DEF PlacesMatch, LanePlaces, TypeOK
<1>8. OutcomesMatch'
  BY <1>1, <1>2, <1>3, <1>5 DEF OutcomesMatch, input, strands, All
<1>9. PackedSoFar'
  BY <1>1, <1>2, <1>3, <1>5 DEF PackedSoFar, input, strands, packing
<1> QED
  BY <1>4, <1>6, <1>7, <1>8, <1>9 DEF IInv

\* A task claims a chunk or sees the end.
LEMMA ClaimIInv ==
  ASSUME IInv, NEW l \in Lanes, Claim(l)
  PROVE  IInv'
<1> USE DEF At, Goto
<1>1. /\ TypeOK /\ PlacesMatch /\ OutcomesMatch /\ PackedSoFar /\ CounterFits /\ RangesApart
      /\ ClaimsCover /\ l \in All /\ l # Caller /\ Caller \in All /\ Lanes \subseteq All
  BY TaskFacts DEF IInv, TypeOK, All
<1>2. /\ pc[l] = "claim" /\ l \in Tasks /\ Parallel /\ Tasks \subseteq Lanes
  BY <1>1, TaskFacts DEF Claim, PlacesMatch, TypeOK
<1>3. /\ UNCHANGED <<input, strands, packing>> /\ counter' = Advance(counter)
      /\ Strands' = Strands /\ TaskCount' = TaskCount /\ Tasks' = Tasks /\ Parallel' = Parallel
      /\ count' = count /\ applied' = applied /\ outcome' = outcome /\ keep' = keep
  BY DEF Claim, input, strands, Strands, TaskCount, Tasks, Parallel, UsefulTasks
<1>4. /\ count \in Nat /\ counter \in Nat /\ ChunkSize \in Nat /\ ChunkSize > 0
      /\ \A s \in Strands : s \in Nat /\ s < count
      /\ \A m \in All : at[m] \in Nat /\ stop[m] \in Nat
  BY <1>1, StrandRuntimeAssumption DEF TypeOK, Strands, All
<1>5. l \notin Over /\ Over # Tasks
  BY <1>2 DEF Over
<1>6. counter' \in 0 .. Modulus - 1
  <2>1. counter + ChunkSize \in Nat /\ Modulus > 0
    BY <1>2, <1>4, ClaimFacts
  <2> QED
    BY <1>3, <2>1, WrapType DEF Advance
<1>7. PackedSoFar'
  <2>1. pc'[Caller] = pc[Caller]
    BY <1>1 DEF Claim, TypeOK
  <2> QED
    BY <1>1, <1>3, <2>1 DEF PackedSoFar, packing
<1>8. CASE counter < count
  <2>1. /\ counter' = counter + ChunkSize /\ RangeEnd(counter) = Least(counter + ChunkSize, count)
    BY <1>2, <1>3, <1>8, ClaimFacts
  <2>2. PICK e \in Nat : e = RangeEnd(counter) /\ e <= count /\ counter < e /\ e <= counter'
                         /\ \A s \in Strands : s < counter' => s < e
    BY <1>4, <1>8, <2>1 DEF Least
  <2>3. /\ pc' = [pc EXCEPT ![l] = "apply"] /\ at' = [at EXCEPT ![l] = counter]
        /\ stop' = [stop EXCEPT ![l] = e]
    BY <1>8, <2>2 DEF Claim
  <2>4. /\ \A m \in All : pc'[m] = IF m = l THEN "apply" ELSE pc[m]
        /\ \A m \in All : at'[m] = IF m = l THEN counter ELSE at[m]
        /\ \A m \in All : stop'[m] = IF m = l THEN e ELSE stop[m]
    BY <1>1, <2>3 DEF TypeOK, All
  <2>5. Over' = Over
    BY <1>1, <1>2, <1>3, <2>4 DEF Over
  <2>6. TypeOK'
    <3>1. pc' \in [Lanes \cup {Caller} -> LanePlaces \cup CallerPlaces]
      BY <1>1, <2>3 DEF TypeOK, LanePlaces
    <3>2. at' \in [Lanes \cup {Caller} -> 0 .. count] /\ stop' \in [Lanes \cup {Caller} -> 0 .. count]
      BY <1>1, <1>4, <1>8, <2>2, <2>3 DEF TypeOK
    <3> QED
      BY <1>1, <1>3, <1>6, <3>1, <3>2 DEF TypeOK, input, strands, packing
  <2>7. PlacesMatch'
    BY <1>1, <1>2, <1>3, <2>4 DEF PlacesMatch, LanePlaces
  <2>8. Over = {}
    BY <1>1, <1>5, <1>4, <1>8 DEF CounterFits
  <2>9. CounterFits'
    <3>1. Cardinality(Over) = 0
      BY <2>8, FS_EmptySet
    <3>2. counter' <= count - 1 + (Cardinality(Over') + 1) * ChunkSize
      BY <1>4, <1>8, <2>1, <2>5, <3>1
    <3>3. \A m \in Tasks : pc'[m] = "apply" => stop'[m] <= counter'
      BY <1>1, <1>2, <1>4, <1>5, <2>1, <2>2, <2>4 DEF CounterFits
    <3>4. \A s \in Strands : s >= counter' => applied[s] = 0
      BY <1>1, <1>2, <1>4, <1>5, <2>1 DEF CounterFits
    <3> QED
      BY <1>3, <2>5, <2>8, <3>2, <3>3, <3>4 DEF CounterFits
  <2>10. ASSUME NEW m \in All, m # l, pc[m] = "apply", NEW s \in Strands, Holds(m, s)
         PROVE  ~(counter <= s)
    <3>1. m \in Tasks
      BY <1>1, <1>2, <2>10 DEF PlacesMatch, All
    <3>2. stop[m] <= counter
      BY <1>1, <1>5, <2>10, <3>1 DEF CounterFits
    <3> QED
      BY <1>4, <2>10, <3>2 DEF Holds
  <2>11. RangesApart'
    <3>1. \A m \in All, s \in Strands : m # l => (Holds(m, s)' <=> Holds(m, s))
      BY <2>4 DEF Holds
    <3>2. \A s \in Strands : Holds(l, s)' => counter <= s
      BY <1>1, <2>4 DEF Holds
    <3>3. ASSUME NEW m \in All, NEW n \in All, m # n, pc'[m] = "apply", pc'[n] = "apply",
                 NEW s \in Strands
          PROVE  ~(Holds(m, s)' /\ Holds(n, s)')
      <4>1. CASE m = l
        BY <2>4, <2>10, <3>1, <3>2, <3>3, <4>1
      <4>2. CASE n = l
        BY <2>4, <2>10, <3>1, <3>2, <3>3, <4>2
      <4>3. CASE m # l /\ n # l
        BY <1>1, <2>4, <3>1, <3>3, <4>3 DEF RangesApart, All
      <4> QED
        BY <4>1, <4>2, <4>3
    <3> QED
      BY <1>3, <3>3 DEF RangesApart, All
  <2>12. ClaimsCover'
    <3>1. ASSUME NEW s \in Strands, s < counter'
          PROVE  applied[s] = 1 \/ Held(s)'
      <4>1. CASE s < counter
        <5>1. applied[s] = 1 \/ Held(s)
          BY <1>1, <4>1 DEF ClaimsCover
        <5>2. ASSUME Held(s) PROVE Held(s)'
          <6>1. PICK m \in Lanes : pc[m] \in {"apply", "threw"} /\ Holds(m, s)
            BY <5>2 DEF Held
          <6>2. m # l /\ m \in All
            BY <1>1, <1>2, <6>1
          <6> QED
            BY <2>4, <6>1, <6>2 DEF Held, Holds
        <5> QED
          BY <5>1, <5>2
      <4>2. CASE counter <= s
        BY <1>1, <2>2, <2>4, <3>1, <4>2 DEF Held, Holds
      <4> QED
        BY <1>4, <4>1, <4>2
    <3>2. ASSUME NEW m \in All, pc'[m] = "apply", NEW s \in Strands, Holds(m, s)'
          PROVE  applied[s] = 0
      <4>1. CASE m = l
        <5>1. s >= counter
          BY <1>1, <1>4, <2>4, <3>2, <4>1 DEF Holds
        <5> QED
          BY <1>1, <1>2, <1>5, <5>1 DEF CounterFits
      <4>2. CASE m # l
        BY <1>1, <2>4, <3>2, <4>2 DEF ClaimsCover, Holds, All
      <4> QED
        BY <4>1, <4>2
    <3> QED
      BY <1>1, <1>2, <1>3, <2>5, <2>8, <3>1, <3>2 DEF ClaimsCover, All
  <2>13. OutcomesMatch'
    BY <1>1, <1>2, <1>3, <2>4 DEF OutcomesMatch, All
  <2> QED
    BY <1>7, <2>6, <2>7, <2>9, <2>11, <2>12, <2>13 DEF IInv
<1>9. CASE ~(counter < count)
  <2>1. pc' = [pc EXCEPT ![l] = "done"] /\ at' = at /\ stop' = stop
    BY <1>9 DEF Claim
  <2>2. \A m \in All : pc'[m] = IF m = l THEN "done" ELSE pc[m]
    BY <1>1, <2>1 DEF TypeOK, All
  <2>3. Over' = Over \cup {l}
    BY <1>1, <1>2, <1>3, <2>2 DEF Over
  <2>4. TypeOK'
    <3>1. pc' \in [Lanes \cup {Caller} -> LanePlaces \cup CallerPlaces]
      BY <1>1, <2>1 DEF TypeOK, LanePlaces
    <3> QED
      BY <1>1, <1>3, <1>6, <2>1, <3>1 DEF TypeOK, input, strands, packing
  <2>5. PlacesMatch'
    BY <1>1, <1>2, <1>3, <2>1, <2>2 DEF PlacesMatch, LanePlaces
  <2>6. CounterFits'
    <3>1. SUFFICES ASSUME Over' # Tasks PROVE CounterFits'
      BY <1>3 DEF CounterFits
    <3>2. /\ counter' = counter + ChunkSize
          /\ counter' <= count - 1 + (Cardinality(Over) + 2) * ChunkSize
      BY <1>2, <1>3, <1>4, <1>9, <2>3, <3>1, ClaimFacts
    <3>3. Cardinality(Over') = Cardinality(Over) + 1
      BY <1>1, <1>5, <2>3, OverFacts, FS_AddElement
    <3>4. counter' <= count - 1 + (Cardinality(Over') + 1) * ChunkSize
      <4>1. Cardinality(Over) \in Nat
        BY <1>1, OverFacts
      <4> QED
        BY <3>2, <3>3, <4>1
    <3>5. counter' >= count
      BY <1>4, <1>9, <3>2
    <3>6. \A m \in Tasks : pc'[m] = "apply" => stop'[m] <= counter'
      BY <1>1, <1>2, <1>4, <1>5, <2>1, <2>2, <3>2 DEF CounterFits
    <3>7. \A s \in Strands : s >= counter' => applied[s] = 0
      BY <1>4, <1>6, <3>5
    <3> QED
      BY <1>3, <3>4, <3>5, <3>6, <3>7 DEF CounterFits
  <2>7. RangesApart'
    BY <1>1, <1>3, <2>1, <2>2 DEF RangesApart, Holds, All
  <2>8. ClaimsCover'
    <3>1. ASSUME NEW s \in Strands
          PROVE  applied[s] = 1 \/ Held(s)'
      <4>1. applied[s] = 1 \/ Held(s)
        BY <1>1, <1>4, <1>9 DEF ClaimsCover
      <4>2. ASSUME Held(s) PROVE Held(s)'
        <5>1. PICK m \in Lanes : pc[m] \in {"apply", "threw"} /\ Holds(m, s)
          BY <4>2 DEF Held
        <5>2. m # l /\ m \in All
          BY <1>1, <1>2, <5>1
        <5> QED
          BY <2>1, <2>2, <5>1, <5>2 DEF Held, Holds
      <4> QED
        BY <4>1, <4>2
    <3> QED
      BY <1>1, <1>2, <1>3, <2>1, <2>2, <3>1 DEF ClaimsCover, Holds, All
  <2>9. OutcomesMatch'
    BY <1>1, <1>2, <1>3, <2>2 DEF OutcomesMatch, All
  <2> QED
    BY <1>7, <2>4, <2>5, <2>6, <2>7, <2>8, <2>9 DEF IInv
<1> QED
  BY <1>8, <1>9

\* A strand is rewritten, by a task or by the caller.
LEMMA RewritesStrand ==
  ASSUME IInv, NEW l \in All, pc[l] = "apply", at[l] < stop[l],
         applied' = [applied EXCEPT ![at[l]] = Least(@ + 1, 2)],
         UNCHANGED <<input, counter, stop>>,
         \/ pc' = pc /\ at' = [at EXCEPT ![l] = at[l] + 1]
         \/ pc' = [pc EXCEPT ![l] = "threw"] /\ at' = at
  PROVE  /\ at[l] \in Strands /\ applied[at[l]] = 0 /\ applied'[at[l]] = 1
         /\ \A s \in Strands : s # at[l] => applied'[s] = applied[s]
         /\ applied' \in [Strands -> 0 .. 2]
         /\ CounterFits' /\ RangesApart' /\ ClaimsCover' /\ PlacesMatch'
<1> USE DEF At
<1>1. /\ TypeOK /\ PlacesMatch /\ CounterFits /\ RangesApart /\ ClaimsCover
      /\ Caller \notin Lanes /\ Caller \in All /\ Lanes \subseteq All /\ Tasks \subseteq Lanes
  BY TaskFacts DEF IInv, TypeOK, All
<1>2. /\ count \in Nat /\ counter \in Nat
      /\ \A s \in Strands : s \in Nat /\ s < count
      /\ \A m \in All : at[m] \in Nat /\ stop[m] \in Nat /\ stop[m] <= count
  BY <1>1, StrandRuntimeAssumption DEF TypeOK, Strands, All
<1>3. DEFINE r == at[l]
<1>4. r \in Strands /\ Holds(l, r) /\ r \in Nat
  BY <1>2 DEF Strands, Holds
<1>5. applied[r] = 0
  BY <1>1, <1>4 DEF ClaimsCover, All
<1>6. applied'[r] = 1 /\ applied' \in [Strands -> 0 .. 2] /\ \A s \in Strands : s # r => applied'[s] = applied[s]
  BY <1>1, <1>4, <1>5 DEF TypeOK, Least
<1>7. /\ Strands' = Strands /\ TaskCount' = TaskCount /\ Tasks' = Tasks /\ Parallel' = Parallel
      /\ count' = count /\ counter' = counter /\ stop' = stop
  BY DEF input, Strands, TaskCount, Tasks, Parallel, UsefulTasks
<1>8. /\ \A m \in All : m # l => pc'[m] = pc[m] /\ at'[m] = at[m]
      /\ \/ pc'[l] = "apply" /\ at'[l] = r + 1
         \/ pc'[l] = "threw" /\ at'[l] = r
  BY <1>1 DEF TypeOK, All
<1>9. Over' = Over
  BY <1>1, <1>7, <1>8 DEF Over
<1>10. PlacesMatch'
  <2>1. l \in Lanes => pc'[Caller] = pc[Caller] /\ at'[Caller] = at[Caller]
    BY <1>1, <1>8
  <2>2. \A m \in Lanes : pc'[m] \in LanePlaces /\ (pc'[m] = "unused" <=> pc[m] = "unused")
    BY <1>1, <1>8 DEF PlacesMatch, LanePlaces
  <2>3. l = Caller => ~Parallel /\ pc'[Caller] \in {"apply", "threw"}
    BY <1>1, <1>8 DEF PlacesMatch
  <2>4. l = Caller \/ l \in Lanes
    BY DEF All
  <2>5. \A m \in Lanes : pc[m] = "done" => pc'[m] = "done"
    BY <1>1, <1>8
  <2> QED
    BY <1>1, <1>7, <2>1, <2>2, <2>3, <2>4, <2>5 DEF PlacesMatch, CallerPlaces
<1>11. CounterFits'
  <2>1. SUFFICES ASSUME Over # Tasks PROVE CounterFits'
    BY <1>7, <1>9 DEF CounterFits
  <2>2. \A m \in Tasks : pc'[m] = "apply" => stop[m] <= counter
    BY <1>1, <1>8, <2>1 DEF CounterFits
  <2>3. Parallel => \A s \in Strands : s >= counter => applied'[s] = 0
    <3>1. Parallel => l \in Tasks
      BY <1>1 DEF PlacesMatch, All
    <3>2. Parallel => r < counter
      BY <1>1, <1>2, <1>4, <2>1, <3>1 DEF CounterFits
    <3> QED
      BY <1>1, <1>2, <1>6, <2>1, <3>2 DEF CounterFits
  <2> QED
    BY <1>1, <1>7, <1>9, <2>1, <2>2, <2>3 DEF CounterFits
<1>12. \A m \in All, s \in Strands : Holds(m, s)' => Holds(m, s) /\ (m = l => s # r \/ pc'[l] = "threw")
  BY <1>2, <1>4, <1>7, <1>8 DEF Holds
<1>13. RangesApart'
  BY <1>1, <1>7, <1>8, <1>12 DEF RangesApart, All
<1>14. ClaimsCover'
  <2>1. ASSUME NEW s \in Strands, s < counter \/ Over # {}
        PROVE  applied'[s] = 1 \/ Held(s)'
    <3>1. applied[s] = 1 \/ Held(s)
      BY <1>1, <2>1 DEF ClaimsCover
    <3>2. CASE s = r
      BY <1>6, <3>2
    <3>3. CASE s # r
      <4>1. ASSUME Held(s) PROVE Held(s)'
        <5>1. PICK m \in Lanes : pc[m] \in {"apply", "threw"} /\ Holds(m, s)
          BY <4>1 DEF Held
        <5>2. pc'[m] \in {"apply", "threw"}
          BY <1>1, <1>8, <5>1
        <5>3. Holds(m, s)'
          BY <1>1, <1>2, <1>4, <1>7, <1>8, <3>3, <5>1 DEF Holds
        <5> QED
          BY <5>2, <5>3 DEF Held
      <4> QED
        BY <1>6, <3>1, <3>3, <4>1
    <3> QED
      BY <3>2, <3>3
  <2>2. ~Parallel => \A s \in Strands : s < at'[Caller] => applied'[s] = 1
    BY <1>1, <1>2, <1>4, <1>6, <1>8 DEF ClaimsCover, All, PlacesMatch
  <2>3. \A s \in Strands : applied'[s] <= 1
    BY <1>1, <1>6 DEF ClaimsCover
  <2>4. ASSUME NEW m \in All, pc'[m] = "apply", NEW s \in Strands, Holds(m, s)'
        PROVE  applied'[s] = 0
    <3>1. Holds(m, s) /\ pc[m] = "apply"
      BY <1>8, <1>12, <2>4
    <3>2. s # r
      BY <1>1, <1>4, <1>8, <1>12, <2>4, <3>1 DEF RangesApart, All
    <3> QED
      BY <1>1, <1>6, <3>1, <3>2 DEF ClaimsCover, All
  <2> QED
    BY <1>7, <1>9, <2>1, <2>2, <2>3, <2>4 DEF ClaimsCover, All
<1> QED
  BY <1>4, <1>5, <1>6, <1>10, <1>11, <1>13, <1>14

LEMMA ApplyFailIInv ==
  ASSUME IInv, NEW l \in All, Apply(l) \/ Fail(l)
  PROVE  IInv'
<1> USE DEF At, Goto
<1>1. /\ TypeOK /\ PlacesMatch /\ OutcomesMatch /\ PackedSoFar
      /\ Caller \notin Lanes /\ Caller \in All /\ Lanes \subseteq All
  BY TaskFacts DEF IInv, TypeOK, All
<1>2. DEFINE r == at[l]
<1>3. /\ pc[l] = "apply" /\ at[l] < stop[l] /\ UNCHANGED <<input, counter, stop, packing>>
      /\ applied' = [applied EXCEPT ![r] = Least(@ + 1, 2)]
      /\ \/ /\ pc' = pc /\ at' = [at EXCEPT ![l] = r + 1] /\ outcome[r] # "fails"
            /\ keep' = [keep EXCEPT ![r] = outcome[r] = "kept"]
         \/ /\ pc' = [pc EXCEPT ![l] = "threw"] /\ at' = at /\ outcome[r] = "fails"
            /\ keep' = keep
  BY DEF Apply, Fail
<1>4. /\ r \in Strands /\ applied[r] = 0 /\ applied'[r] = 1
      /\ \A s \in Strands : s # r => applied'[s] = applied[s]
      /\ applied' \in [Strands -> 0 .. 2]
      /\ CounterFits' /\ RangesApart' /\ ClaimsCover' /\ PlacesMatch'
  BY <1>3, RewritesStrand
<1>5. Strands' = Strands /\ count' = count /\ outcome' = outcome
  BY <1>3 DEF input, Strands
<1>6. TypeOK'
  <2>1. pc' \in [Lanes \cup {Caller} -> LanePlaces \cup CallerPlaces]
    BY <1>1, <1>3 DEF TypeOK, LanePlaces
  <2>2. at' \in [Lanes \cup {Caller} -> 0 .. count]
    <3>1. r \in Nat /\ count \in Nat /\ r + 1 \in 0 .. count
      BY SMTT(60), <1>1, <1>4, TaskFacts DEF TypeOK, Strands
    <3> QED
      BY <1>1, <1>3, <3>1 DEF TypeOK
  <2>3. keep' \in [Strands -> BOOLEAN]
    BY <1>1, <1>3, <1>4 DEF TypeOK
  <2> QED
    BY <1>1, <1>3, <1>4, <1>5, <2>1, <2>2, <2>3 DEF TypeOK, input, packing
<1>7. /\ \A s \in Strands : s # r => keep'[s] = keep[s]
      /\ outcome[r] # "fails" => keep'[r] = (outcome[r] = "kept")
      /\ outcome[r] = "fails" => pc'[l] = "threw"
      /\ \A m \in All : pc[m] = "threw" => pc'[m] = "threw"
      /\ \A m \in All : pc'[m] = "threw" => pc[m] = "threw" \/ outcome[r] = "fails"
  BY <1>1, <1>3, <1>4 DEF TypeOK, All
<1>8. OutcomesMatch'
  <2>1. \A s \in Strands : applied'[s] = 1 /\ outcome[s] # "fails" => keep'[s] = (outcome[s] = "kept")
    BY <1>1, <1>4, <1>7 DEF OutcomesMatch
  <2>2. \A s \in Strands : applied'[s] = 1 /\ outcome[s] = "fails" => \E m \in All : pc'[m] = "threw"
    BY <1>1, <1>4, <1>7 DEF OutcomesMatch, All
  <2>3. \A m \in All : pc'[m] = "threw" => \E s \in Strands : outcome[s] = "fails"
    BY <1>1, <1>4, <1>7 DEF OutcomesMatch, All
  <2> QED
    BY <1>5, <2>1, <2>2, <2>3 DEF OutcomesMatch, All
<1>9. PackedSoFar'
  <2>1. pc[Caller] \notin {"compact", "returned"} /\ pc'[Caller] \notin {"compact", "returned"}
    <3>1. l = Caller => pc'[Caller] \in {"apply", "threw"}
      BY <1>1, <1>3 DEF TypeOK
    <3>2. l # Caller => pc'[Caller] = pc[Caller] /\ l \in Lanes
      BY <1>1, <1>3 DEF TypeOK, All
    <3>3. l # Caller => pc[Caller] \notin {"compact", "returned"}
      BY <1>1, <1>3, <3>2 DEF PlacesMatch
    <3> QED
      BY <1>3, <3>1, <3>2, <3>3
  <2>2. read = 0 /\ read' = 0 /\ write' = write /\ slots' = slots
    BY <1>1, <1>3, <2>1 DEF PackedSoFar, packing
  <2>3. {s \in 0 .. read - 1 : keep[s]} = {} /\ {s \in 0 .. read' - 1 : keep'[s]} = {}
    BY <2>2
  <2> QED
    BY <1>1, <1>5, <2>1, <2>2, <2>3 DEF PackedSoFar
<1> QED
  BY <1>4, <1>6, <1>8, <1>9 DEF IInv

\* The caller is through: alone with its range, or the tasks have ended.
LEMMA CallerEndsIInv ==
  ASSUME IInv, EndRange(Caller) \/ EndTasks \/ Finish
  PROVE  IInv'
<1> USE DEF At, Goto
<1>1. /\ TypeOK /\ PlacesMatch /\ OutcomesMatch /\ PackedSoFar /\ ClaimsCover
      /\ Caller \notin Lanes /\ Caller \in All /\ Lanes \subseteq All /\ Tasks \subseteq Lanes
      /\ 1 \in Tasks /\ count \in Nat
  BY TaskFacts DEF IInv, TypeOK, All
<1>2. PICK place \in {"compact", "threw", "returned"} :
        /\ pc' = [pc EXCEPT ![Caller] = place]
        /\ EndRange(Caller) => place = "compact"
        /\ EndTasks => place = AfterTasks
        /\ Finish => place = "returned"
  BY <1>1 DEF EndRange, EndTasks, Finish, AfterTasks
<1>3. /\ UNCHANGED <<input, counter, at, stop, strands, packing>>
      /\ pc[Caller] = "apply" => ~(at[Caller] < stop[Caller])
      /\ pc[Caller] \in {"apply", "wait", "compact"}
  BY DEF EndRange, EndTasks, Finish
<1>4. \A m \in All : pc'[m] = IF m = Caller THEN place ELSE pc[m]
  BY <1>1, <1>2 DEF TypeOK, All
<1>5. CounterFits' /\ RangesApart' /\ ClaimsCover'
  BY <1>1, <1>3, <1>4, Quiet
<1>6. /\ Strands' = Strands /\ TaskCount' = TaskCount /\ Tasks' = Tasks /\ Parallel' = Parallel
      /\ count' = count
  BY <1>3 DEF input, Strands, TaskCount, Tasks, Parallel, UsefulTasks
<1>7. TypeOK'
  <2>1. pc' \in [Lanes \cup {Caller} -> LanePlaces \cup CallerPlaces]
    BY <1>1, <1>2 DEF TypeOK, CallerPlaces
  <2> QED
    BY <1>1, <1>3, <1>6, <2>1 DEF TypeOK, input, strands, packing
<1>8. \A l \in Lanes : pc'[l] = pc[l]
  BY <1>1, <1>4
<1>9. CASE EndRange(Caller)
  <2>1. pc[Caller] = "apply" /\ pc'[Caller] = "compact" /\ ~Parallel /\ at[Caller] = count
    BY <1>1, <1>2, <1>3, <1>4, <1>9 DEF EndRange, PlacesMatch, TypeOK
  <2>2. PlacesMatch'
    BY <1>1, <1>3, <1>6, <1>8, <2>1 DEF PlacesMatch, CallerPlaces
  <2>3. OutcomesMatch'
    BY <1>1, <1>3, <1>4, <1>6, <2>1 DEF OutcomesMatch, input, strands, All
  <2>4. PackedSoFar'
    BY <1>1, <1>3, <1>6, <2>1 DEF PackedSoFar, strands, packing
  <2> QED
    BY <1>5, <1>7, <2>2, <2>3, <2>4 DEF IInv
<1>10. CASE EndTasks
  <2>1. /\ pc[Caller] = "wait" /\ Parallel /\ pc'[Caller] = AfterTasks
        /\ \A l \in Tasks : pc[l] \in {"done", "threw"}
    BY <1>1, <1>2, <1>4, <1>10 DEF EndTasks, Ended, PlacesMatch
  <2>2. /\ pc'[Caller] \in {"compact", "threw"}
        /\ pc'[Caller] = "compact" => \A l \in Tasks : pc[l] = "done"
        /\ pc'[Caller] = "threw" => \E l \in Lanes : pc[l] = "threw"
    BY <1>1, <2>1 DEF AfterTasks
  <2>3. PlacesMatch'
    BY <1>1, <1>3, <1>6, <1>8, <2>1, <2>2 DEF PlacesMatch, CallerPlaces
  <2>4. OutcomesMatch'
    BY <1>1, <1>3, <1>4, <1>6, <2>1, <2>2 DEF OutcomesMatch, input, strands, All
  <2>5. PackedSoFar'
    BY <1>1, <1>3, <1>6, <2>1, <2>2 DEF PackedSoFar, strands, packing
  <2> QED
    BY <1>5, <1>7, <2>3, <2>4, <2>5 DEF IInv
<1>11. CASE Finish
  <2>1. pc[Caller] = "compact" /\ pc'[Caller] = "returned" /\ read = count
    BY <1>1, <1>2, <1>4, <1>11 DEF Finish, TypeOK
  <2>2. PlacesMatch'
    BY <1>1, <1>3, <1>6, <1>8, <2>1 DEF PlacesMatch, CallerPlaces
  <2>3. OutcomesMatch'
    BY <1>1, <1>3, <1>4, <1>6, <2>1 DEF OutcomesMatch, input, strands, All
  <2>4. PackedSoFar'
    BY <1>1, <1>3, <1>6, <2>1 DEF PackedSoFar, strands, packing
  <2> QED
    BY <1>5, <1>7, <2>2, <2>3, <2>4 DEF IInv
<1> QED
  BY <1>9, <1>10, <1>11

\* One strand is read, and moved down when it is kept.
LEMMA CompactIInv ==
  ASSUME IInv, Compact
  PROVE  IInv'
<1> USE DEF At
<1>1. /\ TypeOK /\ PlacesMatch /\ OutcomesMatch /\ PackedSoFar /\ CounterFits /\ RangesApart /\ ClaimsCover
      /\ pc[Caller] = "compact" /\ read < count /\ read' = read + 1
      /\ UNCHANGED <<input, counter, pc, at, stop, strands>>
      /\ count \in Nat /\ read \in Nat /\ write \in Nat /\ write <= read
      /\ read \in Strands /\ write \in Strands
  <2>1. /\ TypeOK /\ PlacesMatch /\ OutcomesMatch /\ PackedSoFar /\ CounterFits /\ RangesApart
        /\ ClaimsCover
    BY DEF IInv
  <2>2. /\ pc[Caller] = "compact" /\ read < count /\ read' = read + 1
        /\ UNCHANGED <<input, counter, pc, at, stop, strands>>
    BY DEF Compact
  <2>3. count \in Nat
    BY <2>1, TaskFacts DEF TypeOK
  <2>4. read \in Nat /\ write \in Nat /\ write <= read
    BY <2>1, <2>3 DEF TypeOK
  <2> QED
    BY <2>1, <2>2, <2>3, <2>4 DEF Strands
<1>2. /\ Strands' = Strands /\ count' = count /\ keep' = keep /\ outcome' = outcome
      /\ TaskCount' = TaskCount /\ Tasks' = Tasks /\ Parallel' = Parallel /\ applied' = applied
      /\ counter' = counter /\ pc' = pc /\ at' = at /\ stop' = stop /\ capacity' = capacity
  BY <1>1 DEF input, strands, Strands, TaskCount, Tasks, Parallel, UsefulTasks
<1>3. slots[read] = read
  BY <1>1 DEF PackedSoFar
<1>4. /\ keep[read] => write' = write + 1 /\ slots' = [slots EXCEPT ![write] = read]
      /\ ~keep[read] => write' = write /\ slots' = slots
  <2>1. CASE keep[read] /\ write # read
    BY <1>3, <2>1 DEF Compact, MoveDown
  <2>2. CASE keep[read] /\ write = read
    <3>1. [slots EXCEPT ![write] = read] = slots
      BY <1>1, <1>3, <2>2 DEF TypeOK
    <3> QED
      BY <2>2, <3>1 DEF Compact
  <2>3. CASE ~keep[read]
    BY <2>3 DEF Compact
  <2> QED
    BY <2>1, <2>2, <2>3
<1>5. TypeOK'
  <2>1. read' \in 0 .. count /\ write' \in 0 .. read' /\ slots' \in [Strands -> Strands]
    BY <1>1, <1>4 DEF TypeOK
  <2> QED
    BY <1>1, <1>2, <2>1 DEF TypeOK
<1>6. PlacesMatch' /\ CounterFits' /\ RangesApart' /\ ClaimsCover' /\ OutcomesMatch'
  BY <1>1, <1>2 DEF PlacesMatch, CounterFits, RangesApart, ClaimsCover, OutcomesMatch, Over, Held, Holds
<1>7. PackedSoFar'
  <2>1. \A i \in read' .. count' - 1 : slots'[i] = i
    <3>1. ASSUME NEW i \in read' .. count - 1 PROVE i \in read .. count - 1 /\ i # write /\ i \in Strands
      BY <1>1 DEF Strands
    <3>2. slots \in [Strands -> Strands] /\ \A i \in read .. count - 1 : slots[i] = i
      BY <1>1 DEF PackedSoFar, TypeOK
    <3> QED
      BY <1>2, <1>4, <3>1, <3>2
  <2>2. \A i \in 0 .. write - 1 : slots'[i] = slots[i] /\ slots[i] \in 0 .. read - 1 /\ i \in Strands
    <3>1. \A i \in 0 .. write - 1 : i \in Strands /\ i # write
      BY <1>1 DEF Strands
    <3>2. \A i \in 0 .. write - 1 : slots[i] \in {s \in 0 .. read - 1 : keep[s]}
      BY <1>1 DEF PackedSoFar
    <3> QED
      BY <1>1, <1>4, <3>1, <3>2 DEF TypeOK
  <2>3. keep[read] => slots'[write] = read
    BY <1>1, <1>4 DEF TypeOK
  <2>4. \A i, j \in 0 .. write' - 1 : i < j => slots'[i] < slots'[j]
    <3>1. CASE keep[read]
      <4>1. \A i \in 0 .. write' - 1 : i \in 0 .. write - 1 \/ i = write
        BY <1>1, <1>4, <3>1
      <4>2. \A i \in 0 .. write - 1 : slots'[i] < slots'[write]
        BY <1>1, <2>2, <2>3, <3>1
      <4>3. \A i, j \in 0 .. write - 1 : i < j => slots'[i] < slots'[j]
        BY <1>1, <2>2 DEF PackedSoFar
      <4>4. \A i \in 0 .. write - 1 : ~(write < i)
        BY <1>1
      <4> QED
        BY <1>1, <4>1, <4>2, <4>3, <4>4
    <3>2. CASE ~keep[read]
      BY <1>1, <1>4, <3>2 DEF PackedSoFar
    <3> QED
      BY <3>1, <3>2
  <2>5. {slots'[i] : i \in 0 .. write' - 1} = {s \in 0 .. read' - 1 : keep'[s]}
    <3>1. 0 .. read' - 1 = (0 .. read - 1) \cup {read}
      BY <1>1
    <3>2. CASE keep[read]
      <4>1. 0 .. write' - 1 = (0 .. write - 1) \cup {write}
        BY <1>1, <1>4, <3>2
      <4>2. {slots'[i] : i \in 0 .. write' - 1} = {slots[i] : i \in 0 .. write - 1} \cup {read}
        BY <2>2, <2>3, <3>2, <4>1
      <4> QED
        BY <1>1, <1>2, <3>1, <3>2, <4>2 DEF PackedSoFar
    <3>3. CASE ~keep[read]
      BY <1>1, <1>2, <1>4, <3>1, <3>3 DEF PackedSoFar
    <3> QED
      BY <3>2, <3>3
  <2>6. pc'[Caller] \notin {"returned"}
    BY <1>1, <1>2
  <2> QED
    BY <1>1, <1>2, <2>1, <2>4, <2>5, <2>6 DEF PackedSoFar
<1> QED
  BY <1>5, <1>6, <1>7 DEF IInv

LEMMA NextIInv == IInv /\ [Next]_vars => IInv'
<1> SUFFICES ASSUME IInv, [Next]_vars PROVE IInv'
  OBVIOUS
<1>1. CASE UNCHANGED vars
  BY <1>1 DEF vars, IInv, TypeOK, PlacesMatch, CounterFits, RangesApart, ClaimsCover, OutcomesMatch,
              PackedSoFar, At, Over, Held, Holds, Strands, Tasks, TaskCount, UsefulTasks, Parallel
<1>2. ASSUME NEW l \in All, Apply(l) \/ Fail(l) PROVE IInv'
  BY <1>2, ApplyFailIInv
<1>3. CASE EndRange(Caller) \/ EndTasks \/ Finish
  BY <1>3, CallerEndsIInv
<1>4. CASE Compact
  BY <1>4, CompactIInv
<1>5. ASSUME NEW l \in Lanes, Begin(l) \/ EndRange(l) PROVE IInv'
  BY <1>5, LaneGoesIInv
<1>6. ASSUME NEW l \in Lanes, Claim(l) PROVE IInv'
  BY <1>6, ClaimIInv
<1>7. CASE CallerStep
  BY <1>2, <1>3, <1>4, <1>7 DEF CallerStep, RangeStep, All
<1>8. CASE \E l \in Lanes : LaneStep(l)
  BY <1>2, <1>5, <1>6, <1>8 DEF LaneStep, RangeStep, All
<1> QED
  BY <1>1, <1>7, <1>8 DEF Next, Terminated

\* IInv holds in every state of every execution.
THEOREM InductiveInvariant == Spec => []IInv
  BY InitIInv, NextIInv, PTL DEF Spec

\* The variables keep their types: the counter and the ranges stay in bounds.
THEOREM TypeCorrect == Spec => []TypeOK
<1>1. IInv => TypeOK
  BY DEF IInv
<1> QED
  BY <1>1, InductiveInvariant, PTL

\* No two tasks hold one strand.
THEOREM TasksApart == Spec => []RangesApart
<1>1. IInv => RangesApart
  BY DEF IInv
<1> QED
  BY <1>1, InductiveInvariant, PTL

\* When the strands are compacted all of them have been rewritten.
LEMMA AllRewritten ==
  ASSUME IInv, pc[Caller] \in {"compact", "returned"}
  PROVE  \A s \in Strands : applied[s] = 1
<1> USE DEF At
<1>1. /\ TypeOK /\ PlacesMatch /\ ClaimsCover /\ 1 \in Tasks /\ Tasks \subseteq Lanes /\ count \in Nat
  BY TaskFacts DEF IInv, TypeOK
<1>2. CASE Parallel
  <2>1. \A l \in Lanes : pc[l] \in {"done", "unused"}
    BY <1>1, <1>2 DEF PlacesMatch
  <2>2. \A s \in Strands : ~Held(s)
    BY <2>1 DEF Held
  <2>3. Over # {}
    BY <1>1, <1>2 DEF Over, PlacesMatch
  <2> QED
    BY <1>1, <2>2, <2>3 DEF ClaimsCover
<1>3. CASE ~Parallel
  <2>1. \A s \in Strands : s < at[Caller]
    BY <1>1, <1>3 DEF PlacesMatch, Strands
  <2> QED
    BY <1>1, <1>3, <2>1 DEF ClaimsCover
<1> QED
  BY <1>2, <1>3

\* No strand is rewritten twice, and none is left out.
THEOREM RewrittenOnce == Spec => []EachStrandOnce
<1>1. IInv => EachStrandOnce
  BY AllRewritten DEF IInv, ClaimsCover, EachStrandOnce
<1> QED
  BY <1>1, InductiveInvariant, PTL

\* No task threw when the strands are compacted.
LEMMA NoneFails ==
  ASSUME IInv, pc[Caller] \in {"compact", "returned"}
  PROVE  \A s \in Strands : outcome[s] # "fails"
<1> USE DEF At
<1>1. TypeOK /\ PlacesMatch /\ OutcomesMatch /\ \A l \in Lanes : pc[l] # "threw"
  <2>1. TypeOK /\ PlacesMatch /\ OutcomesMatch
    BY DEF IInv
  <2>2. \A l \in Lanes : pc[l] # "threw"
    BY <2>1 DEF PlacesMatch
  <2> QED
    BY <2>1, <2>2
<1> QED
  BY <1>1, AllRewritten DEF OutcomesMatch

\* Whether the call throws does not depend on the number of tasks.
THEOREM ThrowsAsSequential == Spec => []ThrowsForAStrand
<1>1. IInv => ThrowsForAStrand
  BY NoneFails DEF IInv, OutcomesMatch, ThrowsForAStrand, At
<1> QED
  BY <1>1, InductiveInvariant, PTL

\* The strands that are returned are the kept ones in their order.
THEOREM CompactionIsStable == Spec => []KeptInOrder
<1>1. ASSUME IInv, pc[Caller] = "returned"
      PROVE  /\ {slots[i] : i \in 0 .. write - 1} = {s \in Strands : outcome[s] = "kept"}
             /\ \A i, j \in 0 .. write - 1 : i < j => slots[i] < slots[j]
  <2>1. PackedSoFar /\ OutcomesMatch /\ read = count
    BY <1>1 DEF IInv, PackedSoFar, At
  <2>2. \A s \in Strands : keep[s] = (outcome[s] = "kept")
    BY <1>1, <2>1, AllRewritten, NoneFails DEF OutcomesMatch
  <2>3. {slots[i] : i \in 0 .. write - 1} = {s \in Strands : keep[s]}
    BY <2>1 DEF PackedSoFar, Strands
  <2> QED
    BY <2>1, <2>2, <2>3 DEF PackedSoFar
<1>2. IInv => KeptInOrder
  BY <1>1 DEF KeptInOrder, At
<1> QED
  BY <1>2, InductiveInvariant, PTL

=============================================================================
