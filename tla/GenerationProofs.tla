-------------------------- MODULE GenerationProofs --------------------------
(***************************************************************************)
(* Generating strands, on threads of the host and on a device: StrandTiles    *)
(* implements StrandLoop, for any number of strands and threads the counter   *)
(* has room for, and outlives its threads; and a request of any size that a    *)
(* device is granted keeps the kernels inside the arrays they are given, where *)
(* no two strands write one element.  What they generate from is right as well:  *)
(* the alias table that roots are drawn from keeps the areas of the triangles,   *)
(* and the curves of a cache are given to the guides at the least cost; and archives *)
(* that stand still are imported alike whenever they are asked.                *)
(***************************************************************************)
EXTENDS StrandTiles, GuideCache, DeviceContract, ExpressionValues, FiniteSetTheorems, SequenceTheorems, WellFoundedInduction, TLAPS

All == Lanes \cup {Caller}

\* Division with remainder.
LEMMA Division ==
  ASSUME NEW n \in Nat, NEW d \in Nat \ {0}
  PROVE  /\ n \div d \in Nat
         /\ (n \div d) * d <= n
         /\ n < (n \div d) * d + d
<1>1. n = (n \div d) * d + (n % d) /\ n % d \in 0 .. d - 1 /\ n \div d \in Nat
  BY SMTT(60)
<1>2. PICK q \in Nat : q = n \div d
  BY <1>1
<1>3. PICK p \in Nat : p = q * d
  BY <1>2
<1> QED
  BY <1>1, <1>2, <1>3

LEMMA Monotone ==
  ASSUME NEW a \in Nat, NEW b \in Nat, NEW c \in Nat, a <= b
  PROVE  a * c <= b * c /\ a * c \in Nat /\ (a + 1) * c = a * c + c
<1>1. PICK d \in Nat : b = a + d
  <2>1. b - a \in Nat /\ b = a + (b - a)
    OBVIOUS
  <2> QED
    BY <2>1
<1>2. b * c = a * c + d * c /\ d * c \in Nat /\ a * c \in Nat
  BY <1>1
<1>3. (a + 1) * c = a * c + c
  OBVIOUS
<1> QED
  BY <1>2, <1>3

\* The blocks cover the strands, and the last is not empty.
LEMMA BlockFacts ==
  ASSUME count \in 1 .. MaxStrands, block \in 1 .. MaxStrands + 1
  PROVE  /\ count \in Nat /\ count > 0 /\ count <= MaxStrands /\ MaxStrands \in Nat
         /\ block \in Nat /\ block > 0
         /\ Blocks \in Nat /\ Blocks > 0 /\ Blocks <= count
         /\ \A n \in Nat : n * block \in Nat
         /\ \A n \in Nat : n < Blocks => n * block < count
         /\ \A n \in Nat : n >= Blocks => n * block >= count
<1>1. /\ count \in Nat /\ count > 0 /\ count <= MaxStrands /\ MaxStrands \in Nat
      /\ block \in Nat /\ block > 0
  BY StrandTilesAssumption
<1>2. PICK n \in Nat : n = count + block - 1
  BY <1>1
<1>3. n \div block \in Nat /\ (n \div block) * block <= n /\ n < (n \div block) * block + block
  BY <1>1, <1>2, Division
<1>4. Blocks = n \div block
  BY <1>2 DEF Blocks
<1>5. PICK b \in Nat : b = Blocks
  BY <1>3, <1>4
<1>6. PICK p \in Nat : p = b * block
  BY <1>1, <1>5
<1>7. p <= count + block - 1 /\ count + block - 1 < p + block
  BY <1>2, <1>3, <1>4, <1>5, <1>6
<1>8. ASSUME NEW m \in Nat PROVE m * block \in Nat
  BY <1>1, <1>8
<1>9. ASSUME NEW m \in Nat, m < b PROVE m * block < count
  <2>1. m + 1 <= b /\ m + 1 \in Nat
    BY <1>5, <1>9
  <2>2. (m + 1) * block <= p /\ (m + 1) * block = m * block + block
    BY <1>1, <1>5, <1>6, <2>1, Monotone
  <2> QED
    BY <1>1, <1>6, <1>7, <1>8, <2>2
<1>10. ASSUME NEW m \in Nat, m >= b PROVE m * block >= count
  <2>1. b * block <= m * block
    BY <1>1, <1>5, <1>10, Monotone
  <2> QED
    BY <1>1, <1>6, <1>7, <1>8, <2>1
<1>11. b > 0
  <2>1. ASSUME b = 0 PROVE FALSE
    BY <1>1, <1>10, <2>1
  <2> QED
    BY <1>5, <2>1
<1>12. b <= count
  <2>1. ASSUME b > count PROVE FALSE
    <3>1. count * block < count
      BY <1>1, <1>9, <2>1
    <3>2. count * 1 <= count * block
      <4>1. PICK e \in Nat : block = 1 + e
        <5>1. block - 1 \in Nat /\ block = 1 + (block - 1)
          BY <1>1
        <5> QED
          BY <5>1
      <4>2. count * block = count + count * e /\ count * e \in Nat
        BY <1>1, <4>1
      <4> QED
        BY <1>1, <4>2
    <3> QED
      BY <1>1, <3>1, <3>2
  <2> QED
    BY <1>1, <1>5, <2>1
<1> QED
  BY <1>1, <1>5, <1>8, <1>9, <1>10, <1>11, <1>12

\* There are workers, at most as many as lanes.
LEMMA ThreadFacts ==
  ASSUME TypeOK
  PROVE  /\ Threads \in Nat /\ 1 <= Threads /\ Threads <= MaxThreads /\ MaxThreads \in Nat
         /\ Caller \notin Lanes /\ 1 .. Threads \subseteq Lanes
         /\ Workers \subseteq All /\ Workers # {}
         /\ Modulus \in Nat /\ Blocks + Threads <= Modulus
<1>1. /\ Blocks \in Nat /\ Blocks > 0 /\ Blocks <= count /\ count \in Nat /\ count <= MaxStrands
      /\ asked \in 0 .. MaxThreads /\ cores \in 0 .. MaxThreads
      /\ MaxStrands \in Nat /\ MaxThreads \in Nat /\ MaxThreads > 0 /\ Modulus \in Nat
      /\ MaxStrands + MaxThreads <= Modulus
  BY BlockFacts, StrandTilesAssumption DEF TypeOK
<1>2. Wrap(Blocks + 3) \in Nat
  <2>1. Blocks + 3 \in Nat /\ Modulus \in Nat \ {0}
    BY <1>1
  <2> QED
    BY <2>1 DEF Wrap
<1>3. UsefulThreads \in Nat
  BY <1>2, Division DEF UsefulThreads
<1>4. ChosenThreads \in 1 .. MaxThreads
  BY <1>1, <1>3 DEF ChosenThreads, Least, Greatest
<1>5. Threads \in Nat /\ 1 <= Threads /\ Threads <= MaxThreads
  BY <1>1, <1>4 DEF Threads, Least
<1> QED
  BY <1>1, <1>5 DEF Caller, Lanes, Workers, All

\* The workers that are over are counted.
LEMMA OverFacts ==
  ASSUME TypeOK
  PROVE  /\ IsFiniteSet(Over) /\ Cardinality(Over) \in Nat
         /\ Over \subseteq Workers
         /\ Over # Workers => Cardinality(Over) + 1 <= Threads
         /\ \A l \in Workers : l \notin Over =>
              Cardinality(Over \cup {l}) = Cardinality(Over) + 1
<1>1. Threads \in Nat /\ 1 <= Threads
  BY ThreadFacts
<1>2. IsFiniteSet(Workers) /\ Cardinality(Workers) <= Threads /\ Cardinality(Workers) \in Nat
  <2>1. CASE Parallel
    BY <1>1, <2>1, FS_Interval DEF Workers
  <2>2. CASE ~Parallel
    <3>1. IsFiniteSet({Caller}) /\ Cardinality({Caller}) = 1
      BY FS_Singleton
    <3> QED
      BY <1>1, <2>2, <3>1 DEF Workers
  <2> QED
    BY <2>1, <2>2
<1>3. Over \subseteq Workers
  BY DEF Over
<1>4. IsFiniteSet(Over) /\ Cardinality(Over) \in Nat
  BY <1>2, <1>3, FS_Subset, FS_CardinalityType
<1>5. Cardinality(Over) <= Cardinality(Workers)
      /\ (Cardinality(Workers) = Cardinality(Over) => Workers = Over)
  BY <1>2, <1>3, FS_Subset
<1>6. \A l \in Workers : l \notin Over => Cardinality(Over \cup {l}) = Cardinality(Over) + 1
  BY <1>4, FS_AddElement
<1> QED
  BY <1>1, <1>2, <1>3, <1>4, <1>5, <1>6

\* What follows from the input alone.
LEMMA InputIsFixed ==
  ASSUME UNCHANGED input
  PROVE  /\ count' = count /\ block' = block /\ asked' = asked /\ cores' = cores
         /\ Strands' = Strands /\ Blocks' = Blocks /\ Threads' = Threads
         /\ Parallel' = Parallel /\ Workers' = Workers
  BY DEF input, Strands, Blocks, Threads, ChosenThreads, UsefulThreads, Parallel, Workers

LEMMA InitIInv == Init => IInv
<1> SUFFICES ASSUME Init PROVE IInv
  OBVIOUS
<1> USE DEF StandsAt
<1>1. /\ \A l \in Lanes : l # Caller
      /\ MaxThreads \in Nat /\ MaxStrands \in Nat /\ Modulus \in Nat /\ Modulus > 0
  BY StrandTilesAssumption DEF Lanes, Caller
<1>2. /\ \A l \in Lanes : pc[l] = "unstarted"
      /\ pc[Caller] = IF Parallel THEN "start" ELSE "claim"
      /\ counter = 0 /\ started = 0 /\ \A s \in Strands : times[s] = 0
  BY <1>1 DEF Init
<1>3. /\ count \in Nat /\ count > 0 /\ block \in Nat /\ Blocks \in Nat /\ Blocks > 0
      /\ counter * block = 0
  BY <1>2, BlockFacts DEF Init
<1>4. TypeOK
  <2>1. pc \in [All -> Places]
    BY DEF Init, Places, All
  <2>2. at \in [All -> 0 .. count] /\ stop \in [All -> 0 .. count] /\ times \in [Strands -> 0 .. 2]
    BY <1>3 DEF Init, All
  <2>3. started \in 0 .. Threads
    <3>1. Wrap(Blocks + 3) \in Nat
      BY <1>1, <1>3 DEF Wrap
    <3>2. UsefulThreads \in Nat
      BY <3>1, Division DEF UsefulThreads
    <3>3. Threads \in Nat
      BY <1>1, <1>3, <3>2 DEF Init, Threads, ChosenThreads, Least, Greatest
    <3> QED
      BY <1>2, <3>3
  <2> QED
    BY <1>1, <1>2, <2>1, <2>2, <2>3 DEF TypeOK, Init, All
<1>5. /\ \A l \in Workers : pc[l] \in {"unstarted", "claim"}
      /\ Workers # {}
  <2>1. CASE Parallel
    BY <1>2, <1>4, <2>1, ThreadFacts DEF Workers
  <2>2. CASE ~Parallel
    BY <1>2, <2>2 DEF Workers
  <2> QED
    BY <2>1, <2>2
<1>6. Over = {}
  BY <1>5 DEF Over
<1>7. PlacesMatch
  BY <1>1, <1>2 DEF PlacesMatch, Lanes
<1>8. CounterFits
  <2>1. Cardinality(Over) = 0
    BY <1>6, FS_EmptySet
  <2> QED
    BY <1>2, <1>3, <1>5, <1>6, <2>1 DEF CounterFits
<1>9. ClaimsCover
  BY <1>2, <1>3, <1>5, <1>6 DEF ClaimsCover, Holds, Frontier, Strands
<1> QED
  BY <1>4, <1>7, <1>8, <1>9 DEF IInv

\* Steps that change no strand and neither claim a block nor end a worker.
LEMMA Quiet ==
  ASSUME IInv, UNCHANGED <<input, counter, times>>,
         \A l \in Workers : pc[l] = "generate" =>
           at'[l] = at[l] /\ stop'[l] = stop[l],
         \A l \in Workers : pc'[l] = "generate" => pc[l] = "generate",
         \A l \in Workers : pc[l] = "generate" /\ pc'[l] # "generate" => ~(at[l] < stop[l]),
         \A l \in Workers : pc'[l] \in {"done", "returned"} <=> pc[l] \in {"done", "returned"}
  PROVE  CounterFits' /\ ClaimsCover'
<1> USE DEF StandsAt
<1>1. TypeOK /\ CounterFits /\ ClaimsCover
  BY DEF IInv
<1>2. /\ Strands' = Strands /\ Workers' = Workers /\ Blocks' = Blocks
      /\ Frontier' = Frontier /\ counter' = counter /\ times' = times
  BY InputIsFixed DEF Frontier
<1>3. Over' = Over
  BY <1>2 DEF Over
<1>4. \A l \in Workers : \A s \in Strands : Holds(l, s)' => Holds(l, s)
  BY <1>2 DEF Holds
<1>5. \A l \in Workers : \A s \in Strands : Holds(l, s) => Holds(l, s)'
  <2> SUFFICES ASSUME NEW l \in Workers, NEW s \in Strands, Holds(l, s) PROVE Holds(l, s)'
    OBVIOUS
  <2>1. l \in All /\ s \in Int
    BY <1>1, ThreadFacts DEF Strands
  <2>2. at[l] \in Int /\ stop[l] \in Int
    BY <1>1, <2>1, BlockFacts DEF TypeOK, All
  <2>3. at[l] < stop[l]
    BY <2>1, <2>2 DEF Holds
  <2> QED
    BY <1>2, <2>3 DEF Holds
<1>6. CounterFits'
  BY <1>1, <1>2, <1>3 DEF CounterFits
<1>7. ClaimsCover'
  BY <1>1, <1>2, <1>3, <1>4, <1>5 DEF ClaimsCover
<1> QED
  BY <1>6, <1>7

\* Whoever claims or generates is a worker that is not over.
LEMMA ActorFacts ==
  ASSUME IInv, NEW l \in All, pc[l] \in {"claim", "generate"}
  PROVE  l \in Workers /\ l \notin Over /\ Over # Workers
<1>1. TypeOK /\ PlacesMatch
  BY DEF IInv
<1>2. l \in Workers
  <2>1. CASE Parallel
    <3>1. l \in Lanes /\ pc[l] # "unstarted"
      BY <1>1, <2>1 DEF PlacesMatch, All
    <3>2. l \in Nat /\ 1 <= l /\ ~(l > started)
      BY <1>1, <2>1, <3>1, StrandTilesAssumption DEF PlacesMatch, StandsAt, Lanes
    <3>3. l <= Threads
      BY <1>1, <3>2, ThreadFacts DEF TypeOK
    <3> QED
      BY <1>1, <2>1, <3>2, <3>3, ThreadFacts DEF Workers
  <2>2. CASE ~Parallel
    BY <1>1, <2>2 DEF PlacesMatch, StandsAt, Workers, All
  <2> QED
    BY <2>1, <2>2
<1>3. l \notin Over
  BY DEF Over
<1> QED
  BY <1>2, <1>3

LEMMA EndBlockIInv == ASSUME IInv, NEW l \in All, EndBlock(l) PROVE IInv'
<1> USE DEF StandsAt, Goto
<1>1. TypeOK /\ PlacesMatch
  BY DEF IInv
<1>2. /\ pc[l] = "generate" /\ ~(at[l] < stop[l]) /\ pc' = [pc EXCEPT ![l] = "claim"]
      /\ UNCHANGED <<input, counter, started, at, stop, times>>
  BY DEF EndBlock
<1>3. l \in Workers /\ l \notin Over /\ Workers \subseteq All
  BY <1>1, <1>2, ActorFacts, ThreadFacts
<1>4. \A m \in All : pc'[m] = IF m = l THEN "claim" ELSE pc[m]
  BY <1>1, <1>2 DEF TypeOK, All
<1>5. CounterFits' /\ ClaimsCover'
  BY <1>2, <1>3, <1>4, Quiet
<1>6. TypeOK'
  <2>1. pc' \in [All -> Places]
    BY <1>1, <1>2 DEF TypeOK, Places, All
  <2> QED
    BY <1>1, <1>2, <2>1, InputIsFixed DEF TypeOK, All
<1>7. Over' = Over /\ Workers' = Workers /\ Parallel' = Parallel
  BY <1>2, <1>3, <1>4, InputIsFixed DEF Over
<1>8. PlacesMatch'
  BY <1>1, <1>2, <1>4, <1>7 DEF PlacesMatch, All
<1> QED
  BY <1>5, <1>6, <1>8 DEF IInv

LEMMA StartThreadIInv == ASSUME IInv, StartThread PROVE IInv'
<1> USE DEF StandsAt, Goto
<1>1. TypeOK /\ PlacesMatch
  BY DEF IInv
<1>2. PICK l \in Nat : l = started + 1 /\ l <= Threads /\ started \in Nat
  BY <1>1, ThreadFacts DEF TypeOK, StartThread
<1>3. /\ pc[Caller] = "start" /\ started' = l /\ pc' = [pc EXCEPT ![l] = "claim"]
      /\ UNCHANGED <<input, counter, at, stop, times>>
  BY <1>2 DEF StartThread
<1>4. Parallel
  BY <1>1, <1>3 DEF PlacesMatch
<1>5. /\ l \in Lanes /\ l # Caller /\ l \in Workers /\ Workers \subseteq All /\ pc[l] = "unstarted"
      /\ \A m \in Lanes : m \in Nat
  BY <1>1, <1>2, <1>4, ThreadFacts DEF Lanes, Workers, PlacesMatch, Caller
<1>6. \A m \in All : pc'[m] = IF m = l THEN "claim" ELSE pc[m]
  BY <1>1, <1>3 DEF TypeOK, All
<1>7. CounterFits' /\ ClaimsCover'
  BY <1>3, <1>5, <1>6, Quiet
<1>8. TypeOK'
  <2>1. pc' \in [All -> Places]
    BY <1>1, <1>3 DEF TypeOK, Places, All
  <2>2. started' \in 0 .. Threads'
    BY <1>1, <1>2, <1>3, InputIsFixed, ThreadFacts
  <2> QED
    BY <1>1, <1>3, <2>1, <2>2, InputIsFixed DEF TypeOK, All
<1>9. Over' = Over /\ Workers' = Workers /\ Parallel' = Parallel
  BY <1>3, <1>5, <1>6, InputIsFixed DEF Over
<1>10. PlacesMatch'
  <2>1. pc'[Caller] = "start"
    BY <1>3, <1>5, <1>6 DEF All
  <2>2. \A m \in Lanes : pc'[m] = "unstarted" <=> m > started'
    BY <1>1, <1>2, <1>3, <1>4, <1>5, <1>6 DEF PlacesMatch, All
  <2>3. \A m \in Lanes : pc'[m] \in {"unstarted", "claim", "generate", "done"}
    BY <1>1, <1>6 DEF PlacesMatch, All
  <2> QED
    BY <1>4, <1>9, <2>1, <2>2, <2>3 DEF PlacesMatch
<1> QED
  BY <1>7, <1>8, <1>10 DEF IInv

\* The call throws, ends the process or returns.
LEMMA CallerEndsIInv == ASSUME IInv, StartFails \/ Join PROVE IInv'
<1> USE DEF StandsAt, Goto
<1>1. TypeOK /\ PlacesMatch
  BY DEF IInv
<1>2. PICK place \in {"threw", "terminated", "returned"} :
        /\ pc[Caller] = "start" /\ pc' = [pc EXCEPT ![Caller] = place]
        /\ UNCHANGED <<input, counter, started, at, stop, times>>
        /\ place = "threw" => started = 0
        /\ place = "returned" => started = Threads /\ Joined
  BY DEF StartFails, Join
<1>3. Parallel
  BY <1>1, <1>2 DEF PlacesMatch
<1>4. Caller \notin Workers /\ Caller \notin Lanes /\ Workers \subseteq All
  BY <1>1, <1>3, ThreadFacts DEF Workers
<1>5. \A m \in All : pc'[m] = IF m = Caller THEN place ELSE pc[m]
  BY <1>1, <1>2 DEF TypeOK, All
<1>6. CounterFits' /\ ClaimsCover'
  BY <1>2, <1>4, <1>5, Quiet
<1>7. TypeOK'
  <2>1. pc' \in [All -> Places]
    BY <1>1, <1>2 DEF TypeOK, Places, All
  <2> QED
    BY <1>1, <1>2, <2>1, InputIsFixed DEF TypeOK, All
<1>8. Over' = Over /\ Workers' = Workers /\ Parallel' = Parallel
  BY <1>2, <1>4, <1>5, InputIsFixed DEF Over
<1>9. place = "returned" => Over = Workers
  BY <1>2, <1>3 DEF Joined, Over, Workers
<1>10. PlacesMatch'
  <2>1. pc'[Caller] = place
    BY <1>5 DEF All
  <2>2. \A m \in Lanes : pc'[m] = pc[m]
    BY <1>4, <1>5 DEF All
  <2> QED
    BY <1>1, <1>2, <1>3, <1>8, <1>9, <2>1, <2>2 DEF PlacesMatch
<1> QED
  BY <1>6, <1>7, <1>10 DEF IInv

LEMMA GenerateIInv ==
  ASSUME IInv, NEW l \in All, Generate(l)
  PROVE  IInv' /\ at[l] \in Strands /\ times[at[l]] = 0 /\ times' = [times EXCEPT ![at[l]] = 1]
<1> USE DEF StandsAt, Goto
<1>1. TypeOK /\ PlacesMatch /\ CounterFits /\ ClaimsCover
  BY DEF IInv
<1>2. /\ pc[l] = "generate" /\ at[l] < stop[l]
      /\ times' = [times EXCEPT ![at[l]] = Least(@ + 1, 2)]
      /\ at' = [at EXCEPT ![l] = at[l] + 1]
      /\ UNCHANGED <<input, counter, started, pc, stop>>
  BY DEF Generate
<1>3. l \in Workers /\ l \notin Over /\ Over # Workers /\ Workers \subseteq All
  BY <1>1, <1>2, ActorFacts, ThreadFacts
<1>4. /\ count \in Nat /\ \A m \in All : at[m] \in Nat /\ stop[m] \in Nat /\ stop[m] <= count
      /\ \A s \in Strands : s \in Nat
  BY <1>1, BlockFacts DEF TypeOK, All, Strands
<1>5. PICK z \in Strands : z = at[l] /\ z < stop[l]
  BY <1>2, <1>4 DEF Strands
<1>6. Holds(l, z) /\ times[z] = 0
  <2>1. Holds(l, z)
    BY <1>2, <1>4, <1>5 DEF Holds
  <2> QED
    BY <1>1, <1>3, <2>1 DEF ClaimsCover
<1>7. times' = [times EXCEPT ![z] = 1]
  BY <1>2, <1>5, <1>6 DEF Least
<1>8. /\ \A m \in All : at'[m] = IF m = l THEN z + 1 ELSE at[m]
      /\ \A s \in Strands : times'[s] = IF s = z THEN 1 ELSE times[s]
      /\ pc' = pc /\ stop' = stop /\ counter' = counter
      /\ Strands' = Strands /\ Workers' = Workers /\ Blocks' = Blocks /\ Parallel' = Parallel
      /\ Threads' = Threads /\ Frontier' = Frontier /\ Over' = Over /\ count' = count
  BY <1>1, <1>2, <1>5, <1>7, InputIsFixed DEF TypeOK, All, Frontier, Over
<1>9. TypeOK'
  <2>1. at' \in [All -> 0 .. count]
    BY <1>1, <1>2, <1>4, <1>5 DEF TypeOK, All
  <2>2. times' \in [Strands -> 0 .. 2]
    BY <1>1, <1>7 DEF TypeOK
  <2> QED
    BY <1>1, <1>2, <1>8, <2>1, <2>2, InputIsFixed DEF TypeOK, All
<1>10. PlacesMatch'
  BY <1>1, <1>2, <1>8 DEF PlacesMatch
<1>11. \A m \in Workers, s \in Strands : Holds(m, s)' <=> Holds(m, s) /\ s # z
  <2> SUFFICES ASSUME NEW m \in Workers, NEW s \in Strands
               PROVE  Holds(m, s)' <=> Holds(m, s) /\ s # z
    OBVIOUS
  <2>1. CASE m = l
    BY <1>2, <1>3, <1>4, <1>5, <1>8, <2>1 DEF Holds
  <2>2. CASE m # l
    <3>1. Holds(m, s) => s # z
      BY <1>1, <1>3, <1>6, <2>2 DEF ClaimsCover
    <3> QED
      BY <1>3, <1>8, <2>2, <3>1 DEF Holds
  <2> QED
    BY <2>1, <2>2
<1>12. CounterFits'
  <2>1. stop[l] <= Frontier /\ Frontier \in Nat
    <3>1. Frontier \in Nat
      BY <1>1, BlockFacts, StrandTilesAssumption DEF TypeOK, Frontier
    <3> QED
      BY <1>1, <1>2, <1>3, <3>1 DEF CounterFits
  <2>2. z < Frontier
    BY <1>3, <1>4, <1>5, <2>1
  <2>3. \A s \in Strands : s >= Frontier => times'[s] = 0
    BY <1>1, <1>3, <1>4, <1>8, <2>1, <2>2 DEF CounterFits
  <2> QED
    BY <1>1, <1>3, <1>8, <2>3 DEF CounterFits
<1>13. ClaimsCover'
  BY <1>1, <1>6, <1>8, <1>11 DEF ClaimsCover
<1> QED
  BY <1>5, <1>6, <1>7, <1>9, <1>10, <1>12, <1>13 DEF IInv

\* What a claim knows of the counter: it has not wrapped, and does not unless
\* it is the last one of all.
LEMMA CounterFacts ==
  ASSUME IInv, NEW l \in All, pc[l] = "claim"
  PROVE  /\ counter \in Nat /\ Wrap(counter + 1) \in 0 .. Modulus - 1
         /\ counter < Blocks => Over = {} /\ Wrap(counter + 1) = counter + 1
         /\ counter >= Blocks /\ Over \cup {l} # Workers =>
              Wrap(counter + 1) = counter + 1 /\ counter + 1 <= Blocks + Cardinality(Over \cup {l})
<1>1. TypeOK /\ CounterFits /\ l \in Workers /\ l \notin Over /\ Over # Workers
  BY ActorFacts DEF IInv
<1>2. /\ counter \in Nat /\ counter < Modulus /\ Modulus \in Nat /\ Blocks \in Nat
      /\ Threads \in Nat /\ 1 <= Threads /\ Blocks + Threads <= Modulus
  BY <1>1, BlockFacts, ThreadFacts DEF TypeOK
<1>3. PICK n \in Nat : n = Cardinality(Over) /\ n + 1 <= Threads
                       /\ Cardinality(Over \cup {l}) = n + 1
  BY <1>1, OverFacts
<1>4. counter <= Blocks + n /\ (Over # {} => counter >= Blocks)
  BY <1>1, <1>3 DEF CounterFits
<1>5. Over \cup {l} # Workers => n + 2 <= Threads
  <2>1. SUFFICES ASSUME Over \cup {l} # Workers PROVE n + 2 <= Threads
    OBVIOUS
  <2>2. PICK m \in Workers : m \notin Over \cup {l}
    BY <1>1, <2>1, OverFacts
  <2>3. IsFiniteSet(Over \cup {l}) /\ IsFiniteSet((Over \cup {l}) \cup {m})
        /\ Cardinality((Over \cup {l}) \cup {m}) = n + 2
    <3>1. IsFiniteSet(Over \cup {l})
      BY <1>1, OverFacts, FS_AddElement
    <3>2. /\ IsFiniteSet((Over \cup {l}) \cup {m})
          /\ Cardinality((Over \cup {l}) \cup {m}) = Cardinality(Over \cup {l}) + 1
      BY <2>2, <3>1, FS_AddElement
    <3> QED
      BY <1>3, <3>1, <3>2
  <2>4. IsFiniteSet(Workers) /\ Cardinality(Workers) = Threads
    <3>1. CASE Parallel
      BY <1>2, <3>1, FS_Interval DEF Workers
    <3>2. CASE ~Parallel
      <4>1. Threads = 1
        BY <1>2, <3>2 DEF Parallel
      <4> QED
        BY <3>2, <4>1, FS_Singleton DEF Workers
    <3> QED
      BY <3>1, <3>2
  <2>5. (Over \cup {l}) \cup {m} \subseteq Workers
    BY <1>1, <2>2 DEF Over
  <2>6. Cardinality((Over \cup {l}) \cup {m}) <= Cardinality(Workers)
    BY <2>4, <2>5, FS_Subset
  <2> QED
    BY <2>3, <2>4, <2>6
<1>6. Wrap(counter + 1) \in 0 .. Modulus - 1
  <2>1. PICK d \in Nat : d = counter + 1 /\ Modulus \in Nat \ {0}
    BY <1>2
  <2> QED
    BY <2>1 DEF Wrap
<1>7. counter + 1 < Modulus => Wrap(counter + 1) = counter + 1
  BY <1>2 DEF Wrap
<1>8. counter < Blocks => Over = {} /\ Wrap(counter + 1) = counter + 1
  BY <1>2, <1>4, <1>7
<1>9. counter >= Blocks /\ Over \cup {l} # Workers =>
        Wrap(counter + 1) = counter + 1 /\ counter + 1 <= Blocks + Cardinality(Over \cup {l})
  <2>1. SUFFICES ASSUME Over \cup {l} # Workers
                 PROVE  counter + 1 < Modulus /\ counter + 1 <= Blocks + (n + 1)
    BY <1>3, <1>7
  <2> QED
    BY <1>2, <1>4, <1>5, <2>1
<1> QED
  BY <1>2, <1>6, <1>8, <1>9

LEMMA ClaimBlockIInv == ASSUME IInv, NEW l \in All, Claim(l), counter < Blocks PROVE IInv'
<1> USE DEF StandsAt, Goto
<1>1. TypeOK /\ PlacesMatch /\ CounterFits /\ ClaimsCover
  BY DEF IInv
<1>2. /\ pc[l] = "claim" /\ counter' = Wrap(counter + 1)
      /\ at' = [at EXCEPT ![l] = counter * block]
      /\ stop' = [stop EXCEPT ![l] = BlockEnd(counter)]
      /\ pc' = [pc EXCEPT ![l] = "generate"]
      /\ UNCHANGED <<input, started, times>>
  BY DEF Claim
<1>3. l \in Workers /\ Over # Workers /\ Over = {} /\ Workers \subseteq All
  BY <1>1, <1>2, ActorFacts, ThreadFacts, CounterFacts
<1>4. /\ counter \in Nat /\ counter' = counter + 1 /\ counter' \in 0 .. Modulus - 1
      /\ counter' <= Blocks /\ Blocks \in Nat /\ count \in Nat /\ block \in Nat /\ block > 0
      /\ \A s \in Strands : s \in Nat /\ s < count
      /\ \A m \in All : at[m] \in Nat /\ stop[m] \in Nat
  <2>1. /\ Blocks \in Nat /\ count \in Nat /\ block \in Nat /\ block > 0
        /\ \A m \in All : at[m] \in Nat /\ stop[m] \in Nat
        /\ \A s \in Strands : s \in Nat /\ s < count
    BY <1>1, BlockFacts DEF TypeOK, Strands, All
  <2>2. counter \in Nat /\ counter' = counter + 1 /\ counter' \in 0 .. Modulus - 1
    BY <1>2, CounterFacts
  <2> QED
    BY <2>1, <2>2
<1>5. PICK f \in Nat : f = Frontier /\ f = counter * block /\ f < count
  BY <1>1, <1>4, BlockFacts DEF TypeOK, Frontier
<1>6. Frontier' = f + block
  <2>1. (counter + 1) * block = counter * block + block
    BY <1>4, Monotone
  <2> QED
    BY <1>2, <1>4, <1>5, <2>1, InputIsFixed DEF Frontier
<1>7. PICK e \in Nat : e = BlockEnd(counter) /\ e <= count /\ f < e /\ e <= f + block
                       /\ \A s \in Strands : s < f + block => s < e
  BY <1>4, <1>5 DEF BlockEnd, Least
<1>8. /\ \A m \in All : pc'[m] = IF m = l THEN "generate" ELSE pc[m]
      /\ \A m \in All : at'[m] = IF m = l THEN f ELSE at[m]
      /\ \A m \in All : stop'[m] = IF m = l THEN e ELSE stop[m]
      /\ times' = times /\ Strands' = Strands /\ Workers' = Workers /\ Blocks' = Blocks
      /\ Parallel' = Parallel /\ Threads' = Threads /\ count' = count /\ started' = started
  BY <1>1, <1>2, <1>5, <1>7, InputIsFixed DEF TypeOK, All
<1>9. Over' = {}
  BY <1>3, <1>8 DEF Over
<1>10. TypeOK'
  <2>1. pc' \in [All -> Places]
    BY <1>1, <1>2 DEF TypeOK, Places, All
  <2>2. at' \in [All -> 0 .. count] /\ stop' \in [All -> 0 .. count]
    BY <1>1, <1>2, <1>4, <1>5, <1>7 DEF TypeOK, All
  <2> QED
    BY <1>1, <1>2, <1>4, <1>8, <2>1, <2>2, InputIsFixed DEF TypeOK, All
<1>11. PlacesMatch'
  <2>1. \A m \in Lanes : pc'[m] = pc[m] \/ (pc[m] = "claim" /\ pc'[m] = "generate")
    BY <1>2, <1>8 DEF All
  <2>2. \/ pc'[Caller] = pc[Caller]
        \/ pc[Caller] = "claim" /\ pc'[Caller] = "generate"
    BY <1>2, <1>8 DEF All
  <2>3. Workers # {}
    BY <1>1, ThreadFacts
  <2> QED
    BY <1>1, <1>3, <1>8, <1>9, <2>1, <2>2, <2>3 DEF PlacesMatch
<1>12. \A m \in Workers, s \in Strands :
         Holds(m, s)' <=> IF m = l THEN f <= s /\ s < f + block ELSE Holds(m, s)
  BY <1>3, <1>4, <1>7, <1>8 DEF Holds
<1>13. \A m \in Workers, s \in Strands : m # l /\ Holds(m, s) => s < f
  <2> SUFFICES ASSUME NEW m \in Workers, NEW s \in Strands, m # l, Holds(m, s) PROVE s < f
    OBVIOUS
  <2>1. stop[m] <= f /\ s < stop[m]
    BY <1>1, <1>3, <1>5 DEF CounterFits, Holds
  <2> QED
    BY <1>3, <1>4, <2>1
<1>14. CounterFits'
  <2>1. Cardinality({}) = 0
    BY FS_EmptySet
  <2>2. ASSUME NEW m \in Workers, pc'[m] = "generate" PROVE stop'[m] <= f + block
    <3>1. CASE m = l
      BY <1>3, <1>7, <1>8, <3>1
    <3>2. CASE m # l
      <4>1. stop[m] <= f
        BY <1>1, <1>3, <1>5, <1>8, <2>2, <3>2 DEF CounterFits
      <4> QED
        BY <1>3, <1>4, <1>8, <3>2, <4>1
    <3> QED
      BY <3>1, <3>2
  <2>3. \A s \in Strands : s >= f + block => times[s] = 0
    BY <1>1, <1>3, <1>4, <1>5 DEF CounterFits
  <2> QED
    BY <1>4, <1>6, <1>8, <1>9, <2>1, <2>2, <2>3 DEF CounterFits
<1>15. ClaimsCover'
  <2>1. ASSUME NEW s \in Strands, s < f + block
        PROVE  times[s] = 1 \/ \E m \in Workers : Holds(m, s)'
    <3>1. CASE s < f
      <4>1. CASE times[s] = 1
        BY <4>1
      <4>2. CASE \E m \in Workers : Holds(m, s)
        <5>1. PICK m \in Workers : Holds(m, s)
          BY <4>2
        <5>2. m # l
          BY <1>2, <5>1 DEF Holds
        <5> QED
          BY <1>12, <5>1, <5>2
      <4> QED
        BY <1>1, <1>5, <3>1, <4>1, <4>2 DEF ClaimsCover
    <3>2. CASE f <= s
      BY <1>3, <1>12, <2>1, <3>2
    <3> QED
      BY <1>4, <3>1, <3>2
  <2>2. ASSUME NEW m \in Workers, NEW s \in Strands, Holds(m, s)' PROVE times[s] = 0
    <3>1. CASE m = l
      BY <1>1, <1>3, <1>5, <1>12, <2>2, <3>1 DEF CounterFits
    <3>2. CASE m # l
      BY <1>1, <1>12, <2>2, <3>2 DEF ClaimsCover
    <3> QED
      BY <3>1, <3>2
  <2>3. ASSUME NEW m \in Workers, NEW n \in Workers, NEW s \in Strands, Holds(m, s)', Holds(n, s)'
        PROVE  m = n
    <3>1. CASE m # l /\ n # l
      BY <1>1, <1>12, <2>3, <3>1 DEF ClaimsCover
    <3>2. CASE m = l /\ n # l
      BY <1>4, <1>12, <1>13, <2>3, <3>2
    <3>3. CASE m # l /\ n = l
      BY <1>4, <1>12, <1>13, <2>3, <3>3
    <3> QED
      BY <3>1, <3>2, <3>3
  <2>4. \A s \in Strands : times[s] <= 1
    BY <1>1 DEF ClaimsCover
  <2> QED
    BY <1>6, <1>8, <1>9, <2>1, <2>2, <2>3, <2>4 DEF ClaimsCover
<1> QED
  BY <1>10, <1>11, <1>14, <1>15 DEF IInv

\* When a worker sees the end, the strands are generated or held by others.
LEMMA ClaimEndIInv == ASSUME IInv, NEW l \in All, Claim(l), ~(counter < Blocks) PROVE IInv'
<1> USE DEF StandsAt, Goto
<1>1. TypeOK /\ PlacesMatch /\ CounterFits /\ ClaimsCover
  BY DEF IInv
<1>2. PICK place \in {"done", "returned"} :
        /\ pc[l] = "claim" /\ counter' = Wrap(counter + 1)
        /\ place = IF l = Caller THEN "returned" ELSE "done"
        /\ pc' = [pc EXCEPT ![l] = place]
        /\ UNCHANGED <<input, started, times, at, stop>>
  BY DEF Claim
<1>3. l \in Workers /\ l \notin Over /\ Over # Workers /\ Workers \subseteq All /\ Over \subseteq Workers
  BY <1>1, <1>2, ActorFacts, ThreadFacts, OverFacts
<1>4. /\ counter \in Nat /\ Blocks \in Nat /\ counter >= Blocks /\ counter' \in 0 .. Modulus - 1
      /\ Over \cup {l} # Workers =>
           counter' = counter + 1 /\ counter' <= Blocks + Cardinality(Over \cup {l})
      /\ \A s \in Strands : s \in Nat /\ s < count
      /\ count \in Nat /\ block \in Nat
  <2>1. /\ Blocks \in Nat /\ count \in Nat /\ block \in Nat /\ counter \in Nat
        /\ \A s \in Strands : s \in Nat /\ s < count
    BY <1>1, BlockFacts, CounterFacts, <1>2 DEF TypeOK, Strands
  <2>2. counter >= Blocks
    BY <2>1
  <2> QED
    BY <1>2, <2>1, <2>2, CounterFacts
<1>5. PICK f \in Nat : f = Frontier /\ f >= count /\ f = counter * block
  BY <1>1, <1>4, BlockFacts DEF TypeOK, Frontier
<1>6. /\ \A m \in All : pc'[m] = IF m = l THEN place ELSE pc[m]
      /\ times' = times /\ Strands' = Strands /\ Workers' = Workers /\ Blocks' = Blocks
      /\ Parallel' = Parallel /\ Threads' = Threads /\ count' = count /\ started' = started
      /\ at' = at /\ stop' = stop
  BY <1>1, <1>2, InputIsFixed DEF TypeOK, All
<1>7. Over' = Over \cup {l}
  BY <1>3, <1>6 DEF Over
<1>8. TypeOK'
  <2>1. pc' \in [All -> Places]
    BY <1>1, <1>2 DEF TypeOK, Places, All
  <2> QED
    BY <1>1, <1>2, <1>4, <1>6, <2>1, InputIsFixed DEF TypeOK, All
<1>9. PlacesMatch'
  <2>1. CASE l = Caller
    <3>1. ~Parallel /\ place = "returned" /\ Caller \notin Lanes /\ Caller \in All
      BY <1>1, <1>2, <2>1, ThreadFacts DEF PlacesMatch, All
    <3> QED
      BY <1>1, <1>6, <2>1, <3>1 DEF PlacesMatch, All
  <2>2. CASE l # Caller
    <3>1. l \in Lanes /\ place = "done" /\ pc'[Caller] = pc[Caller] /\ pc[Caller] # "returned" /\ Parallel
      <4>1. l \in Lanes /\ place = "done" /\ pc'[Caller] = pc[Caller]
        BY <1>2, <1>6, <2>2 DEF All
      <4>2. Parallel
        BY <1>1, <1>2, <4>1 DEF PlacesMatch
      <4> QED
        BY <1>1, <1>3, <4>1, <4>2 DEF PlacesMatch
    <3> QED
      BY <1>1, <1>2, <1>6, <3>1 DEF PlacesMatch, All
  <2> QED
    BY <2>1, <2>2
<1>10. \A m \in Workers, s \in Strands : Holds(m, s)' <=> Holds(m, s)
  BY <1>2, <1>3, <1>6 DEF Holds
<1>11. CounterFits'
  <2>1. SUFFICES ASSUME Over \cup {l} # Workers PROVE CounterFits'
    BY <1>6, <1>7 DEF CounterFits
  <2>2. Frontier' = f + block
    <3>1. (counter + 1) * block = counter * block + block
      BY <1>4, Monotone
    <3> QED
      BY <1>2, <1>4, <1>5, <2>1, <3>1, InputIsFixed DEF Frontier
  <2>3. \A m \in Workers : pc'[m] = "generate" => stop'[m] <= f + block
    <3> SUFFICES ASSUME NEW m \in Workers, pc'[m] = "generate" PROVE stop[m] <= f + block
      BY <1>6
    <3>1. pc[m] = "generate"
      BY <1>2, <1>3, <1>6
    <3>2. stop[m] <= f /\ stop[m] \in Nat
      BY <1>1, <1>3, <1>4, <1>5, <3>1 DEF CounterFits, TypeOK, All
    <3> QED
      BY <1>4, <3>2
  <2>4. \A s \in Strands : ~(s >= f + block)
    BY <1>4, <1>5
  <2>5. counter' >= Blocks
    BY <1>4, <2>1
  <2> QED
    BY <1>4, <1>6, <1>7, <2>1, <2>2, <2>3, <2>4, <2>5 DEF CounterFits
<1>12. ClaimsCover'
  <2>1. \A s \in Strands : times[s] = 1 \/ \E m \in Workers : Holds(m, s)
    BY <1>1, <1>4, <1>5 DEF ClaimsCover
  <2> QED
    BY <1>1, <1>6, <1>10, <2>1 DEF ClaimsCover
<1> QED
  BY <1>8, <1>9, <1>11, <1>12 DEF IInv

-----------------------------------------------------------------------------
\* The inductive invariant of the loop.
THEOREM InductiveInvariant == Spec => []IInv
<1>1. ASSUME IInv, [Next]_vars PROVE IInv'
  <2>1. CASE \E l \in All : Work(l)
    <3>1. PICK l \in All : Work(l)
      BY <2>1
    <3>2. CASE Claim(l)
      BY <1>1, <3>2, ClaimBlockIInv, ClaimEndIInv
    <3>3. CASE Generate(l)
      BY <1>1, <3>3, GenerateIInv
    <3>4. CASE EndBlock(l)
      BY <1>1, <3>4, EndBlockIInv
    <3> QED
      BY <3>1, <3>2, <3>3, <3>4 DEF Work
  <2>2. CASE StartThread
    BY <1>1, <2>2, StartThreadIInv
  <2>3. CASE StartFails \/ Join
    BY <1>1, <2>3, CallerEndsIInv
  <2>4. CASE UNCHANGED vars
    <3>1. UNCHANGED <<input, counter, started, pc, at, stop, times>>
      BY <2>4 DEF vars, input
    <3>2. TypeOK'
      BY <1>1, <3>1, InputIsFixed DEF IInv, TypeOK
    <3>3. PlacesMatch'
      BY <1>1, <3>1, InputIsFixed DEF IInv, PlacesMatch, StandsAt, Over
    <3>4. CounterFits' /\ ClaimsCover'
      BY <1>1, <3>1, Quiet
    <3> QED
      BY <3>2, <3>3, <3>4 DEF IInv
  <2> QED
    BY <1>1, <2>1, <2>2, <2>3, <2>4 DEF Next, CallerStep, Terminated, All
<1> QED
  BY <1>1, InitIInv, PTL DEF Spec

\* Every variable keeps its type, in particular a strand that is generated is
\* one of the call.
THEOREM TypeCorrect == Spec => []TypeOK
<1>1. IInv => TypeOK
  BY DEF IInv
<1> QED
  BY <1>1, InductiveInvariant, PTL

\* The call is not left while a thread uses its locals.
THEOREM ThreadsAreJoined == Spec => []LocalsOutliveThreads
<1>1. IInv => LocalsOutliveThreads
  <2> SUFFICES ASSUME IInv, pc[Caller] \in {"returned", "threw"}, NEW l \in Lanes
               PROVE  pc[l] \in {"unstarted", "done"}
    BY DEF LocalsOutliveThreads
  <2>1. TypeOK /\ PlacesMatch
    BY DEF IInv
  <2>2. CASE ~Parallel
    BY <2>1, <2>2 DEF PlacesMatch, StandsAt
  <2>3. CASE Parallel /\ pc[Caller] = "threw"
    BY <2>1, <2>3 DEF PlacesMatch, StandsAt, Lanes
  <2>4. CASE Parallel /\ pc[Caller] = "returned"
    <3>1. SUFFICES ASSUME pc[l] # "unstarted" PROVE pc[l] = "done"
      OBVIOUS
    <3>2. l \in Workers
      <4>1. ~(l > started) /\ l \in Nat /\ 1 <= l /\ started \in Nat /\ started <= Threads
        BY <2>1, <2>4, <3>1, ThreadFacts, StrandTilesAssumption DEF PlacesMatch, TypeOK, StandsAt, Lanes
      <4> QED
        BY <2>1, <2>4, <4>1, ThreadFacts DEF Workers
    <3>3. pc[l] \in {"done", "returned"}
      BY <2>1, <2>4, <3>2 DEF PlacesMatch, StandsAt, Over
    <3> QED
      BY <2>1, <3>3 DEF PlacesMatch
  <2> QED
    BY <2>2, <2>3, <2>4
<1> QED
  BY <1>1, InductiveInvariant, PTL

-----------------------------------------------------------------------------
\* Whoever works finds the call not over.
LEMMA WorkBeforeEnd ==
  ASSUME IInv, NEW l \in All, Work(l)
  PROVE  Result = "none"
<1>1. TypeOK /\ PlacesMatch /\ Alive /\ pc[l] \in {"claim", "generate"}
  BY DEF IInv, Work, Claim, Generate, EndBlock, StandsAt
<1>2. l \in Workers /\ Over # Workers
  BY <1>1, ActorFacts
<1>3. CASE Parallel
  <2>1. pc[Caller] # "returned"
    BY <1>1, <1>2, <1>3 DEF PlacesMatch, StandsAt
  <2>2. pc[Caller] # "terminated"
    BY <1>1 DEF Alive, StandsAt
  <2>3. pc[Caller] # "threw"
    <3>1. SUFFICES ASSUME pc[Caller] = "threw" PROVE FALSE
      OBVIOUS
    <3>2. started = 0 /\ l \in Lanes /\ pc[l] # "unstarted"
      BY <1>1, <1>3, <3>1 DEF PlacesMatch, StandsAt, All
    <3> QED
      BY <1>1, <1>3, <3>2, StrandTilesAssumption DEF PlacesMatch, StandsAt, Lanes
  <2> QED
    BY <2>1, <2>2, <2>3 DEF Result, StandsAt
<1>4. CASE ~Parallel
  <2>1. l = Caller
    BY <1>2, <1>4 DEF Workers
  <2> QED
    BY <1>1, <2>1 DEF Result, StandsAt
<1> QED
  BY <1>3, <1>4

\* When all workers have seen the end, every strand is generated.
LEMMA AllGenerated ==
  ASSUME IInv, Over = Workers
  PROVE  \A s \in Strands : times[s] = 1
<1>1. ClaimsCover /\ Over # {}
  BY ThreadFacts DEF IInv
<1>2. \A l \in Workers : pc[l] # "generate"
  BY DEF Over
<1> QED
  BY <1>1, <1>2 DEF ClaimsCover, Holds, StandsAt

\* The caller sees the end of the blocks only when all is generated, if it
\* works alone.
LEMMA AloneGenerated ==
  ASSUME IInv, Claim(Caller), ~(counter < Blocks)
  PROVE  \A s \in Strands : times[s] = 1
<1> USE DEF StandsAt
<1>1. TypeOK /\ PlacesMatch /\ ClaimsCover /\ pc[Caller] = "claim"
  BY DEF IInv, Claim
<1>2. Workers = {Caller}
  BY <1>1 DEF PlacesMatch, Workers
<1>3. \A s \in Strands : s < Frontier
  <2>1. counter \in Nat /\ Blocks \in Nat
    BY <1>1, BlockFacts, StrandTilesAssumption DEF TypeOK
  <2>2. counter * block >= count /\ counter * block \in Nat
    BY <1>1, <2>1, BlockFacts DEF TypeOK
  <2> QED
    BY <1>1, <2>2, BlockFacts DEF TypeOK, Frontier, Strands
<1> QED
  BY <1>1, <1>2, <1>3 DEF ClaimsCover, Holds

LEMMA WorkImplements ==
  ASSUME IInv, NEW l \in All, Work(l)
  PROVE  [Loop!Next]_(Loop!loopVars)
<1> USE DEF StandsAt, Goto
<1>1. TypeOK /\ PlacesMatch /\ Result = "none"
  BY WorkBeforeEnd DEF IInv
<1>2. CASE Generate(l)
  <2>1. PICK s \in Strands : s = at[l] /\ times[s] = 0 /\ times' = [times EXCEPT ![s] = 1]
    BY <1>2, GenerateIInv
  <2>2. count' = count /\ Result' = Result
    BY <1>2 DEF Generate, input, Result
  <2>3. Loop!Handle(s)
    BY <1>1, <2>1, <2>2 DEF Loop!Handle
  <2> QED
    BY <2>1, <2>3 DEF Loop!Next, Loop!Strands, Strands
<1>3. CASE EndBlock(l)
  <2>1. count' = count /\ times' = times /\ pc' = [pc EXCEPT ![l] = "claim"] /\ pc[l] = "generate"
    BY <1>3 DEF EndBlock, input
  <2>2. \/ pc'[Caller] = pc[Caller]
        \/ (pc[Caller] = "generate" /\ pc'[Caller] = "claim")
    BY <1>1, <2>1 DEF TypeOK, All
  <2>3. Result' = Result
    BY <2>2 DEF Result
  <2> QED
    BY <2>1, <2>3 DEF Loop!loopVars
<1>4. CASE Claim(l)
  <2>1. count' = count /\ times' = times /\ pc[l] = "claim"
    BY <1>4 DEF Claim, input
  <2>2. CASE pc'[Caller] = pc[Caller] \/ pc'[Caller] = "generate"
    <3>1. Result' = Result
      BY <1>1, <2>2 DEF Result
    <3> QED
      BY <2>1, <3>1 DEF Loop!loopVars
  <2>3. CASE ~(pc'[Caller] = pc[Caller] \/ pc'[Caller] = "generate")
    <3>1. l = Caller /\ ~(counter < Blocks)
      BY <1>1, <1>4, <2>3 DEF Claim, TypeOK, All
    <3>2. pc'[Caller] = "returned"
      BY <1>1, <1>4, <3>1 DEF Claim, TypeOK, All
    <3>3. Result' = "returned"
      BY <3>2 DEF Result
    <3>4. \A s \in Strands : times[s] = 1
      BY <1>4, <3>1, AloneGenerated
    <3>5. Loop!Return
      BY <1>1, <2>1, <3>3, <3>4 DEF Loop!Return, Loop!Strands, Strands
    <3> QED
      BY <3>5 DEF Loop!Next
  <2> QED
    BY <2>2, <2>3
<1> QED
  BY <1>2, <1>3, <1>4 DEF Work

LEMMA CallerImplements ==
  ASSUME IInv, StartThread \/ StartFails \/ Join
  PROVE  [Loop!Next]_(Loop!loopVars)
<1> USE DEF StandsAt, Goto
<1>1. /\ TypeOK /\ PlacesMatch /\ pc[Caller] = "start" /\ Result = "none"
      /\ count' = count /\ times' = times
  BY DEF IInv, StartThread, StartFails, Join, Result, input
<1>2. CASE StartThread
  <2>1. started + 1 # Caller
    BY <1>1, ThreadFacts DEF TypeOK, Caller
  <2>2. pc'[Caller] = "start"
    BY <1>1, <1>2, <2>1 DEF StartThread, TypeOK
  <2>3. Result' = Result
    BY <1>1, <2>2 DEF Result
  <2> QED
    BY <1>1, <2>3 DEF Loop!loopVars
<1>3. CASE StartFails
  <2>1. pc'[Caller] \in {"threw", "terminated"}
    BY <1>1, <1>3 DEF StartFails, TypeOK
  <2>2. Result' = "failed"
    BY <2>1 DEF Result
  <2>3. Loop!Fail
    BY <1>1, <2>2 DEF Loop!Fail
  <2> QED
    BY <2>3 DEF Loop!Next
<1>4. CASE Join
  <2>1. pc'[Caller] = "returned"
    BY <1>1, <1>4 DEF Join, TypeOK
  <2>2. Result' = "returned"
    BY <2>1 DEF Result
  <2>3. Over = Workers
    BY <1>1, <1>4 DEF Join, Joined, Over, Workers, PlacesMatch
  <2>4. Loop!Return
    BY <1>1, <2>2, <2>3, AllGenerated DEF Loop!Return, Loop!Strands, Strands
  <2> QED
    BY <2>4 DEF Loop!Next
<1> QED
  BY <1>2, <1>3, <1>4

\* The threads of StrandTiles, claiming blocks from a counter that can wrap,
\* do what StrandLoop says: every strand is generated once before the call
\* returns, and none after it.  (Loop!FairSpec without its fairness.)
THEOREM ImplementsLoop == Spec => Loop!Spec
<1>1. Init => Loop!Init
  <2> SUFFICES ASSUME Init PROVE Loop!Init
    OBVIOUS
  <2>1. pc[Caller] \in {"start", "claim"}
    BY DEF Init
  <2>2. Result = "none"
    BY <2>1 DEF Result, StandsAt
  <2>3. count \in Nat
    BY StrandTilesAssumption DEF Init
  <2> QED
    BY <2>2, <2>3 DEF Init, Loop!Init, Loop!Strands, Strands
<1>2. IInv /\ [Next]_vars => [Loop!Next]_(Loop!loopVars)
  <2> SUFFICES ASSUME IInv, [Next]_vars PROVE [Loop!Next]_(Loop!loopVars)
    OBVIOUS
  <2>1. CASE \E l \in All : Work(l)
    BY <2>1, WorkImplements
  <2>2. CASE StartThread \/ StartFails \/ Join
    BY <2>2, CallerImplements
  <2>3. CASE UNCHANGED vars
    BY <2>3 DEF vars, Loop!loopVars, Result, StandsAt
  <2> QED
    BY <2>1, <2>2, <2>3 DEF Next, CallerStep, Terminated, All
<1> QED
  BY <1>1, <1>2, InductiveInvariant, PTL DEF Spec, Loop!Spec

-----------------------------------------------------------------------------
(* What is checked before a launch *)

\* The numbers of a request are natural, and so are the capacities of its arrays.
IsArray(array) == array.capacity \in Nat

IsRequest(p) == p.strands \in Nat /\ p.cvs \in Nat

\* A kernel may write the elements below `needed', if there is an array.
HasRoom(array, needed) == array.there => \A i \in 0 .. needed - 1 : i < array.capacity

-----------------------------------------------------------------------------
(* Places of points *)

\* The rows of a table with rows of one length lie behind one another.
LEMMA RowsApart ==
  ASSUME NEW a \in Nat, NEW b \in Nat, NEW m \in Nat, a < b
  PROVE  a * m \in Nat /\ b * m \in Nat /\ a * m + m <= b * m
<1>1. a + 1 \in Nat /\ a + 1 <= b
  OBVIOUS
<1>2. (a + 1) * m <= b * m /\ (a + 1) * m = a * m + m /\ a * m \in Nat
  BY <1>1, Monotone
<1>3. b * m \in Nat
  OBVIOUS
<1> QED
  BY <1>2, <1>3

\* The points of a strand lie within those of all strands.
LEMMA PointsWithin ==
  ASSUME NEW p, IsRequest(p), NEW s \in 0 .. p.strands - 1, NEW c \in 0 .. p.cvs - 1
  PROVE  PointIndex(p, s, c) \in 0 .. p.strands * p.cvs - 1
<1>1. p.strands \in Nat /\ p.cvs \in Nat
  BY DEF IsRequest
<1>2. PICK n \in Nat : n = p.strands
  BY <1>1
<1>3. PICK m \in Nat : m = p.cvs
  BY <1>1
<1>4. s \in Nat /\ c \in Nat /\ s < n /\ c < m
  BY <1>2, <1>3
<1>5. s * m \in Nat /\ n * m \in Nat /\ s * m + m <= n * m
  BY <1>4, RowsApart
<1>6. PICK first \in Nat : first = s * m
  BY <1>5
<1>7. PICK all \in Nat : all = n * m
  BY <1>5
<1>8. first + c \in 0 .. all - 1
  BY <1>4, <1>5, <1>6, <1>7
<1> QED
  BY <1>2, <1>3, <1>6, <1>7, <1>8 DEF PointIndex

\* The points of different strands are different (make_packed_generate_kernel()
\* runs one thread for each strand, without a lock).
THEOREM StrandsApart ==
  ASSUME NEW p, IsRequest(p),
         NEW s \in 0 .. p.strands - 1, NEW r \in 0 .. p.strands - 1,
         NEW c \in 0 .. p.cvs - 1, NEW d \in 0 .. p.cvs - 1,
         PointIndex(p, s, c) = PointIndex(p, r, d)
  PROVE  s = r /\ c = d
<1>1. p.cvs \in Nat /\ s \in Nat /\ r \in Nat
  BY DEF IsRequest
<1>2. PICK m \in Nat : m = p.cvs
  BY <1>1
<1>3. c \in Nat /\ d \in Nat /\ c < m /\ d < m /\ s * m + c = r * m + d
  BY <1>2 DEF PointIndex
<1>4. ~(s < r)
  <2> SUFFICES ASSUME s < r PROVE FALSE
    OBVIOUS
  <2>1. s * m \in Nat /\ r * m \in Nat /\ s * m + m <= r * m
    BY <1>1, RowsApart
  <2> QED
    BY <1>3, <2>1
<1>5. ~(r < s)
  <2> SUFFICES ASSUME r < s PROVE FALSE
    OBVIOUS
  <2>1. s * m \in Nat /\ r * m \in Nat /\ r * m + m <= s * m
    BY <1>1, RowsApart
  <2> QED
    BY <1>3, <2>1
<1>6. s = r
  BY <1>1, <1>4, <1>5
<1> QED
  BY <1>1, <1>3, <1>6

-----------------------------------------------------------------------------
(* Requests *)

\* A device asset that is accepted is all in its buffer, and a frame replaces an
\* array of it by one of the same size, so that the kernels may read either with
\* the asset's indices (validate_common_device_input()).
LEMMA AcceptedInput ==
  ASSUME NEW d, d.capacity \in Nat, d.header.words \in Nat, NEW frame, NEW p, NEW blockSize,
         CommonInputError(d, frame, p, blockSize) = "None"
  PROVE  /\ d.there /\ d.header.words <= d.capacity
         /\ frame.positions.there => frame.positions.capacity = d.header.vertices
         /\ frame.normals.there => frame.normals.capacity = d.header.vertices
         /\ frame.guideCvs.there => frame.guideCvs.capacity = d.header.guideCvs
<1>1. /\ d.there /\ ~(d.capacity < d.header.words)
      /\ ReplacesArray(frame.positions, d.header.vertices)
      /\ ReplacesArray(frame.normals, d.header.vertices)
      /\ ReplacesArray(frame.guideCvs, d.header.guideCvs)
  BY DEF CommonInputError
<1>2. d.header.words <= d.capacity
  BY <1>1
<1> QED
  BY <1>1, <1>2 DEF ReplacesArray

LEMMA OptionalHolds ==
  ASSUME NEW array, IsArray(array), NEW needed \in Nat, OptionalCapacityValid(array, needed)
  PROVE  HasRoom(array, needed)
BY DEF OptionalCapacityValid, HasRoom, IsArray

\* generate() keeps to the arrays of its caller: a request that is granted has room
\* for every point, width and root that a strand writes
\* (validate_device_generation_request()).
THEOREM GrantedGeneration ==
  ASSUME NEW d, NEW frame, NEW p, NEW out, NEW blockSize,
         IsRequest(p), IsArray(out.points), IsArray(out.widths), IsArray(out.roots),
         GenerationError(d, frame, p, out, blockSize) = "None"
  PROVE  /\ CommonInputError(d, frame, p, blockSize) = "None"
         /\ \A s \in 0 .. p.strands - 1 :
              /\ out.roots.there => s < out.roots.capacity
              /\ \A c \in 0 .. p.cvs - 1 :
                   /\ out.points.there => PointIndex(p, s, c) < out.points.capacity
                   /\ out.widths.there => PointIndex(p, s, c) < out.widths.capacity
<1>1. /\ CommonInputError(d, frame, p, blockSize) = "None"
      /\ OptionalCapacityValid(out.points, p.strands * p.cvs)
      /\ OptionalCapacityValid(out.widths, p.strands * p.cvs)
      /\ OptionalCapacityValid(out.roots, p.strands)
  BY DEF GenerationError
<1>2. p.strands * p.cvs \in Nat /\ p.strands \in Nat
  BY DEF IsRequest
<1>3. /\ HasRoom(out.points, p.strands * p.cvs) /\ HasRoom(out.widths, p.strands * p.cvs)
      /\ HasRoom(out.roots, p.strands)
  BY <1>1, <1>2, OptionalHolds
<1> QED
  BY <1>1, <1>3, PointsWithin DEF HasRoom

\* So does generate_packed(), which has no widths but one needed and one place on
\* the surface for each strand (validate_device_packed_generation_request()).
THEOREM GrantedPacked ==
  ASSUME NEW d, NEW frame, NEW p, NEW out, NEW blockSize,
         IsRequest(p), IsArray(out.points), IsArray(out.roots), IsArray(out.rootUVs), IsArray(out.pointCounts),
         PackedGenerationError(d, frame, p, out, blockSize) = "None"
  PROVE  /\ CommonInputError(d, frame, p, blockSize) = "None"
         /\ \A s \in 0 .. p.strands - 1 :
              /\ out.roots.there => s < out.roots.capacity
              /\ out.rootUVs.there => s < out.rootUVs.capacity
              /\ out.pointCounts.there => s < out.pointCounts.capacity
              /\ \A c \in 0 .. p.cvs - 1 : PointIndex(p, s, c) < out.points.capacity
<1>1. /\ CommonInputError(d, frame, p, blockSize) = "None"
      /\ out.points.there /\ ~(out.points.capacity < p.strands * p.cvs)
      /\ OptionalCapacityValid(out.roots, p.strands)
      /\ OptionalCapacityValid(out.rootUVs, p.strands)
      /\ OptionalCapacityValid(out.pointCounts, p.strands)
  BY DEF PackedGenerationError
<1>2. p.strands * p.cvs \in Nat /\ p.strands \in Nat
  BY DEF IsRequest
<1>3. HasRoom(out.roots, p.strands) /\ HasRoom(out.rootUVs, p.strands) /\ HasRoom(out.pointCounts, p.strands)
  BY <1>1, <1>2, OptionalHolds
<1>4. \A i \in 0 .. p.strands * p.cvs - 1 : i < out.points.capacity
  BY <1>1, <1>2 DEF IsArray
<1> QED
  BY <1>1, <1>3, <1>4, PointsWithin DEF HasRoom

\* A set of naturals that is not empty has a least element.
LEMMA LeastNatural ==
  ASSUME NEW T \in SUBSET Nat, T # {}
  PROVE  \E x \in T : \A y \in T : x <= y
<1>1. PICK R : R = OpToRel(<, Nat)
  OBVIOUS
<1>2. IsWellFoundedOn(R, Nat)
  BY <1>1, NatLessThanWellFounded
<1>3. PICK x \in T : \A y \in T : ~(<<y, x>> \in R)
  BY <1>2, WFMin
<1>4. R = {ss \in Nat \X Nat : ss[1] < ss[2]}
  BY <1>1, Zenon DEF OpToRel
<1>5. \A y \in T : y < x => <<y, x>> \in R
  BY <1>4
<1>6. \A y \in T : y < x => FALSE
  BY <1>3, <1>5
<1>7. x \in Nat /\ \A y \in T : y \in Nat
  BY <1>3
<1> QED
  BY <1>3, <1>6, <1>7

\* Times that increase from each sample to the next increase throughout.
LEMMA TimesIncrease ==
  ASSUME NEW n \in Nat, NEW t, \A i \in 1 .. n : t[i] \in Int,
         \A i \in 2 .. n : t[i - 1] < t[i],
         NEW i \in 1 .. n, NEW j \in 1 .. n, i < j
  PROVE  t[i] < t[j]
<1> DEFINE Late == {k \in Nat : i < k /\ k <= n /\ ~(t[i] < t[k])}
<1> SUFFICES ASSUME ~(t[i] < t[j]) PROVE FALSE
  OBVIOUS
<1>1. Late \in SUBSET Nat /\ j \in Late
  OBVIOUS
<1>2. PICK k \in Late : \A l \in Late : k <= l
  <2> HIDE DEF Late
  <2> QED
    BY <1>1, LeastNatural
<1>3. k \in 2 .. n /\ i <= k - 1 /\ k - 1 \in 1 .. n /\ k - 1 \notin Late /\ ~(t[i] < t[k])
  BY <1>2
<1>4. t[k - 1] < t[k] /\ t[i] \in Int /\ t[k] \in Int /\ t[k - 1] \in Int
  BY <1>3
<1>5. i = k - 1 \/ t[i] < t[k - 1]
  BY <1>3
<1> QED
  BY <1>3, <1>4, <1>5

\* So does the generation of motion samples: all of them are looked at, their times
\* increase throughout, and there is room for the points of every strand in
\* every sample, sample by sample (validate_device_motion_generation_request()).
THEOREM GrantedMotion ==
  ASSUME NEW d, NEW samples, NEW n \in Nat, DOMAIN samples = 1 .. n, Len(samples) = n,
         \A i \in 1 .. n : samples[i].time \in Int,
         NEW p, NEW out, NEW blockSize, IsRequest(p), IsArray(out),
         MotionGenerationError(d, samples, p, out, blockSize) = "None"
  PROVE  /\ \A i \in 1 .. n : CommonInputError(d, samples[i].frame, p, blockSize) = "None"
         /\ \A i, j \in 1 .. n : i < j => samples[i].time < samples[j].time
         /\ out.there
         /\ \A i \in 1 .. n, s \in 0 .. p.strands - 1, c \in 0 .. p.cvs - 1 :
              (i - 1) * (p.strands * p.cvs) + PointIndex(p, s, c) < out.capacity
<1> DEFINE SampleError(i) ==
             IF i > 1 /\ samples[i].time <= samples[i - 1].time THEN "InvalidMotionTimes"
             ELSE CommonInputError(d, samples[i].frame, p, blockSize)
           bad == {i \in DOMAIN samples : SampleError(i) # "None"}
<1>1. bad = {}
  <2> SUFFICES ASSUME bad # {} PROVE FALSE
    OBVIOUS
  <2>1. bad \in SUBSET Nat
    OBVIOUS
  <2>2. PICK m \in bad : \A y \in bad : m <= y
    <3> HIDE DEF bad
    <3> QED
      BY <2>1, LeastNatural
  <2>3. Min(bad) \in bad
    <3> HIDE DEF bad
    <3> QED
      BY <2>2 DEF Min
  <2>4. SampleError(Min(bad)) # "None"
    <3> HIDE DEF SampleError
    <3> QED
      BY <2>3
  <2>5. MotionGenerationError(d, samples, p, out, blockSize) \in {"MissingMotionSamples", SampleError(Min(bad))}
    BY DEF MotionGenerationError
  <2> QED
    BY <2>4, <2>5
<1>2. /\ out.there /\ ~(out.capacity < p.strands * p.cvs * n)
  <2> HIDE DEF SampleError
  <2>1. MotionGenerationError(d, samples, p, out, blockSize) =
          (IF samples = <<>> THEN "MissingMotionSamples"
           ELSE IF ~out.there \/ out.capacity < p.strands * p.cvs * n THEN "MotionPointCapacityTooSmall"
           ELSE "None")
    BY <1>1 DEF MotionGenerationError, SampleError
  <2> QED
    BY <2>1
<1>3. \A i \in 1 .. n : SampleError(i) = "None"
  <2> HIDE DEF SampleError
  <2> QED
    BY <1>1
<1>4. \A i \in 1 .. n : CommonInputError(d, samples[i].frame, p, blockSize) = "None"
  BY <1>3
<1>5. \A i \in 2 .. n : samples[i - 1].time < samples[i].time
  BY <1>3
<1>6. ASSUME NEW i \in 1 .. n, NEW j \in 1 .. n, i < j PROVE samples[i].time < samples[j].time
  <2> DEFINE t == [k \in 1 .. n |-> samples[k].time]
  <2>1. /\ \A k \in 1 .. n : t[k] = samples[k].time /\ t[k] \in Int
        /\ \A k \in 2 .. n : t[k - 1] < t[k]
    BY <1>5
  <2> HIDE DEF t
  <2>2. t[i] < t[j]
    BY <1>6, <2>1, TimesIncrease
  <2> QED
    BY <2>1, <2>2
<1>7. ASSUME NEW i \in 1 .. n, NEW s \in 0 .. p.strands - 1, NEW c \in 0 .. p.cvs - 1
      PROVE (i - 1) * (p.strands * p.cvs) + PointIndex(p, s, c) < out.capacity
  <2>1. PICK all \in Nat : all = p.strands * p.cvs
    BY DEF IsRequest
  <2>2. PointIndex(p, s, c) \in 0 .. all - 1
    BY <2>1, PointsWithin
  <2>3. i - 1 \in Nat /\ i - 1 < n
    OBVIOUS
  <2>4. (i - 1) * all \in Nat /\ n * all \in Nat /\ (i - 1) * all + all <= n * all
    BY <2>1, <2>3, RowsApart
  <2>5. n * all = all * n /\ ~(out.capacity < all * n) /\ out.capacity \in Nat
    BY <1>2, <2>1 DEF IsArray
  <2>6. PICK before \in Nat : before = (i - 1) * all
    BY <2>4
  <2>7. PICK last \in Nat : last = n * all
    BY <2>4
  <2>8. PICK index \in 0 .. all - 1 : index = PointIndex(p, s, c)
    BY <2>2
  <2>9. PICK room \in Nat : room = out.capacity
    BY <2>5
  <2>10. last <= room
    BY <2>5, <2>7, <2>9
  <2>11. before + all <= last
    BY <2>4, <2>6, <2>7
  <2>12. before + index < room
    BY <2>1, <2>10, <2>11
  <2> QED
    BY <2>1, <2>6, <2>8, <2>9, <2>12
<1> QED
  BY <1>2, <1>4, <1>6, <1>7

-----------------------------------------------------------------------------
(* Folds over the places of a sequence *)

\* A set that has 0, and with each number below n the next one, has n.
LEMMA Induct ==
  ASSUME NEW n \in Nat, NEW T, 0 \in T, \A m \in 1 .. n : m - 1 \in T => m \in T
  PROVE  \A m \in 0 .. n : m \in T
<1> DEFINE Missing == {m \in 0 .. n : m \notin T}
<1> SUFFICES ASSUME Missing # {} PROVE FALSE
  OBVIOUS
<1>1. Missing \in SUBSET Nat
  OBVIOUS
<1>2. PICK x \in Missing : \A y \in Missing : x <= y
  <2> HIDE DEF Missing
  <2> QED
    BY <1>1, LeastNatural
<1>3. x \in 1 .. n /\ x - 1 \in 0 .. n /\ x - 1 \notin Missing /\ x \notin T
  BY <1>2
<1> QED
  BY <1>3

LEMMA MaxIsLast ==
  ASSUME NEW n \in Nat, NEW s \in SUBSET (1 .. n), s # {}
  PROVE  Max(s) \in s /\ \A y \in s : Max(s) >= y
<1> DEFINE Rest == {n - y : y \in s}
<1>1. Rest \in SUBSET Nat /\ Rest # {}
  <2>1. \A y \in s : n - y \in Nat
    OBVIOUS
  <2>2. PICK y : y \in s
    OBVIOUS
  <2>3. n - y \in Rest
    BY <2>2
  <2> QED
    BY <2>1, <2>3
<1>2. PICK r \in Rest : \A y \in Rest : r <= y
  <2> HIDE DEF Rest
  <2> QED
    BY <1>1, LeastNatural
<1>3. PICK x \in s : r = n - x
  OBVIOUS
<1>4. \A y \in s : x >= y
  <2> TAKE y \in s
  <2>1. n - x <= n - y
    BY <1>2, <1>3
  <2> QED
    BY <2>1
<1> QED
  BY <1>4 DEF Max

LEMMA UpTo ==
  ASSUME NEW n \in Nat, NEW m \in 1 .. n
  PROVE  1 .. m \in SUBSET (1 .. n) /\ 1 .. m # {} /\ Max(1 .. m) = m /\ (1 .. m) \ {m} = 1 .. m - 1
<1>1. 1 .. m \in SUBSET (1 .. n) /\ m \in 1 .. m
  OBVIOUS
<1>2. Max(1 .. m) \in 1 .. m /\ Max(1 .. m) >= m
  BY <1>1, MaxIsLast
<1>3. Max(1 .. m) = m
  BY <1>2
<1> QED
  BY <1>1, <1>3

\* FoldLeft() folds over the sets of places, from the largest place down.
IsFold(g, n, S, base, Step) ==
  /\ g \in [SUBSET (1 .. n) -> S]
  /\ \A s \in SUBSET (1 .. n) :
       g[s] = IF s = {} THEN base ELSE Step[<<g[s \ {Max(s)}], Max(s)>>]

LEMMA Folds ==
  ASSUME NEW n \in Nat, NEW S, NEW base \in S, NEW Step \in [S \X (1 .. n) -> S]
  PROVE  \E g : IsFold(g, n, S, base, Step)
<1> DEFINE Taken(m) == {g \in [SUBSET (1 .. m) -> S] :
                         \A s \in SUBSET (1 .. m) :
                           g[s] = IF s = {} THEN base ELSE Step[<<g[s \ {Max(s)}], Max(s)>>]}
           T == {m \in 0 .. n : Taken(m) # {}}
<1>1. 0 \in T
  <2> DEFINE g == [s \in SUBSET (1 .. 0) |-> base]
  <2>1. \A s \in SUBSET (1 .. 0) : s = {}
    OBVIOUS
  <2>2. g \in Taken(0)
    BY <2>1
  <2> QED
    <3> HIDE DEF g, Taken
    <3> QED
      BY <2>2
<1>2. ASSUME NEW m \in 1 .. n, m - 1 \in T PROVE m \in T
  <2>1. PICK g : g \in Taken(m - 1)
    BY <1>2
  <2> DEFINE h == [s \in SUBSET (1 .. m) |-> IF m \in s THEN Step[<<g[s \ {m}], m>>] ELSE g[s]]
  <2>2. ASSUME NEW s \in SUBSET (1 .. m), m \in s
        PROVE  /\ s \ {m} \in SUBSET (1 .. m - 1) /\ Max(s) = m /\ s # {}
               /\ h[s] = Step[<<g[s \ {m}], m>>] /\ h[s \ {m}] = g[s \ {m}] /\ h[s] \in S
    <3>1. Max(s) \in 1 .. m /\ Max(s) >= m
      <4>1. m \in Nat /\ s # {}
        BY <2>2
      <4>2. Max(s) \in s /\ \A y \in s : Max(s) >= y
        BY <4>1, MaxIsLast
      <4> QED
        BY <2>2, <4>2
    <3>2. s \ {m} \in SUBSET (1 .. m - 1)
      BY <2>2
    <3>3. g[s \ {m}] \in S
      BY <2>1, <3>2
    <3>4. s \ {m} \in SUBSET (1 .. m) /\ m \notin s \ {m}
      OBVIOUS
    <3> QED
      BY <2>2, <3>1, <3>2, <3>3, <3>4
  <2>3. ASSUME NEW s \in SUBSET (1 .. m), m \notin s
        PROVE  s \in SUBSET (1 .. m - 1) /\ h[s] = g[s] /\ h[s] \in S
    <3>1. s \in SUBSET (1 .. m - 1)
      BY <2>3
    <3> QED
      BY <2>1, <2>3, <3>1
  <2>4. h \in [SUBSET (1 .. m) -> S]
    <3>1. \A s \in SUBSET (1 .. m) : h[s] \in S
      BY <2>2, <2>3
    <3> QED
      BY <3>1
  <2>5. ASSUME NEW s \in SUBSET (1 .. m)
        PROVE  h[s] = IF s = {} THEN base ELSE Step[<<h[s \ {Max(s)}], Max(s)>>]
    <3> HIDE DEF h
    <3>1. CASE m \in s
      BY <2>2, <3>1
    <3>2. CASE s = {}
      BY <2>1, <2>3, <3>2
    <3>3. CASE m \notin s /\ s # {}
      <4>1. s \in SUBSET (1 .. m - 1) /\ h[s] = g[s]
        BY <2>3, <3>3
      <4>2. s \ {Max(s)} \in SUBSET (1 .. m) /\ m \notin s \ {Max(s)}
        BY <3>3
      <4>3. h[s \ {Max(s)}] = g[s \ {Max(s)}]
        BY <2>3, <4>2
      <4> QED
        BY <2>1, <3>3, <4>1, <4>3
    <3> QED
      BY <3>1, <3>2, <3>3
  <2>6. h \in Taken(m)
    <3> HIDE DEF h
    <3> QED
      BY <2>4, <2>5
  <2> QED
    <3> HIDE DEF h, Taken
    <3> QED
      BY <2>6
<1>3. n \in T
  <2> HIDE DEF T
  <2> QED
    BY <1>1, <1>2, Induct
<1>4. PICK g : g \in Taken(n)
  BY <1>3
<1> QED
  BY <1>4 DEF IsFold

\* A fold that exists, with what its steps are taken from.
LEMMA FoldsWithin ==
  ASSUME NEW n \in Nat, NEW S, NEW base \in S, NEW Step \in [S \X (1 .. n) -> S]
  PROVE  \E g : /\ IsFold(g, n, S, base, Step)
                /\ \A s \in SUBSET (1 .. n) : s # {} => Max(s) \in 1 .. n /\ g[s \ {Max(s)}] \in S
<1>1. PICK g : IsFold(g, n, S, base, Step)
  BY Folds, Zenon
<1>2. ASSUME NEW s \in SUBSET (1 .. n), s # {}
      PROVE  Max(s) \in 1 .. n /\ g[s \ {Max(s)}] \in S
  <2>1. Max(s) \in s
    BY <1>2, MaxIsLast
  <2>2. s \ {Max(s)} \in SUBSET (1 .. n)
    OBVIOUS
  <2> QED
    BY <1>1, <2>1, <2>2 DEF IsFold
<1> QED
  BY <1>1, <1>2

-----------------------------------------------------------------------------
(* Sums *)

\* The totals of the first numbers of a sequence.
AreTotals(off, n, numbers) ==
  /\ off \in [0 .. n -> Int] /\ off[0] = 0
  /\ \A m \in 1 .. n : off[m] = off[m - 1] + numbers[m]

LEMMA SumTotals ==
  ASSUME NEW n \in Nat, NEW numbers \in [1 .. n -> Int]
  PROVE  \E off : AreTotals(off, n, numbers) /\ NumberSum(numbers) = off[n]
<1> DEFINE Once(x, m) == x + numbers[m]
           Step == [x \in Int \X (1 .. n) |-> Once(x[1], x[2])]
<1>1. DOMAIN numbers = 1 .. n /\ \A m \in 1 .. n : numbers[m] \in Int
  OBVIOUS
<1>2. Step \in [Int \X (1 .. n) -> Int] /\ \A x \in Int, m \in 1 .. n : Step[<<x, m>>] = Once(x, m)
  <2>1. ASSUME NEW x \in Int, NEW m \in 1 .. n PROVE Once(x, m) \in Int
    BY <1>1
  <2> HIDE DEF Once
  <2> QED
    BY <2>1
<1>3. PICK g : /\ IsFold(g, n, Int, 0, Step)
               /\ \A r \in SUBSET (1 .. n) : r # {} => Max(r) \in 1 .. n /\ g[r \ {Max(r)}] \in Int
  <2>1. 0 \in Int
    OBVIOUS
  <2> HIDE DEF Step
  <2> QED
    BY <1>2, <2>1, FoldsWithin
<1>4. g = [r \in SUBSET (1 .. n) |-> IF r = {} THEN 0 ELSE Once(g[r \ {Max(r)}], Max(r))]
  <2>1. \A r \in SUBSET (1 .. n) : g[r] = IF r = {} THEN 0 ELSE Once(g[r \ {Max(r)}], Max(r))
    <3> HIDE DEF Step, Once
    <3> QED
      BY <1>2, <1>3 DEF IsFold
  <2>2. g = [r \in SUBSET (1 .. n) |-> g[r]]
    BY <1>3 DEF IsFold
  <2> QED
    BY <2>1, <2>2
<1>5. PICK f : f = CHOOSE r : r = [s \in SUBSET (DOMAIN numbers) |-> IF s = {} THEN 0 ELSE Once(r[s \ {Max(s)}], Max(s))]
  OBVIOUS
<1>6. f = [s \in SUBSET (1 .. n) |-> IF s = {} THEN 0 ELSE Once(f[s \ {Max(s)}], Max(s))]
  <2>1. f = CHOOSE r : r = [s \in SUBSET (1 .. n) |-> IF s = {} THEN 0 ELSE Once(r[s \ {Max(s)}], Max(s))]
    <3> HIDE DEF Once
    <3> QED
      BY <1>1, <1>5
  <2> HIDE DEF Once
  <2> QED
    BY <1>4, <2>1
<1>7. NumberSum(numbers) = f[1 .. n]
  <2>1. NumberSum(numbers) = f[DOMAIN numbers]
    BY <1>5 DEF NumberSum, FoldLeft, MapThenFoldSet
  <2> QED
    BY <1>1, <2>1
<1> DEFINE off == [m \in 0 .. n |-> f[1 .. m]]
<1>8. off[0] = 0 /\ \A m \in 1 .. n : off[m] = Once(off[m - 1], m)
  <2>1. f[1 .. 0] = 0
    BY <1>6
  <2>2. ASSUME NEW m \in 1 .. n PROVE f[1 .. m] = Once(f[1 .. m - 1], m)
    <3>1. /\ 1 .. m \in SUBSET (1 .. n) /\ 1 .. m # {} /\ Max(1 .. m) = m
          /\ (1 .. m) \ {m} = 1 .. m - 1
      BY UpTo
    <3> HIDE DEF Once
    <3>2. f[1 .. m] = Once(f[(1 .. m) \ {Max(1 .. m)}], Max(1 .. m))
      BY <1>6, <3>1
    <3> QED
      BY <3>1, <3>2
  <2> HIDE DEF Once
  <2> QED
    BY <2>1, <2>2
<1>9. off[n] = f[1 .. n] /\ off = [m \in 0 .. n |-> off[m]]
  OBVIOUS
<1> HIDE DEF off
<1> DEFINE T == {m \in 0 .. n : off[m] \in Int}
<1>10. 0 \in T
  BY <1>8
<1>11. ASSUME NEW m \in 1 .. n, m - 1 \in T PROVE m \in T
  <2>1. off[m - 1] \in Int /\ numbers[m] \in Int /\ off[m] = off[m - 1] + numbers[m]
    BY <1>1, <1>8, <1>11
  <2> QED
    BY <2>1
<1>12. \A m \in 0 .. n : off[m] \in Int
  <2> HIDE DEF T
  <2>1. \A m \in 0 .. n : m \in T
    BY <1>10, <1>11, Induct
  <2> QED
    BY <2>1 DEF T
<1>13. AreTotals(off, n, numbers)
  BY <1>8, <1>9, <1>12 DEF AreTotals
<1> QED
  BY <1>7, <1>9, <1>13

\* One number that changes.
LEMMA SumOfChanged ==
  ASSUME NEW n \in Nat, NEW a \in [1 .. n -> Int], NEW b \in [1 .. n -> Int], NEW i \in 1 .. n,
         \A j \in 1 .. n : j # i => b[j] = a[j]
  PROVE  /\ NumberSum(a) \in Int /\ NumberSum(b) \in Int
         /\ NumberSum(b) = NumberSum(a) - a[i] + b[i]
<1>1. PICK f : AreTotals(f, n, a) /\ NumberSum(a) = f[n]
  BY SumTotals
<1>2. PICK g : AreTotals(g, n, b) /\ NumberSum(b) = g[n]
  BY SumTotals
<1>3. /\ \A m \in 0 .. n : f[m] \in Int /\ g[m] \in Int
      /\ \A m \in 1 .. n : f[m] = f[m - 1] + a[m] /\ g[m] = g[m - 1] + b[m] /\ a[m] \in Int /\ b[m] \in Int
      /\ f[0] = 0 /\ g[0] = 0
  BY <1>1, <1>2 DEF AreTotals
<1> DEFINE T == {m \in 0 .. n : g[m] = f[m] + (IF m < i THEN 0 ELSE b[i] - a[i])}
<1>4. 0 \in T
  BY <1>3
<1>5. ASSUME NEW m \in 1 .. n, m - 1 \in T PROVE m \in T
  <2>1. f[m - 1] \in Int /\ g[m - 1] \in Int /\ m \in 0 .. n
    BY <1>3
  <2>2. CASE m = i
    BY <1>3, <1>5, <2>1, <2>2
  <2>3. CASE m < i
    BY <1>3, <1>5, <2>1, <2>3
  <2>4. CASE m > i
    <3>1. ~(m - 1 < i) /\ ~(m < i) /\ b[m] = a[m]
      BY <2>4
    <3>2. g[m - 1] = f[m - 1] + (b[i] - a[i])
      BY <1>5, <3>1
    <3>3. g[m] = f[m] + (b[i] - a[i])
      BY <1>3, <2>1, <3>1, <3>2
    <3> QED
      BY <2>1, <3>1, <3>3
  <2> QED
    BY <2>2, <2>3, <2>4
<1>6. n \in T
  <2> HIDE DEF T
  <2>1. \A m \in 0 .. n : m \in T
    BY <1>4, <1>5, Induct
  <2> QED
    BY <2>1
<1> QED
  BY <1>1, <1>2, <1>3, <1>6

\* Numbers that are a multiple of others, less a number.
LEMMA SumOfScaled ==
  ASSUME NEW n \in Nat, NEW a \in [1 .. n -> Int], NEW b \in [1 .. n -> Int], NEW c \in Int, NEW d \in Int,
         \A j \in 1 .. n : b[j] = a[j] * c - d
  PROVE  /\ NumberSum(a) \in Int /\ NumberSum(b) \in Int
         /\ NumberSum(b) = NumberSum(a) * c - n * d
<1>1. PICK f : AreTotals(f, n, a) /\ NumberSum(a) = f[n]
  BY SumTotals
<1>2. PICK g : AreTotals(g, n, b) /\ NumberSum(b) = g[n]
  BY SumTotals
<1>3. /\ \A m \in 0 .. n : f[m] \in Int /\ g[m] \in Int
      /\ \A m \in 1 .. n : f[m] = f[m - 1] + a[m] /\ g[m] = g[m - 1] + b[m] /\ a[m] \in Int /\ b[m] \in Int
      /\ f[0] = 0 /\ g[0] = 0
  BY <1>1, <1>2 DEF AreTotals
<1> DEFINE T == {m \in 0 .. n : g[m] = f[m] * c - m * d}
<1>4. 0 \in T
  BY <1>3
<1>5. ASSUME NEW m \in 1 .. n, m - 1 \in T PROVE m \in T
  <2>1. f[m - 1] \in Int /\ g[m - 1] \in Int /\ m \in 0 .. n /\ m - 1 \in Int /\ a[m] \in Int
    BY <1>3
  <2>2. g[m] = (f[m - 1] * c - (m - 1) * d) + (a[m] * c - d)
    BY <1>3, <1>5
  <2>3. f[m] * c = f[m - 1] * c + a[m] * c
    <3>1. \A x \in Int, y \in Int : (x + y) * c = x * c + y * c
      OBVIOUS
    <3>2. f[m] = f[m - 1] + a[m]
      BY <1>3
    <3> QED
      BY <2>1, <3>1, <3>2, Zenon
  <2>4. (m - 1) * d = m * d - d
    OBVIOUS
  <2>5. f[m - 1] * c \in Int /\ a[m] * c \in Int /\ m * d \in Int
    BY <2>1
  <2>6. PICK p \in Int : p = f[m - 1] * c
    BY <2>5
  <2>7. PICK q \in Int : q = a[m] * c
    BY <2>5
  <2>8. PICK r \in Int : r = m * d
    BY <2>5
  <2>9. PICK u : u = (m - 1) * d
    OBVIOUS
  <2>10. PICK w : w = f[m] * c
    OBVIOUS
  <2>11. g[m] = (p - u) + (q - d) /\ w = p + q /\ u = r - d
    BY <2>2, <2>3, <2>4, <2>6, <2>7, <2>8, <2>9, <2>10
  <2>12. g[m] = w - r
    <3>1. g[m] = (p - (r - d)) + (q - d)
      BY <2>11
    <3>2. p \in Int /\ q \in Int /\ r \in Int /\ d \in Int
      BY <2>6, <2>7, <2>8
    <3>3. (p - (r - d)) + (q - d) = (p + q) - r
      BY <3>2
    <3> QED
      BY <2>11, <3>1, <3>3, Zenon
  <2>13. g[m] = f[m] * c - m * d
    BY <2>8, <2>10, <2>12
  <2> QED
    BY <2>1, <2>13
<1>6. n \in T
  <2> HIDE DEF T
  <2>1. \A m \in 0 .. n : m \in T
    BY <1>4, <1>5, Induct
  <2> QED
    BY <2>1
<1> QED
  BY <1>1, <1>2, <1>3, <1>6

\* Numbers that are not negative, each of which is part of the sum.
LEMMA SumOfNaturals ==
  ASSUME NEW n \in Nat, NEW a \in [1 .. n -> Nat]
  PROVE  NumberSum(a) \in Nat /\ \A i \in 1 .. n : a[i] <= NumberSum(a)
<1>1. PICK f : AreTotals(f, n, a) /\ NumberSum(a) = f[n]
  BY SumTotals
<1>2. /\ \A m \in 0 .. n : f[m] \in Int
      /\ \A m \in 1 .. n : f[m] = f[m - 1] + a[m] /\ a[m] \in Nat
      /\ f[0] = 0
  BY <1>1 DEF AreTotals
<1> DEFINE T == {m \in 0 .. n : f[m] >= 0 /\ \A i \in 1 .. m : a[i] <= f[m]}
<1>3. 0 \in T
  BY <1>2
<1>4. ASSUME NEW m \in 1 .. n, m - 1 \in T PROVE m \in T
  <2>1. f[m - 1] \in Int /\ f[m - 1] >= 0 /\ f[m] = f[m - 1] + a[m] /\ a[m] \in Nat /\ m \in 0 .. n
    BY <1>2, <1>4
  <2>2. ASSUME NEW i \in 1 .. m PROVE a[i] <= f[m]
    <3>1. CASE i = m
      BY <2>1, <3>1
    <3>2. CASE i \in 1 .. m - 1
      <4>1. a[i] <= f[m - 1] /\ a[i] \in Nat
        BY <1>2, <1>4, <3>2
      <4> QED
        BY <2>1, <4>1
    <3> QED
      BY <3>1, <3>2
  <2> QED
    BY <2>1, <2>2
<1>5. n \in T
  <2> HIDE DEF T
  <2>1. \A m \in 0 .. n : m \in T
    BY <1>3, <1>4, Induct
  <2> QED
    BY <2>1
<1> QED
  BY <1>1, <1>2, <1>5

LEMMA SumOfOpposites ==
  ASSUME NEW n \in Nat, NEW a \in [1 .. n -> Int], NEW b \in [1 .. n -> Int], \A j \in 1 .. n : b[j] = -a[j]
  PROVE  NumberSum(b) = -NumberSum(a) /\ (NumberSum(a) = 0 => NumberSum(b) = 0)
<1>1. PICK f : AreTotals(f, n, a) /\ NumberSum(a) = f[n]
  BY SumTotals
<1>2. PICK g : AreTotals(g, n, b) /\ NumberSum(b) = g[n]
  BY SumTotals
<1>3. /\ \A m \in 0 .. n : f[m] \in Int /\ g[m] \in Int
      /\ \A m \in 1 .. n : f[m] = f[m - 1] + a[m] /\ g[m] = g[m - 1] + b[m] /\ a[m] \in Int /\ b[m] \in Int
      /\ f[0] = 0 /\ g[0] = 0
  BY <1>1, <1>2 DEF AreTotals
<1> DEFINE T == {m \in 0 .. n : g[m] = -f[m]}
<1>4. 0 \in T
  BY <1>3
<1>5. ASSUME NEW m \in 1 .. n, m - 1 \in T PROVE m \in T
  <2>1. f[m - 1] \in Int /\ a[m] \in Int /\ m \in 0 .. n /\ b[m] = -a[m]
    BY <1>3
  <2>2. f[m] = f[m - 1] + a[m] /\ g[m] = -f[m - 1] + -a[m]
    BY <1>3, <1>5, <2>1
  <2>3. g[m] = -f[m]
    BY <2>1, <2>2
  <2> QED
    BY <2>1, <2>3
<1>6. n \in T
  <2> HIDE DEF T
  <2>1. \A m \in 0 .. n : m \in T
    BY <1>4, <1>5, Induct
  <2> QED
    BY <2>1
<1> QED
  BY <1>1, <1>2, <1>3, <1>6

\* Numbers of one sign whose sum is 0 are 0.
LEMMA SumOfNothing ==
  ASSUME NEW n \in Nat, NEW a \in [1 .. n -> Int], NumberSum(a) = 0,
         (\A i \in 1 .. n : a[i] >= 0) \/ (\A i \in 1 .. n : a[i] <= 0)
  PROVE  \A i \in 1 .. n : a[i] = 0
<1>1. CASE \A i \in 1 .. n : a[i] >= 0
  <2>1. a \in [1 .. n -> Nat]
    <3>1. a = [i \in 1 .. n |-> a[i]] /\ \A i \in 1 .. n : a[i] \in Nat
      BY <1>1
    <3> QED
      BY <3>1
  <2>2. \A i \in 1 .. n : a[i] <= 0
    BY <2>1, SumOfNaturals
  <2> QED
    BY <1>1, <2>2
<1>2. CASE \A i \in 1 .. n : a[i] <= 0
  <2> DEFINE b == [i \in 1 .. n |-> -a[i]]
  <2>1. b \in [1 .. n -> Nat] /\ b \in [1 .. n -> Int]
    BY <1>2
  <2>2. \A i \in 1 .. n : b[i] = -a[i]
    OBVIOUS
  <2> HIDE DEF b
  <2>3. NumberSum(b) = 0
    BY <2>1, <2>2, SumOfOpposites
  <2>4. \A i \in 1 .. n : b[i] <= 0
    BY <2>1, <2>3, SumOfNaturals
  <2> QED
    BY <1>2, <2>1, <2>2, <2>4
<1> QED
  BY <1>1, <1>2

LEMMA SumOfZeros ==
  ASSUME NEW n \in Nat, NEW a \in [1 .. n -> Int], \A i \in 1 .. n : a[i] = 0
  PROVE  NumberSum(a) = 0
<1>1. PICK f : AreTotals(f, n, a) /\ NumberSum(a) = f[n]
  BY SumTotals
<1>2. f[0] = 0 /\ \A m \in 1 .. n : f[m] = f[m - 1] + 0
  BY <1>1 DEF AreTotals
<1> DEFINE T == {m \in 0 .. n : f[m] = 0}
<1>3. 0 \in T
  BY <1>2
<1>4. ASSUME NEW m \in 1 .. n, m - 1 \in T PROVE m \in T
  BY <1>2, <1>4
<1>5. n \in T
  <2> HIDE DEF T
  <2>1. \A m \in 0 .. n : m \in T
    BY <1>3, <1>4, Induct
  <2> QED
    BY <2>1
<1> QED
  BY <1>1, <1>5

-----------------------------------------------------------------------------
(* The alias table of an asset *)

\* A stack of triangles, each of them once.
IsPile(s, n) ==
  /\ s \in Seq(1 .. n)
  /\ \A i, j \in 1 .. Len(s) : s[i] = s[j] => i = j

InPile(i, s) == \E k \in 1 .. Len(s) : s[k] = i

LEMMA PutOnPile ==
  ASSUME NEW n \in Nat, NEW s, IsPile(s, n), NEW i \in 1 .. n, ~InPile(i, s)
  PROVE  /\ IsPile(Append(s, i), n) /\ Len(Append(s, i)) = Len(s) + 1
         /\ \A j : InPile(j, Append(s, i)) <=> InPile(j, s) \/ j = i
<1>1. s \in Seq(1 .. n) /\ Len(s) \in Nat
  BY DEF IsPile
<1>2. PICK t : t = Append(s, i)
  OBVIOUS
<1>3. /\ t \in Seq(1 .. n) /\ Len(t) = Len(s) + 1 /\ t[Len(s) + 1] = i
      /\ \A k \in 1 .. Len(s) : t[k] = s[k]
  BY <1>1, <1>2, AppendProperties
<1>4. ASSUME NEW k \in 1 .. Len(t), NEW m \in 1 .. Len(t), t[k] = t[m] PROVE k = m
  <2>1. (k \in 1 .. Len(s) \/ k = Len(s) + 1) /\ (m \in 1 .. Len(s) \/ m = Len(s) + 1)
    BY <1>1, <1>3
  <2> QED
    BY <1>1, <1>3, <1>4, <2>1 DEF IsPile, InPile
<1>5. ASSUME NEW j PROVE InPile(j, t) <=> InPile(j, s) \/ j = i
  <2>1. ASSUME NEW k \in 1 .. Len(t), t[k] = j PROVE InPile(j, s) \/ j = i
    <3>1. k \in 1 .. Len(s) \/ k = Len(s) + 1
      BY <1>1, <1>3
    <3> QED
      BY <1>3, <2>1, <3>1 DEF InPile
  <2>2. ASSUME NEW k \in 1 .. Len(s), s[k] = j PROVE InPile(j, t)
    <3>1. k \in 1 .. Len(t)
      BY <1>1, <1>3
    <3> QED
      BY <1>3, <2>2, <3>1 DEF InPile
  <2>3. Len(s) + 1 \in 1 .. Len(t)
    BY <1>1, <1>3
  <2> QED
    BY <1>3, <2>1, <2>2, <2>3 DEF InPile
<1> QED
  BY <1>2, <1>3, <1>4, <1>5 DEF IsPile

LEMMA TakeOffPile ==
  ASSUME NEW n \in Nat, NEW s, IsPile(s, n), s # <<>>
  PROVE  /\ Last(s) \in 1 .. n /\ InPile(Last(s), s)
         /\ IsPile(Front(s), n) /\ Len(Front(s)) = Len(s) - 1 /\ Len(s) \in Nat
         /\ \A j : InPile(j, Front(s)) <=> InPile(j, s) /\ j # Last(s)
<1>1. s \in Seq(1 .. n) /\ Len(s) \in Nat /\ Len(s) \in 1 .. Len(s)
  BY DEF IsPile
<1>2. PICK t : t = Front(s)
  OBVIOUS
<1>3. t \in Seq(1 .. n) /\ Len(t) = Len(s) - 1 /\ \A k \in 1 .. Len(s) - 1 : t[k] = s[k]
  <2>1. t = SubSeq(s, 1, Len(s) - 1)
    BY <1>2 DEF Front
  <2>2. PICK m \in Nat : m = Len(s) - 1
    BY <1>1
  <2>3. \A k \in 1 .. m : s[k] \in 1 .. n
    BY <1>1, <2>2
  <2>4. SubSeq(s, 1, m) \in Seq(1 .. n)
    BY <2>3, SubSeqProperties
  <2>5. Len(SubSeq(s, 1, m)) = (IF 1 <= m THEN m - 1 + 1 ELSE 0)
    BY <2>3, SubSeqProperties
  <2>6. \A k \in 1 .. m - 1 + 1 : SubSeq(s, 1, m)[k] = s[1 + k - 1]
    BY <2>3, SubSeqProperties
  <2>7. t = SubSeq(s, 1, m) /\ Len(t) = m
    BY <2>1, <2>2, <2>5
  <2>8. \A k \in 1 .. m : t[k] = s[k]
    BY <2>6, <2>7
  <2> QED
    BY <2>2, <2>4, <2>7, <2>8
<1>4. Last(s) = s[Len(s)] /\ s[Len(s)] \in 1 .. n
  BY <1>1 DEF Last
<1>5. ASSUME NEW k \in 1 .. Len(t), NEW m \in 1 .. Len(t), t[k] = t[m] PROVE k = m
  <2>1. k \in 1 .. Len(s) - 1 /\ m \in 1 .. Len(s) - 1 /\ k \in 1 .. Len(s) /\ m \in 1 .. Len(s)
    BY <1>1, <1>3
  <2> QED
    BY <1>3, <1>5, <2>1 DEF IsPile
<1>6. ASSUME NEW j PROVE InPile(j, t) <=> InPile(j, s) /\ j # Last(s)
  <2>1. ASSUME NEW k \in 1 .. Len(t), t[k] = j PROVE InPile(j, s) /\ j # Last(s)
    <3>1. k \in 1 .. Len(s) - 1 /\ k \in 1 .. Len(s) /\ k # Len(s)
      BY <1>1, <1>3
    <3> QED
      BY <1>1, <1>3, <1>4, <2>1, <3>1 DEF IsPile, InPile
  <2>2. ASSUME NEW k \in 1 .. Len(s), s[k] = j, j # Last(s) PROVE InPile(j, t)
    <3>1. k \in 1 .. Len(s) - 1 /\ k \in 1 .. Len(t)
      BY <1>1, <1>3, <1>4, <2>2
    <3> QED
      BY <1>3, <2>2, <3>1 DEF InPile
  <2> QED
    BY <2>1, <2>2 DEF InPile
<1>7. InPile(Last(s), s)
  BY <1>1, <1>4 DEF InPile
<1> QED
  BY <1>1, <1>2, <1>3, <1>4, <1>5, <1>6, <1>7 DEF IsPile

\* Where a triangle is put.
Sorted(piles, i, areas, total) ==
  IF areas[i] * Len(areas) < total
  THEN [small |-> Append(piles.small, i), large |-> piles.large]
  ELSE [small |-> piles.small, large |-> Append(piles.large, i)]

NoPiles == [small |-> <<>>, large |-> <<>>]
PilePairs(n) == [small : Seq(1 .. n), large : Seq(1 .. n)]

LEMMA PilesOneByOne ==
  ASSUME NEW areas \in Seq(Nat), NEW total \in Nat, NEW n \in Nat, n = Len(areas)
  PROVE  \E h : /\ h \in [0 .. n -> PilePairs(n)]
                /\ h[0] = NoPiles /\ h[n] = Piles(areas, total)
                /\ \A m \in 1 .. n : h[m] = Sorted(h[m - 1], m, areas, total)
<1> DEFINE S == PilePairs(n)
           places == [i \in DOMAIN areas |-> i]
           Once(x, m) == Sorted(x, places[m], areas, total)
           Step == [x \in S \X (1 .. n) |-> Once(x[1], x[2])]
<1>1. DOMAIN areas = 1 .. n /\ DOMAIN places = 1 .. n /\ \A m \in 1 .. n : places[m] = m
  OBVIOUS
<1>2. NoPiles \in S
  BY DEF NoPiles, PilePairs
<1>3. ASSUME NEW x \in S, NEW m \in 1 .. n PROVE Once(x, m) \in S
  <2>1. x.small \in Seq(1 .. n) /\ x.large \in Seq(1 .. n)
    BY DEF PilePairs
  <2>2. Append(x.small, m) \in Seq(1 .. n) /\ Append(x.large, m) \in Seq(1 .. n)
    BY <2>1
  <2> QED
    BY <1>1, <2>1, <2>2 DEF Sorted, PilePairs
<1>4. Step \in [S \X (1 .. n) -> S] /\ \A x \in S, m \in 1 .. n : Step[<<x, m>>] = Once(x, m)
  <2> HIDE DEF Once, S
  <2> QED
    BY <1>3
<1>5. PICK g : /\ IsFold(g, n, S, NoPiles, Step)
               /\ \A r \in SUBSET (1 .. n) : r # {} => Max(r) \in 1 .. n /\ g[r \ {Max(r)}] \in S
  <2> HIDE DEF S, Step
  <2> QED
    BY <1>2, <1>4, FoldsWithin
<1>6. g = [r \in SUBSET (1 .. n) |-> IF r = {} THEN NoPiles ELSE Once(g[r \ {Max(r)}], Max(r))]
  <2>1. \A r \in SUBSET (1 .. n) : g[r] = IF r = {} THEN NoPiles ELSE Once(g[r \ {Max(r)}], Max(r))
    <3> HIDE DEF Step, Once, S
    <3> QED
      BY <1>4, <1>5 DEF IsFold
  <2>2. g = [r \in SUBSET (1 .. n) |-> g[r]]
    BY <1>5 DEF IsFold
  <2> HIDE DEF Once
  <2> QED
    BY <2>1, <2>2
<1>7. PICK f : f = CHOOSE r : r = [s \in SUBSET (DOMAIN places) |->
                                     IF s = {} THEN NoPiles ELSE Once(r[s \ {Max(s)}], Max(s))]
  OBVIOUS
<1>8. f = [s \in SUBSET (1 .. n) |-> IF s = {} THEN NoPiles ELSE Once(f[s \ {Max(s)}], Max(s))]
  <2>1. f = CHOOSE r : r = [s \in SUBSET (1 .. n) |-> IF s = {} THEN NoPiles ELSE Once(r[s \ {Max(s)}], Max(s))]
    <3> HIDE DEF Once, places
    <3> QED
      BY <1>1, <1>7
  <2> HIDE DEF Once
  <2> QED
    BY <1>6, <2>1
<1>9. Piles(areas, total) = f[1 .. n]
  <2>1. Piles(areas, total) = f[DOMAIN places]
    BY <1>7 DEF Piles, FoldLeft, MapThenFoldSet, Sorted, NoPiles
  <2> QED
    BY <1>1, <2>1
<1> DEFINE h == [m \in 0 .. n |-> f[1 .. m]]
<1>10. h[0] = NoPiles /\ \A m \in 1 .. n : h[m] = Once(h[m - 1], m)
  <2>1. f[1 .. 0] = NoPiles
    BY <1>8
  <2>2. ASSUME NEW m \in 1 .. n PROVE f[1 .. m] = Once(f[1 .. m - 1], m)
    <3>1. /\ 1 .. m \in SUBSET (1 .. n) /\ 1 .. m # {} /\ Max(1 .. m) = m
          /\ (1 .. m) \ {m} = 1 .. m - 1
      BY UpTo
    <3> HIDE DEF Once
    <3>2. f[1 .. m] = Once(f[(1 .. m) \ {Max(1 .. m)}], Max(1 .. m))
      BY <1>8, <3>1
    <3> QED
      BY <3>1, <3>2
  <2> HIDE DEF Once
  <2> QED
    BY <2>1, <2>2
<1>11. h[n] = f[1 .. n] /\ h = [m \in 0 .. n |-> h[m]]
  OBVIOUS
<1> HIDE DEF h
<1> DEFINE T == {m \in 0 .. n : h[m] \in S}
<1>12. 0 \in T
  BY <1>2, <1>10
<1>13. ASSUME NEW m \in 1 .. n, m - 1 \in T PROVE m \in T
  <2>1. h[m - 1] \in S /\ m \in 0 .. n
    BY <1>13
  <2> HIDE DEF Once, S
  <2> QED
    BY <1>3, <1>10, <2>1
<1>14. \A m \in 0 .. n : h[m] \in S
  <2> HIDE DEF T
  <2>1. \A m \in 0 .. n : m \in T
    BY <1>12, <1>13, Induct
  <2> QED
    BY <2>1 DEF T
<1>15. \A m \in 1 .. n : h[m] = Sorted(h[m - 1], m, areas, total)
  <2> HIDE DEF places
  <2> QED
    BY <1>1, <1>10
<1> QED
  BY <1>9, <1>10, <1>11, <1>14, <1>15

\* The piles of the first m triangles.
ArePiles(piles, m, n, areas, total) ==
  /\ IsPile(piles.small, n) /\ IsPile(piles.large, n)
  /\ Len(piles.small) + Len(piles.large) = m
  /\ \A i : InPile(i, piles.small) => i \in 1 .. m /\ areas[i] * n < total
  /\ \A i : InPile(i, piles.large) => i \in 1 .. m /\ ~(areas[i] * n < total)
  /\ \A i \in 1 .. m : InPile(i, piles.small) \/ InPile(i, piles.large)

LEMMA PilesAre ==
  ASSUME NEW areas \in Seq(Nat), NEW total \in Nat, NEW n \in Nat, n = Len(areas)
  PROVE  ArePiles(Piles(areas, total), n, n, areas, total)
<1>1. PICK h : /\ h \in [0 .. n -> PilePairs(n)]
               /\ h[0] = NoPiles /\ h[n] = Piles(areas, total)
               /\ \A m \in 1 .. n : h[m] = Sorted(h[m - 1], m, areas, total)
  BY PilesOneByOne
<1> DEFINE T == {m \in 0 .. n : ArePiles(h[m], m, n, areas, total)}
<1>2. 0 \in T
  <2>1. h[0].small = <<>> /\ h[0].large = <<>>
    BY <1>1 DEF NoPiles
  <2>2. PICK x : x = h[0]
    OBVIOUS
  <2>3. IsPile(x.small, n) /\ IsPile(x.large, n) /\ Len(x.small) = 0 /\ Len(x.large) = 0
    <3>1. PICK e : e = <<>>
      OBVIOUS
    <3>2. e \in Seq(1 .. n) /\ Len(e) = 0 /\ x.small = e /\ x.large = e
      BY <2>1, <2>2, <3>1, EmptySeq
    <3>3. IsPile(e, n)
      BY <3>2 DEF IsPile
    <3> QED
      BY <3>2, <3>3
  <2>4. \A i : ~InPile(i, x.small) /\ ~InPile(i, x.large)
    BY <2>3 DEF InPile
  <2>5. ArePiles(x, 0, n, areas, total)
    BY <2>3, <2>4 DEF ArePiles
  <2> QED
    BY <2>2, <2>5
<1>3. ASSUME NEW m \in 1 .. n, m - 1 \in T PROVE m \in T
  <2>1. PICK x : x = h[m - 1]
    OBVIOUS
  <2>2. ArePiles(x, m - 1, n, areas, total) /\ h[m] = Sorted(x, m, areas, total)
    BY <1>1, <1>3, <2>1
  <2>3. IsPile(x.small, n) /\ IsPile(x.large, n) /\ ~InPile(m, x.small) /\ ~InPile(m, x.large)
    BY <2>2 DEF ArePiles
  <2>4. Len(x.small) \in Nat /\ Len(x.large) \in Nat
    BY <2>3 DEF IsPile
  <2>5. ASSUME NEW y, y = h[m] PROVE ArePiles(y, m, n, areas, total)
    <3>1. CASE areas[m] * n < total
      <4>1. y.small = Append(x.small, m) /\ y.large = x.large
        BY <2>2, <2>5, <3>1 DEF Sorted
      <4>2. /\ IsPile(y.small, n) /\ Len(y.small) = Len(x.small) + 1
            /\ \A j : InPile(j, y.small) <=> InPile(j, x.small) \/ j = m
        BY <2>3, <4>1, PutOnPile
      <4>3. Len(y.small) + Len(y.large) = m
        <5>1. Len(x.small) + Len(x.large) = m - 1
          BY <2>2 DEF ArePiles
        <5>2. PICK p \in Nat : p = Len(x.small)
          BY <2>4
        <5>3. PICK q \in Nat : q = Len(x.large)
          BY <2>4
        <5>4. p + q = m - 1
          BY <5>1, <5>2, <5>3, Zenon
        <5>5. Len(y.small) = p + 1 /\ Len(y.large) = q
          BY <4>1, <4>2, <5>2, <5>3, Zenon
        <5>6. p \in Nat /\ q \in Nat /\ m \in Int
          BY <5>2, <5>3
        <5>7. (p + 1) + q = m
          BY <5>4, <5>6
        <5> QED
          BY <5>5, <5>7, Zenon
      <4>4. ASSUME NEW i, InPile(i, y.small) PROVE i \in 1 .. m /\ areas[i] * n < total
        <5>1. CASE i = m
          BY <3>1, <5>1
        <5>2. CASE i # m
          <6>1. i \in 1 .. m - 1 /\ areas[i] * n < total
            BY <2>2, <4>2, <4>4, <5>2 DEF ArePiles
          <6> QED
            BY <6>1
        <5> QED
          BY <5>1, <5>2
      <4>5. ASSUME NEW i, InPile(i, y.large) PROVE i \in 1 .. m /\ ~(areas[i] * n < total)
        <5>1. i \in 1 .. m - 1 /\ ~(areas[i] * n < total)
          BY <2>2, <4>1, <4>5 DEF ArePiles
        <5> QED
          BY <5>1
      <4>6. ASSUME NEW i \in 1 .. m PROVE InPile(i, y.small) \/ InPile(i, y.large)
        <5>1. i = m \/ i \in 1 .. m - 1
          OBVIOUS
        <5> QED
          BY <2>2, <4>1, <4>2, <5>1 DEF ArePiles
      <4> QED
        BY <2>3, <4>1, <4>2, <4>3, <4>4, <4>5, <4>6 DEF ArePiles
    <3>2. CASE ~(areas[m] * n < total)
      <4>1. y.small = x.small /\ y.large = Append(x.large, m)
        BY <2>2, <2>5, <3>2 DEF Sorted
      <4>2. /\ IsPile(y.large, n) /\ Len(y.large) = Len(x.large) + 1
            /\ \A j : InPile(j, y.large) <=> InPile(j, x.large) \/ j = m
        BY <2>3, <4>1, PutOnPile
      <4>3. Len(y.small) + Len(y.large) = m
        <5>1. Len(x.small) + Len(x.large) = m - 1
          BY <2>2 DEF ArePiles
        <5>2. PICK p \in Nat : p = Len(x.small)
          BY <2>4
        <5>3. PICK q \in Nat : q = Len(x.large)
          BY <2>4
        <5>4. p + q = m - 1
          BY <5>1, <5>2, <5>3, Zenon
        <5>5. Len(y.small) = p /\ Len(y.large) = q + 1
          BY <4>1, <4>2, <5>2, <5>3, Zenon
        <5>6. p \in Nat /\ q \in Nat /\ m \in Int
          BY <5>2, <5>3
        <5>7. p + (q + 1) = m
          BY <5>4, <5>6
        <5> QED
          BY <5>5, <5>7, Zenon
      <4>4. ASSUME NEW i, InPile(i, y.large) PROVE i \in 1 .. m /\ ~(areas[i] * n < total)
        <5>1. CASE i = m
          BY <3>2, <5>1
        <5>2. CASE i # m
          <6>1. i \in 1 .. m - 1 /\ ~(areas[i] * n < total)
            BY <2>2, <4>2, <4>4, <5>2 DEF ArePiles
          <6> QED
            BY <6>1
        <5> QED
          BY <5>1, <5>2
      <4>5. ASSUME NEW i, InPile(i, y.small) PROVE i \in 1 .. m /\ areas[i] * n < total
        <5>1. i \in 1 .. m - 1 /\ areas[i] * n < total
          BY <2>2, <4>1, <4>5 DEF ArePiles
        <5> QED
          BY <5>1
      <4>6. ASSUME NEW i \in 1 .. m PROVE InPile(i, y.small) \/ InPile(i, y.large)
        <5>1. i = m \/ i \in 1 .. m - 1
          OBVIOUS
        <5> QED
          BY <2>2, <4>1, <4>2, <5>1 DEF ArePiles
      <4> QED
        BY <2>3, <4>1, <4>2, <4>3, <4>4, <4>5, <4>6 DEF ArePiles
    <3> QED
      BY <3>1, <3>2
  <2> QED
    BY <2>5
<1>4. n \in T
  <2> HIDE DEF T
  <2>1. \A m \in 0 .. n : m \in T
    BY <1>2, <1>3, Induct
  <2> QED
    BY <2>1
<1> QED
  BY <1>1, <1>4

Buckets(n) == [1 .. n -> [probability : Int, alias : Int]]
FillStates(n) == [small : Seq(1 .. n), large : Seq(1 .. n), scaled : [1 .. n -> Int], table : Buckets(n)]

\* One triangle gives up its bucket and another fills it.
IsFilling(st, after, s, l, rest, total) ==
  /\ rest = st.scaled[l] + st.scaled[s] - total
  /\ after.small = (IF rest < total THEN Append(Front(st.small), l) ELSE Front(st.small))
  /\ after.large = (IF rest < total THEN Front(st.large) ELSE st.large)
  /\ after.scaled = [st.scaled EXCEPT ![l] = rest]
  /\ after.table = [st.table EXCEPT ![s] = [probability |-> st.scaled[s], alias |-> l - 1]]

LEMMA FillingIs ==
  ASSUME NEW st, NEW total, st.small # <<>>, st.large # <<>>
  PROVE  IsFilling(st, FillBucket(st, total), Last(st.small), Last(st.large),
                   st.scaled[Last(st.large)] + st.scaled[Last(st.small)] - total, total)
  BY DEF FillBucket, IsFilling

LEMMA FrontStays ==
  ASSUME NEW n \in Nat, NEW s \in Seq(1 .. n), s # <<>>
  PROVE  Last(s) \in 1 .. n /\ Front(s) \in Seq(1 .. n)
<1>1. Len(s) \in Nat \ {0}
  BY EmptySeq
<1>2. Last(s) \in 1 .. n
  BY <1>1 DEF Last
<1>3. PICK m \in Nat : m = Len(s) - 1
  BY <1>1
<1>4. \A k \in 1 .. m : s[k] \in 1 .. n
  BY <1>1, <1>3
<1>5. SubSeq(s, 1, m) \in Seq(1 .. n)
  BY <1>4, SubSeqProperties
<1> QED
  BY <1>2, <1>3, <1>5 DEF Front

LEMMA FillTyped ==
  ASSUME NEW n \in Nat, NEW st \in FillStates(n), NEW total \in Nat
  PROVE  FillBucket(st, total) \in FillStates(n)
<1>1. /\ st.small \in Seq(1 .. n) /\ st.large \in Seq(1 .. n)
      /\ st.scaled \in [1 .. n -> Int] /\ st.table \in Buckets(n)
  BY DEF FillStates
<1>2. CASE st.small = <<>> \/ st.large = <<>>
  BY <1>2 DEF FillBucket
<1>3. CASE st.small # <<>> /\ st.large # <<>>
  <2>1. PICK s : s = Last(st.small)
    OBVIOUS
  <2>2. PICK l : l = Last(st.large)
    OBVIOUS
  <2>3. PICK rest : rest = st.scaled[l] + st.scaled[s] - total
    OBVIOUS
  <2>4. /\ s \in 1 .. n /\ Front(st.small) \in Seq(1 .. n)
        /\ l \in 1 .. n /\ Front(st.large) \in Seq(1 .. n)
    BY <1>1, <1>3, <2>1, <2>2, FrontStays
  <2>5. rest \in Int /\ st.scaled[s] \in Int /\ l - 1 \in Int
    BY <1>1, <2>3, <2>4
  <2>6. Append(Front(st.small), l) \in Seq(1 .. n)
    BY <2>4, AppendProperties
  <2>7. [st.scaled EXCEPT ![l] = rest] \in [1 .. n -> Int]
    BY <1>1, <2>4, <2>5
  <2>8. [st.table EXCEPT ![s] = [probability |-> st.scaled[s], alias |-> l - 1]] \in Buckets(n)
    BY <1>1, <2>4, <2>5 DEF Buckets
  <2>9. FillBucket(st, total) =
          [small  |-> IF rest < total THEN Append(Front(st.small), l) ELSE Front(st.small),
           large  |-> IF rest < total THEN Front(st.large) ELSE st.large,
           scaled |-> [st.scaled EXCEPT ![l] = rest],
           table  |-> [st.table EXCEPT ![s] = [probability |-> st.scaled[s], alias |-> l - 1]]]
    BY <1>3, <2>1, <2>2, <2>3 DEF FillBucket
  <2>10. /\ (IF rest < total THEN Append(Front(st.small), l) ELSE Front(st.small)) \in Seq(1 .. n)
         /\ (IF rest < total THEN Front(st.large) ELSE st.large) \in Seq(1 .. n)
    BY <1>1, <2>4, <2>6
  <2>11. PICK smaller \in Seq(1 .. n) : smaller = IF rest < total THEN Append(Front(st.small), l) ELSE Front(st.small)
    BY <2>10
  <2>12. PICK larger \in Seq(1 .. n) : larger = IF rest < total THEN Front(st.large) ELSE st.large
    BY <2>10
  <2>13. PICK areas \in [1 .. n -> Int] : areas = [st.scaled EXCEPT ![l] = rest]
    BY <2>7
  <2>14. PICK table \in Buckets(n) :
           table = [st.table EXCEPT ![s] = [probability |-> st.scaled[s], alias |-> l - 1]]
    BY <2>8
  <2>15. FillBucket(st, total) = [small |-> smaller, large |-> larger, scaled |-> areas, table |-> table]
    BY <2>9, <2>11, <2>12, <2>13, <2>14, Zenon
  <2> QED
    BY <2>11, <2>12, <2>13, <2>14, <2>15 DEF FillStates
<1> QED
  BY <1>2, <1>3

LEMMA FilledOneByOne ==
  ASSUME NEW areas \in Seq(Nat), NEW n \in Nat, n = Len(areas), NEW total \in Nat,
         total = NumberSum(areas), NEW first \in FillStates(n), first = OwnBuckets(areas, total)
  PROVE  \E h : /\ h \in [0 .. n -> FillStates(n)]
                /\ h[0] = first /\ AliasTable(areas) = h[n].table
                /\ \A m \in 1 .. n : h[m] = FillBucket(h[m - 1], total)
<1> DEFINE S == FillStates(n)
           places == [i \in DOMAIN areas |-> i]
           Once(x) == FillBucket(x, total)
           Step == [x \in S \X (1 .. n) |-> Once(x[1])]
<1>1. DOMAIN areas = 1 .. n /\ DOMAIN places = 1 .. n
  OBVIOUS
<1>2. ASSUME NEW x \in S PROVE Once(x) \in S
  BY FillTyped
<1>3. Step \in [S \X (1 .. n) -> S] /\ \A x \in S, m \in 1 .. n : Step[<<x, m>>] = Once(x)
  <2> HIDE DEF Once, S
  <2> QED
    BY <1>2
<1>4. PICK g : /\ IsFold(g, n, S, first, Step)
               /\ \A r \in SUBSET (1 .. n) : r # {} => Max(r) \in 1 .. n /\ g[r \ {Max(r)}] \in S
  <2>1. first \in S
    OBVIOUS
  <2> HIDE DEF Step, S, Once
  <2> QED
    BY <1>3, <2>1, FoldsWithin
<1>5. g = [r \in SUBSET (1 .. n) |-> IF r = {} THEN first ELSE Once(g[r \ {Max(r)}])]
  <2>1. \A r \in SUBSET (1 .. n) : g[r] = IF r = {} THEN first ELSE Once(g[r \ {Max(r)}])
    <3> HIDE DEF Step, Once, S
    <3> QED
      BY <1>3, <1>4 DEF IsFold
  <2>2. g = [r \in SUBSET (1 .. n) |-> g[r]]
    BY <1>4 DEF IsFold
  <2> HIDE DEF Once
  <2> QED
    BY <2>1, <2>2
<1>6. PICK f : f = CHOOSE r : r = [s \in SUBSET (DOMAIN places) |-> IF s = {} THEN first ELSE Once(r[s \ {Max(s)}])]
  OBVIOUS
<1>7. f = [s \in SUBSET (1 .. n) |-> IF s = {} THEN first ELSE Once(f[s \ {Max(s)}])]
  <2>1. f = CHOOSE r : r = [s \in SUBSET (1 .. n) |-> IF s = {} THEN first ELSE Once(r[s \ {Max(s)}])]
    <3> HIDE DEF Once, places
    <3> QED
      BY <1>1, <1>6
  <2> HIDE DEF Once
  <2> QED
    BY <1>5, <2>1
<1>8. AliasTable(areas) = f[1 .. n].table
  <2>1. AliasTable(areas) = f[DOMAIN places].table
    BY <1>6 DEF AliasTable, FoldLeft, MapThenFoldSet
  <2> QED
    BY <1>1, <2>1
<1> DEFINE h == [m \in 0 .. n |-> f[1 .. m]]
<1>9. h[0] = first /\ \A m \in 1 .. n : h[m] = Once(h[m - 1])
  <2>1. f[1 .. 0] = first
    BY <1>7
  <2>2. ASSUME NEW m \in 1 .. n PROVE f[1 .. m] = Once(f[1 .. m - 1])
    <3>1. /\ 1 .. m \in SUBSET (1 .. n) /\ 1 .. m # {} /\ Max(1 .. m) = m
          /\ (1 .. m) \ {m} = 1 .. m - 1
      BY UpTo
    <3> HIDE DEF Once
    <3>2. f[1 .. m] = Once(f[(1 .. m) \ {Max(1 .. m)}])
      BY <1>7, <3>1
    <3> QED
      BY <3>1, <3>2
  <2> HIDE DEF Once
  <2> QED
    BY <2>1, <2>2
<1>10. h[n] = f[1 .. n] /\ h = [m \in 0 .. n |-> h[m]]
  OBVIOUS
<1> HIDE DEF h
<1> DEFINE T == {m \in 0 .. n : h[m] \in S}
<1>11. 0 \in T
  BY <1>9
<1>12. ASSUME NEW m \in 1 .. n, m - 1 \in T PROVE m \in T
  <2>1. h[m - 1] \in S /\ m \in 0 .. n
    BY <1>12
  <2> HIDE DEF Once, S
  <2> QED
    BY <1>2, <1>9, <2>1
<1>13. \A m \in 0 .. n : h[m] \in S
  <2> HIDE DEF T
  <2>1. \A m \in 0 .. n : m \in T
    BY <1>11, <1>12, Induct
  <2> QED
    BY <2>1 DEF T
<1> QED
  BY <1>8, <1>9, <1>10, <1>13

\* What the scaled areas are larger than the buckets.
Excess(st, n) == [i \in 1 .. n |-> st.scaled[i] - st.table[i].probability]

\* What each bucket leaves to triangle i.
Leavings(table, total, i) ==
  [j \in DOMAIN table |-> IF table[j].alias = i - 1 THEN total - table[j].probability ELSE 0]

\* While buckets are filled nothing of an area is lost: what a triangle still has
\* and what has been left to it are its area, the buckets that are filled have
\* all that their triangles still had, and the others have as much too little as too
\* much in all.
FillInv(st, parts, n, total) ==
  /\ st \in FillStates(n)
  /\ IsPile(st.small, n) /\ IsPile(st.large, n)
  /\ \A i \in 1 .. n : /\ st.scaled[i] >= 0
                       /\ st.table[i].probability \in 0 .. total /\ st.table[i].alias \in 0 .. n - 1
  /\ \A i \in 1 .. n : InPile(i, st.small) =>
       st.scaled[i] < total /\ st.table[i] = [probability |-> total, alias |-> i - 1]
  /\ \A i \in 1 .. n : InPile(i, st.large) =>
       st.scaled[i] >= total /\ st.table[i] = [probability |-> total, alias |-> i - 1]
  /\ \A i \in 1 .. n : ~InPile(i, st.small) /\ ~InPile(i, st.large) => st.table[i].probability = st.scaled[i]
  /\ NumberSum(Excess(st, n)) = 0
  /\ \A i \in 1 .. n : st.scaled[i] + LeftTo(st.table, total, i) = parts[i]

\* Each step fills a bucket, until a pile is empty.
HasFilled(st, m, n) ==
  st.small = <<>> \/ st.large = <<>> \/ Len(st.small) + Len(st.large) <= n - m

\* The triangles that are on the piles then.
PilesAfter(st, after, s, l, rest, total, n) ==
  /\ IsPile(after.small, n) /\ IsPile(after.large, n)
  /\ \A j : InPile(j, after.small) <=> (InPile(j, st.small) /\ j # s) \/ (rest < total /\ j = l)
  /\ \A j : InPile(j, after.large) <=> InPile(j, st.large) /\ ~(rest < total /\ j = l)
  /\ Len(st.small) \in Nat /\ Len(st.large) \in Nat
  /\ Len(after.small) + Len(after.large) = Len(st.small) + Len(st.large) - 1

LEMMA FillingPiles ==
  ASSUME NEW n \in Nat, NEW total \in Nat, NEW st, NEW after, NEW s, NEW l, NEW rest,
         IsPile(st.small, n), IsPile(st.large, n), st.small # <<>>, st.large # <<>>,
         s = Last(st.small), l = Last(st.large), IsFilling(st, after, s, l, rest, total),
         ~InPile(l, st.small)
  PROVE  PilesAfter(st, after, s, l, rest, total, n)
<1>1. /\ s \in 1 .. n /\ InPile(s, st.small) /\ l \in 1 .. n /\ InPile(l, st.large)
      /\ IsPile(Front(st.small), n) /\ IsPile(Front(st.large), n)
      /\ Len(Front(st.small)) = Len(st.small) - 1 /\ Len(Front(st.large)) = Len(st.large) - 1
      /\ Len(st.small) \in Nat /\ Len(st.large) \in Nat
  BY TakeOffPile
<1>2. /\ \A j : InPile(j, Front(st.small)) <=> InPile(j, st.small) /\ j # s
      /\ \A j : InPile(j, Front(st.large)) <=> InPile(j, st.large) /\ j # l
  BY TakeOffPile
<1>3. PICK p \in Nat : p = Len(st.small)
  BY <1>1
<1>4. PICK q \in Nat : q = Len(st.large)
  BY <1>1
<1>5. p \in Nat /\ q \in Nat
  BY <1>3, <1>4
<1>6. CASE rest < total
  <2>1. after.small = Append(Front(st.small), l) /\ after.large = Front(st.large)
    BY <1>6 DEF IsFilling
  <2>2. ~InPile(l, Front(st.small))
    BY <1>2
  <2>3. /\ IsPile(after.small, n) /\ Len(after.small) = Len(Front(st.small)) + 1
        /\ \A j : InPile(j, after.small) <=> InPile(j, Front(st.small)) \/ j = l
    BY <1>1, <2>1, <2>2, PutOnPile
  <2>4. Len(after.small) = (p - 1) + 1 /\ Len(after.large) = q - 1
    BY <1>1, <1>3, <1>4, <2>1, <2>3, Zenon
  <2>5. ((p - 1) + 1) + (q - 1) = p + q - 1
    BY <1>5
  <2>6. Len(after.small) + Len(after.large) = Len(st.small) + Len(st.large) - 1
    BY <1>3, <1>4, <2>4, <2>5, Zenon
  <2> QED
    BY <1>1, <1>2, <1>6, <2>1, <2>3, <2>6 DEF PilesAfter
<1>7. CASE ~(rest < total)
  <2>1. after.small = Front(st.small) /\ after.large = st.large
    BY <1>7 DEF IsFilling
  <2>2. Len(after.small) = p - 1 /\ Len(after.large) = q
    BY <1>1, <1>3, <1>4, <2>1, Zenon
  <2>3. (p - 1) + q = p + q - 1
    BY <1>5
  <2>4. Len(after.small) + Len(after.large) = Len(st.small) + Len(st.large) - 1
    BY <1>3, <1>4, <2>2, <2>3, Zenon
  <2> QED
    BY <1>1, <1>2, <1>7, <2>1, <2>4 DEF PilesAfter
<1> QED
  BY <1>6, <1>7

\* What filling a bucket does not change, and the piles that get smaller.
FillingIsKept(st, after, parts, n, total) ==
  /\ FillInv(after, parts, n, total)
  /\ Len(st.small) \in Nat /\ Len(st.large) \in Nat
  /\ Len(after.small) + Len(after.large) = Len(st.small) + Len(st.large) - 1

LEMMA FillingKeeps ==
  ASSUME NEW n \in Nat, NEW total \in Nat, NEW parts, NEW st, NEW after, NEW s, NEW l, NEW rest,
         FillInv(st, parts, n, total), st.small # <<>>, st.large # <<>>, after \in FillStates(n),
         s = Last(st.small), l = Last(st.large), IsFilling(st, after, s, l, rest, total)
  PROVE  FillingIsKept(st, after, parts, n, total)
<1>1. /\ IsPile(st.small, n) /\ IsPile(st.large, n)
      /\ st.scaled \in [1 .. n -> Int] /\ st.table \in Buckets(n)
      /\ after.scaled \in [1 .. n -> Int] /\ after.table \in Buckets(n)
  BY DEF FillInv, FillStates
<1>2. \A i \in 1 .. n : /\ st.scaled[i] >= 0
                        /\ st.table[i].probability \in 0 .. total /\ st.table[i].alias \in 0 .. n - 1
  BY DEF FillInv
<1>3. \A i \in 1 .. n : InPile(i, st.small) =>
        st.scaled[i] < total /\ st.table[i] = [probability |-> total, alias |-> i - 1]
  BY Zenon DEF FillInv
<1>4. \A i \in 1 .. n : InPile(i, st.large) =>
        st.scaled[i] >= total /\ st.table[i] = [probability |-> total, alias |-> i - 1]
  BY Zenon DEF FillInv
<1>5. \A i \in 1 .. n : ~InPile(i, st.small) /\ ~InPile(i, st.large) => st.table[i].probability = st.scaled[i]
  BY Zenon DEF FillInv
<1>6. NumberSum(Excess(st, n)) = 0 /\ \A i \in 1 .. n : st.scaled[i] + LeftTo(st.table, total, i) = parts[i]
  BY Zenon DEF FillInv
<1>7. s \in 1 .. n /\ InPile(s, st.small) /\ l \in 1 .. n /\ InPile(l, st.large)
  BY <1>1, TakeOffPile
<1>8. /\ st.scaled[s] < total /\ st.table[s] = [probability |-> total, alias |-> s - 1]
      /\ st.scaled[l] >= total /\ st.table[l] = [probability |-> total, alias |-> l - 1]
      /\ st.scaled[s] >= 0 /\ st.scaled[s] \in Int /\ st.scaled[l] \in Int
  BY <1>1, <1>7, <1>2, <1>3, <1>4
<1>9. s # l /\ ~InPile(l, st.small)
  BY <1>7, <1>8, <1>3
<1>10. PilesAfter(st, after, s, l, rest, total, n)
  BY <1>1, <1>9, FillingPiles
<1>11. /\ \A j : InPile(j, after.small) <=> (InPile(j, st.small) /\ j # s) \/ (rest < total /\ j = l)
       /\ \A j : InPile(j, after.large) <=> InPile(j, st.large) /\ ~(rest < total /\ j = l)
  BY <1>10, Zenon DEF PilesAfter
<1>12. PICK own \in Int : own = st.scaled[s]
  BY <1>8
<1>13. PICK big \in Int : big = st.scaled[l]
  BY <1>8
<1>14. /\ own \in Int /\ big \in Int /\ 0 <= own /\ own < total /\ big >= total
      /\ rest = big + own - total /\ rest \in Int /\ rest >= 0
  BY <1>8, <1>12, <1>13 DEF IsFilling
<1>15. /\ after.scaled[l] = rest /\ \A i \in 1 .. n : i # l => after.scaled[i] = st.scaled[i]
      /\ after.table[s] = [probability |-> own, alias |-> l - 1]
      /\ \A i \in 1 .. n : i # s => after.table[i] = st.table[i]
  BY <1>1, <1>7, <1>12 DEF IsFilling, Buckets
<1>16. after.table[s].probability = own /\ after.table[s].alias = l - 1
  BY <1>15
<1>17. ASSUME NEW i \in 1 .. n
       PROVE  /\ after.scaled[i] >= 0
              /\ after.table[i].probability \in 0 .. total /\ after.table[i].alias \in 0 .. n - 1
  <2>1. after.scaled[i] >= 0
    BY <1>14, <1>15, <1>2
  <2>2. after.table[i].probability \in 0 .. total /\ after.table[i].alias \in 0 .. n - 1
    <3>1. CASE i = s
      BY <1>7, <1>14, <1>16, <3>1
    <3>2. CASE i # s
      BY <1>15, <1>2, <3>2
    <3> QED
      BY <3>1, <3>2
  <2> QED
    BY <2>1, <2>2
<1>18. ASSUME NEW i \in 1 .. n, InPile(i, after.small)
       PROVE  after.scaled[i] < total /\ after.table[i] = [probability |-> total, alias |-> i - 1]
  <2>1. CASE i = l
    <3>1. rest < total
      BY <1>9, <1>11, <1>18, <2>1
    <3> QED
      BY <1>8, <1>9, <1>15, <2>1, <3>1
  <2>2. CASE i # l
    <3>1. InPile(i, st.small) /\ i # s
      BY <1>11, <1>18, <2>2
    <3> QED
      BY <1>15, <1>3, <2>2, <3>1
  <2> QED
    BY <2>1, <2>2
<1>19. ASSUME NEW i \in 1 .. n, InPile(i, after.large)
       PROVE  after.scaled[i] >= total /\ after.table[i] = [probability |-> total, alias |-> i - 1]
  <2>1. InPile(i, st.large) /\ ~(rest < total /\ i = l)
    BY <1>11, <1>19
  <2>2. st.scaled[i] >= total /\ st.table[i] = [probability |-> total, alias |-> i - 1]
    BY <1>4, <2>1
  <2>3. i # s
    BY <1>8, <1>14, <2>2
  <2>4. CASE i = l
    BY <1>14, <1>15, <2>1, <2>2, <2>3, <2>4
  <2>5. CASE i # l
    BY <1>15, <2>2, <2>3, <2>5
  <2> QED
    BY <2>4, <2>5
<1>20. ASSUME NEW i \in 1 .. n, ~InPile(i, after.small), ~InPile(i, after.large)
       PROVE  after.table[i].probability = after.scaled[i]
  <2>1. i # l
    BY <1>7, <1>11, <1>20
  <2>2. CASE i = s
    BY <1>7, <1>9, <1>12, <1>15, <1>16, <2>2
  <2>3. CASE i # s
    <3>1. ~InPile(i, st.small) /\ ~InPile(i, st.large)
      BY <1>11, <1>20, <2>1, <2>3
    <3> QED
      BY <1>15, <1>5, <2>1, <2>3, <3>1
  <2> QED
    BY <2>2, <2>3
<1>21. NumberSum(Excess(after, n)) = 0
  <2> DEFINE a == Excess(st, n)
             b == [a EXCEPT ![s] = 0]
             c == Excess(after, n)
  <2>1. a \in [1 .. n -> Int] /\ c \in [1 .. n -> Int] /\ b \in [1 .. n -> Int]
    <3>1. \A i \in 1 .. n : st.scaled[i] - st.table[i].probability \in Int
      BY <1>1 DEF Buckets
    <3>2. \A i \in 1 .. n : after.scaled[i] - after.table[i].probability \in Int
      BY <1>1 DEF Buckets
    <3>3. a \in [1 .. n -> Int] /\ c \in [1 .. n -> Int]
      BY <3>1, <3>2 DEF Excess
    <3> QED
      BY <1>7, <3>3
  <2>2. a[s] = own - total /\ a[l] = big - total
    <3>1. /\ a[s] = st.scaled[s] - st.table[s].probability
          /\ a[l] = st.scaled[l] - st.table[l].probability
      BY <1>7 DEF Excess
    <3>2. st.table[s].probability = total /\ st.table[l].probability = total
      BY <1>8
    <3> QED
      BY <1>12, <1>13, <3>1, <3>2, Zenon
  <2>3. c[s] = 0 /\ c[l] = rest - total
    <3>1. c[s] = own - own
      BY <1>7, <1>9, <1>12, <1>15, <1>16 DEF Excess
    <3>2. c[l] = rest - total
      BY <1>7, <1>8, <1>9, <1>15 DEF Excess
    <3> QED
      BY <1>14, <3>1, <3>2
  <2>4. \A i \in 1 .. n : i # s /\ i # l => c[i] = a[i]
    BY <1>15 DEF Excess
  <2>5. /\ b[s] = 0 /\ b[l] = a[l] /\ \A i \in 1 .. n : i # s => b[i] = a[i]
        /\ \A i \in 1 .. n : i # l => c[i] = b[i]
    BY <1>7, <1>9, <2>1, <2>3, <2>4
  <2>6. NumberSum(a) = 0
    BY <1>6
  <2>7. \A i \in 1 .. n : i # s => b[i] = a[i]
    BY <2>5
  <2>8. \A i \in 1 .. n : i # l => c[i] = b[i]
    BY <2>5
  <2> HIDE DEF a, b, c
  <2>9. NumberSum(b) \in Int /\ NumberSum(b) = NumberSum(a) - a[s] + b[s]
    BY <1>7, <2>1, <2>7, SumOfChanged
  <2>10. NumberSum(c) \in Int /\ NumberSum(c) = NumberSum(b) - b[l] + c[l]
    BY <1>7, <2>1, <2>8, SumOfChanged
  <2>11. NumberSum(b) = 0 - (own - total) + 0
    BY <2>2, <2>5, <2>6, <2>9
  <2>12. NumberSum(c) = (0 - (own - total) + 0) - (big - total) + (rest - total)
    BY <2>2, <2>3, <2>5, <2>10, <2>11
  <2>13. NumberSum(c) = 0
    BY <1>14, <2>12
  <2> QED
    BY <2>13 DEF c
<1>22. ASSUME NEW i \in 1 .. n
       PROVE  after.scaled[i] + LeftTo(after.table, total, i) = parts[i]
  <2> DEFINE a == Leavings(st.table, total, i)
             b == Leavings(after.table, total, i)
  <2>1. a \in [1 .. n -> Int] /\ b \in [1 .. n -> Int]
    <3>1. DOMAIN st.table = 1 .. n /\ DOMAIN after.table = 1 .. n
      BY <1>1 DEF Buckets
    <3>2. \A j \in 1 .. n : st.table[j].probability \in Int /\ after.table[j].probability \in Int
      BY <1>1 DEF Buckets
    <3>3. \A j \in 1 .. n :
            /\ (IF st.table[j].alias = i - 1 THEN total - st.table[j].probability ELSE 0) \in Int
            /\ (IF after.table[j].alias = i - 1 THEN total - after.table[j].probability ELSE 0) \in Int
      BY <3>2
    <3> QED
      BY <3>1, <3>3 DEF Leavings
  <2>2. LeftTo(st.table, total, i) = NumberSum(a) /\ LeftTo(after.table, total, i) = NumberSum(b)
    BY DEF LeftTo, Leavings
  <2>3. \A j \in 1 .. n : j # s => b[j] = a[j]
    BY <1>1, <1>15 DEF Leavings, Buckets
  <2>4. a[s] = 0
    <3>1. st.table[s].probability = total
      BY <1>8
    <3>2. a[s] = IF st.table[s].alias = i - 1 THEN total - total ELSE 0
      BY <1>1, <1>7, <3>1 DEF Leavings, Buckets
    <3> QED
      BY <3>2
  <2>5. b[s] = IF i = l THEN total - own ELSE 0
    <3>1. b[s] = IF l - 1 = i - 1 THEN total - own ELSE 0
      BY <1>1, <1>7, <1>16 DEF Leavings, Buckets
    <3>2. l - 1 = i - 1 <=> i = l
      BY <1>7
    <3> QED
      BY <3>1, <3>2
  <2>6. st.scaled[i] + NumberSum(a) = parts[i]
    BY <1>6, <2>2
  <2> HIDE DEF a, b
  <2>7. NumberSum(a) \in Int /\ NumberSum(b) = NumberSum(a) - a[s] + b[s]
    BY <1>7, <2>1, <2>3, SumOfChanged
  <2>8. PICK sum \in Int : sum = NumberSum(a)
    BY <2>7
  <2>9. sum \in Int /\ st.scaled[i] \in Int
    BY <1>1, <2>8
  <2>10. CASE i = l
    <3>1. NumberSum(b) = sum - 0 + (total - own)
      BY <2>4, <2>5, <2>7, <2>8, <2>10, Zenon
    <3>2. after.scaled[i] = big + own - total /\ big + sum = parts[i]
      BY <1>13, <1>14, <1>15, <2>6, <2>8, <2>10
    <3>3. (big + own - total) + (sum - 0 + (total - own)) = big + sum
      BY <1>14, <2>9
    <3> QED
      BY <2>2, <3>1, <3>2, <3>3, Zenon
  <2>11. CASE i # l
    <3>1. NumberSum(b) = sum - 0 + 0
      BY <2>4, <2>5, <2>7, <2>8, <2>11, Zenon
    <3>2. sum - 0 + 0 = sum
      BY <2>9
    <3>3. after.scaled[i] = st.scaled[i]
      BY <1>15, <2>11
    <3> QED
      BY <2>2, <2>6, <2>8, <3>1, <3>2, <3>3, Zenon
  <2> QED
    BY <2>10, <2>11
<1> QED
  <2>1. /\ IsPile(after.small, n) /\ IsPile(after.large, n)
        /\ Len(st.small) \in Nat /\ Len(st.large) \in Nat
        /\ Len(after.small) + Len(after.large) = Len(st.small) + Len(st.large) - 1
    BY <1>10, Zenon DEF PilesAfter
  <2>2. FillInv(after, parts, n, total)
    BY <2>1, <1>17, <1>18, <1>19, <1>20, <1>21, <1>22, Zenon DEF FillInv
  <2> QED
    BY <2>1, <2>2, Zenon DEF FillingIsKept

LEMMA SumOfParts ==
  ASSUME NEW n \in Nat, NEW a \in [1 .. n -> Int], NEW b \in [1 .. n -> Int], NEW total \in Int,
         \A i \in 1 .. n : b[i] = a[i] * n - total
  PROVE  NumberSum(b) = NumberSum(a) * n - n * total
<1>1. PICK c \in Int : c = n
  OBVIOUS
<1>2. \A i \in 1 .. n : b[i] = a[i] * c - total
  BY <1>1
<1>3. NumberSum(b) = NumberSum(a) * c - n * total
  BY <1>2, SumOfScaled
<1> QED
  BY <1>1, <1>3

LEMMA StartFills ==
  ASSUME NEW areas \in Seq(Nat), NEW n \in Nat, n = Len(areas), NEW total \in Nat,
         total = NumberSum(areas), NEW st, st = OwnBuckets(areas, total),
         NEW parts, parts = [i \in 1 .. n |-> areas[i] * n]
  PROVE  FillInv(st, parts, n, total) /\ HasFilled(st, 0, n)
<1>1. areas \in [1 .. n -> Nat] /\ areas \in [1 .. n -> Int] /\ DOMAIN areas = 1 .. n
  <2>1. areas = [i \in 1 .. n |-> areas[i]] /\ \A i \in 1 .. n : areas[i] \in Nat
    OBVIOUS
  <2>2. \A i \in 1 .. n : areas[i] \in Int
    BY <2>1
  <2> QED
    BY <2>1, <2>2
<1>2. ASSUME NEW i \in 1 .. n PROVE areas[i] * n \in Nat
  <2>1. areas[i] \in Nat
    BY <1>1
  <2> QED
    BY <2>1
<1>3. ArePiles(Piles(areas, total), n, n, areas, total)
  BY PilesAre
<1>4. PICK piles : piles = Piles(areas, total)
  OBVIOUS
<1>5. /\ IsPile(st.small, n) /\ IsPile(st.large, n) /\ Len(st.small) + Len(st.large) = n
      /\ \A i : InPile(i, st.small) => areas[i] * n < total
      /\ \A i : InPile(i, st.large) => ~(areas[i] * n < total)
      /\ \A i \in 1 .. n : InPile(i, st.small) \/ InPile(i, st.large)
  <2>1. st.small = piles.small /\ st.large = piles.large
    BY <1>4 DEF OwnBuckets
  <2> QED
    BY <1>3, <1>4, <2>1 DEF ArePiles
<1>6. /\ st.scaled = [i \in 1 .. n |-> areas[i] * n]
      /\ st.table = [i \in 1 .. n |-> [probability |-> total, alias |-> i - 1]]
  BY <1>1 DEF OwnBuckets
<1>7. \A i \in 1 .. n : parts[i] = areas[i] * n /\ parts[i] \in Nat
  OBVIOUS
<1>8. st.scaled = parts /\ \A i \in 1 .. n : st.scaled[i] = parts[i] /\ parts[i] \in Nat
  BY <1>6, <1>7
<1>9. \A i \in 1 .. n : st.table[i] = [probability |-> total, alias |-> i - 1]
  BY <1>6
<1>10. \A i \in 1 .. n : st.table[i].probability = total /\ st.table[i].alias = i - 1
  BY <1>6
<1>11. st \in FillStates(n)
  <2>1. st.small \in Seq(1 .. n) /\ st.large \in Seq(1 .. n)
    BY <1>5 DEF IsPile
  <2>2. st.scaled \in [1 .. n -> Int]
    <3>1. \A i \in 1 .. n : areas[i] * n \in Int
      BY <1>2
    <3> QED
      BY <1>6, <3>1
  <2>3. st.table \in Buckets(n)
    BY <1>6 DEF Buckets
  <2>4. st = [small |-> st.small, large |-> st.large, scaled |-> st.scaled, table |-> st.table]
    BY DEF OwnBuckets
  <2> QED
    BY <2>1, <2>2, <2>3, <2>4 DEF FillStates
<1>12. ASSUME NEW i \in 1 .. n
      PROVE  /\ st.scaled[i] >= 0
             /\ st.table[i].probability \in 0 .. total /\ st.table[i].alias \in 0 .. n - 1
  <2>1. st.scaled[i] >= 0
    BY <1>8
  <2>2. st.table[i].probability = total /\ st.table[i].alias = i - 1
    BY <1>10
  <2> QED
    BY <2>1, <2>2
<1>13. ASSUME NEW i \in 1 .. n, InPile(i, st.large) PROVE st.scaled[i] >= total
  <2>1. i \in 1 .. n /\ ~(areas[i] * n < total)
    BY <1>5, <1>13
  <2>2. st.scaled[i] \in Int /\ ~(st.scaled[i] < total)
    BY <1>7, <1>8, <2>1
  <2> QED
    BY <2>2
<1>14. ASSUME NEW i \in 1 .. n, InPile(i, st.small) PROVE st.scaled[i] < total
  <2>1. areas[i] * n < total
    BY <1>5, <1>14
  <2> QED
    BY <1>7, <1>8, <2>1
<1>15. NumberSum(Excess(st, n)) = 0
  <2> DEFINE b == Excess(st, n)
  <2>1. b \in [1 .. n -> Int] /\ \A i \in 1 .. n : b[i] = areas[i] * n - total
    <3>1. \A i \in 1 .. n : st.scaled[i] - st.table[i].probability = parts[i] - total /\ parts[i] - total \in Int
      BY <1>8, <1>10
    <3>2. b \in [1 .. n -> Int] /\ \A i \in 1 .. n : b[i] = parts[i] - total
      BY <3>1 DEF Excess
    <3> QED
      BY <1>7, <3>2
  <2> HIDE DEF b
  <2>2. n \in Int /\ total \in Int
    OBVIOUS
  <2>3. NumberSum(b) = NumberSum(areas) * n - n * total
    <3>1. \A i \in 1 .. n : b[i] = areas[i] * n - total
      BY <2>1
    <3> QED
      BY <1>1, <2>1, <2>2, <3>1, SumOfParts
  <2>4. total * n - n * total = 0
    OBVIOUS
  <2> QED
    BY <2>3, <2>4 DEF b
<1>16. ASSUME NEW i \in 1 .. n PROVE st.scaled[i] + LeftTo(st.table, total, i) = parts[i]
  <2> DEFINE a == Leavings(st.table, total, i)
  <2>1. DOMAIN st.table = 1 .. n
    BY <1>6
  <2>2. \A j \in 1 .. n : (IF st.table[j].alias = i - 1 THEN total - st.table[j].probability ELSE 0) = 0
    <3>1. total - total = 0
      OBVIOUS
    <3> QED
      BY <1>10, <3>1
  <2>3. a \in [1 .. n -> Int] /\ \A j \in 1 .. n : a[j] = 0
    BY <2>1, <2>2 DEF Leavings
  <2>4. NumberSum(a) = 0
    <3> HIDE DEF a
    <3> QED
      BY <2>3, SumOfZeros
  <2>5. LeftTo(st.table, total, i) = 0
    BY <2>4 DEF LeftTo, Leavings
  <2>6. st.scaled[i] + 0 = parts[i]
    BY <1>8
  <2> QED
    BY <2>5, <2>6
<1>17. HasFilled(st, 0, n)
  <2>1. n <= n - 0
    OBVIOUS
  <2> QED
    BY <1>5, <2>1, Zenon DEF HasFilled
<1> QED
  BY <1>5, <1>11, <1>12, <1>13, <1>15, <1>16, <1>17, <1>9, <1>14 DEF FillInv

LEMMA FillsOnce ==
  ASSUME NEW n \in Nat, NEW m \in 1 .. n, NEW total \in Nat, NEW parts, NEW st, NEW after, FillInv(st, parts, n, total), HasFilled(st, m - 1, n),
         after \in FillStates(n), after = FillBucket(st, total)
  PROVE  FillInv(after, parts, n, total) /\ HasFilled(after, m, n)
<1>1. CASE st.small = <<>> \/ st.large = <<>>
  <2>1. after = st
    BY <1>1 DEF FillBucket
  <2> QED
    BY <1>1, <2>1 DEF HasFilled
<1>2. CASE st.small # <<>> /\ st.large # <<>>
  <2>1. PICK s : s = Last(st.small)
    OBVIOUS
  <2>2. PICK l : l = Last(st.large)
    OBVIOUS
  <2>3. PICK rest : rest = st.scaled[l] + st.scaled[s] - total
    OBVIOUS
  <2>4. IsFilling(st, after, s, l, rest, total)
    BY <1>2, <2>1, <2>2, <2>3, FillingIs
  <2>5. FillingIsKept(st, after, parts, n, total)
    BY <1>2, <2>1, <2>2, <2>4, FillingKeeps
  <2>6. /\ FillInv(after, parts, n, total)
         /\ Len(st.small) \in Nat /\ Len(st.large) \in Nat
         /\ Len(after.small) + Len(after.large) = Len(st.small) + Len(st.large) - 1
    BY <2>5 DEF FillingIsKept
  <2>7. Len(st.small) + Len(st.large) <= n - (m - 1)
    BY <1>2 DEF HasFilled
  <2>8. PICK p : p = Len(st.small) + Len(st.large)
    OBVIOUS
  <2>9. p \in Int
    BY <2>8, <2>6
  <2>10. p <= n - (m - 1)
    BY <2>7, <2>8, Zenon
  <2>11. p - 1 <= n - m
    BY <2>9, <2>10
  <2>12. Len(after.small) + Len(after.large) = p - 1
    <3>1. PICK r : r = Len(after.small) + Len(after.large)
      OBVIOUS
    <3>2. r = Len(st.small) + Len(st.large) - 1
      BY <2>6, <3>1
    <3>3. r = p - 1
      BY <2>8, <3>2
    <3> QED
      BY <3>1, <3>3
  <2>13. Len(after.small) + Len(after.large) <= n - m
    BY <2>11, <2>12, Zenon
  <2> QED
    BY <2>13, <2>6 DEF HasFilled
<1> QED
  BY <1>1, <1>2

\* For any areas the alias table keeps them: the share of its own bucket that a
\* triangle has and what the other buckets leave to it are together its part of
\* the total, each share is one of the total, and each bucket falls to a triangle
\* that there is (make_alias_table()).
THEOREM TableKeepsTheAreas ==
  ASSUME NEW areas \in Seq(Nat)
  PROVE  /\ KeepsTheAreas(AliasTable(areas), areas)
         /\ \A i \in DOMAIN areas :
              /\ AliasTable(areas)[i].probability \in 0 .. NumberSum(areas)
              /\ AliasTable(areas)[i].alias \in 0 .. Len(areas) - 1
<1>1. PICK n \in Nat : n = Len(areas)
  OBVIOUS
<1>2. areas \in [1 .. n -> Nat] /\ DOMAIN areas = 1 .. n
  <2>1. areas = [i \in 1 .. n |-> areas[i]] /\ \A i \in 1 .. n : areas[i] \in Nat
    BY <1>1
  <2> QED
    BY <2>1
<1>3. PICK total \in Nat : total = NumberSum(areas)
  BY <1>2, SumOfNaturals
<1>4. PICK first : first = OwnBuckets(areas, total)
  OBVIOUS
<1>5. PICK parts : parts = [i \in 1 .. n |-> areas[i] * n]
  OBVIOUS
<1>6. \A i \in 1 .. n : parts[i] = areas[i] * n
  BY <1>5
<1>7. FillInv(first, parts, n, total) /\ HasFilled(first, 0, n)
  BY <1>1, <1>3, <1>4, <1>5, StartFills
<1>8. first \in FillStates(n)
  BY <1>7 DEF FillInv
<1>9. PICK h : /\ h \in [0 .. n -> FillStates(n)]
               /\ h[0] = first /\ AliasTable(areas) = h[n].table
               /\ \A m \in 1 .. n : h[m] = FillBucket(h[m - 1], total)
  BY <1>1, <1>3, <1>4, <1>8, FilledOneByOne
<1> DEFINE T == {m \in 0 .. n : FillInv(h[m], parts, n, total) /\ HasFilled(h[m], m, n)}
<1>10. 0 \in T
  BY <1>7, <1>9
<1>11. ASSUME NEW m \in 1 .. n, m - 1 \in T PROVE m \in T
  <2>1. FillInv(h[m - 1], parts, n, total) /\ HasFilled(h[m - 1], m - 1, n)
    BY <1>11
  <2>2. h[m] \in FillStates(n) /\ h[m] = FillBucket(h[m - 1], total)
    BY <1>9
  <2>3. FillInv(h[m], parts, n, total) /\ HasFilled(h[m], m, n)
    BY <2>1, <2>2, FillsOnce
  <2> QED
    BY <2>3
<1>12. n \in T
  <2> HIDE DEF T
  <2>1. \A m \in 0 .. n : m \in T
    BY <1>10, <1>11, Induct
  <2> QED
    BY <2>1
<1>13. PICK st : st = h[n]
  OBVIOUS
<1>14. FillInv(st, parts, n, total) /\ HasFilled(st, n, n)
  BY <1>12, <1>13
<1>15. /\ st.small \in Seq(1 .. n) /\ st.large \in Seq(1 .. n)
       /\ st.scaled \in [1 .. n -> Int] /\ st.table \in Buckets(n)
  BY <1>14 DEF FillInv, FillStates
<1>16. st.small = <<>> \/ st.large = <<>>
  <2> SUFFICES ASSUME st.small # <<>>, st.large # <<>> PROVE FALSE
    OBVIOUS
  <2>1. Len(st.small) \in Nat \ {0} /\ Len(st.large) \in Nat \ {0}
    BY <1>15, EmptySeq
  <2>2. Len(st.small) + Len(st.large) <= n - n
    BY <1>14 DEF HasFilled
  <2>3. PICK p \in Nat \ {0} : p = Len(st.small)
    BY <2>1
  <2>4. PICK q \in Nat \ {0} : q = Len(st.large)
    BY <2>1
  <2>5. p \in Nat \ {0} /\ q \in Nat \ {0} /\ p + q <= n - n
    BY <2>2, <2>3, <2>4
  <2> QED
    BY <2>5
<1>17. \A i \in 1 .. n : st.table[i].probability = st.scaled[i]
  <2> DEFINE a == Excess(st, n)
  <2>1. \A i \in 1 .. n : a[i] = st.scaled[i] - st.table[i].probability
    BY DEF Excess
  <2>2. \A i \in 1 .. n : st.scaled[i] \in Int /\ st.table[i].probability \in Int
    BY <1>15 DEF Buckets
  <2>3. a \in [1 .. n -> Int]
    BY <2>2 DEF Excess
  <2>4. NumberSum(a) = 0
    BY <1>14 DEF FillInv
  <2>5. \A i \in 1 .. n : InPile(i, st.small) => st.scaled[i] < total /\ st.table[i].probability = total
    <3>1. \A i \in 1 .. n : InPile(i, st.small) =>
            st.scaled[i] < total /\ st.table[i] = [probability |-> total, alias |-> i - 1]
      BY <1>14, Zenon DEF FillInv
    <3>2. \A e, p, q : e = [probability |-> p, alias |-> q] => e.probability = p
      OBVIOUS
    <3> QED
      BY <3>1, <3>2, Zenon
  <2>6. \A i \in 1 .. n : InPile(i, st.large) => st.scaled[i] >= total /\ st.table[i].probability = total
    <3>1. \A i \in 1 .. n : InPile(i, st.large) =>
            st.scaled[i] >= total /\ st.table[i] = [probability |-> total, alias |-> i - 1]
      BY <1>14, Zenon DEF FillInv
    <3>2. \A e, p, q : e = [probability |-> p, alias |-> q] => e.probability = p
      OBVIOUS
    <3> QED
      BY <3>1, <3>2, Zenon
  <2>7. \A i \in 1 .. n : ~InPile(i, st.small) /\ ~InPile(i, st.large) => st.table[i].probability = st.scaled[i]
    BY <1>14 DEF FillInv
  <2> HIDE DEF a
  <2>8. (\A i \in 1 .. n : a[i] >= 0) \/ (\A i \in 1 .. n : a[i] <= 0)
    <3>1. CASE st.small = <<>>
      <4>1. \A i : ~InPile(i, st.small)
        BY <3>1, EmptySeq DEF InPile
      <4>2. ASSUME NEW i \in 1 .. n PROVE a[i] >= 0
        BY <2>1, <2>2, <2>6, <2>7, <4>1
      <4> QED
        BY <4>2
    <3>2. CASE st.large = <<>>
      <4>1. \A i : ~InPile(i, st.large)
        BY <3>2, EmptySeq DEF InPile
      <4>2. ASSUME NEW i \in 1 .. n PROVE a[i] <= 0
        BY <2>1, <2>2, <2>5, <2>7, <4>1
      <4> QED
        BY <4>2
    <3> QED
      BY <1>16, <3>1, <3>2
  <2>9. \A i \in 1 .. n : a[i] = 0
    BY <2>3, <2>4, <2>8, SumOfNothing
  <2> QED
    BY <2>1, <2>2, <2>9
<1>18. AliasTable(areas) = st.table
  BY <1>9, <1>13
<1>19. \A i \in 1 .. n : st.table[i].probability + LeftTo(st.table, total, i) = areas[i] * n
  <2>1. \A i \in 1 .. n : st.scaled[i] + LeftTo(st.table, total, i) = parts[i]
    BY <1>14, Zenon DEF FillInv
  <2> QED
    BY <1>17, <1>6, <2>1, Zenon
<1>20. KeepsTheAreas(AliasTable(areas), areas)
  BY <1>1, <1>2, <1>3, <1>18, <1>19 DEF KeepsTheAreas
<1>21. \A i \in 1 .. n : st.table[i].probability \in 0 .. total /\ st.table[i].alias \in 0 .. n - 1
  BY <1>14 DEF FillInv
<1> QED
  BY <1>1, <1>2, <1>3, <1>18, <1>20, <1>21

-----------------------------------------------------------------------------
(* The assignment of guides to the curves of a cache *)

\* A sum is that of all numbers but the last, and the last.
LEMMA SumOfLast ==
  ASSUME NEW n \in Nat, n > 0, NEW a \in [1 .. n -> Int], NEW b \in [1 .. n - 1 -> Int],
         \A i \in 1 .. n - 1 : b[i] = a[i]
  PROVE  NumberSum(a) \in Int /\ NumberSum(b) \in Int /\ NumberSum(a) = NumberSum(b) + a[n]
<1>1. n - 1 \in Nat
  OBVIOUS
<1>2. PICK f : AreTotals(f, n, a) /\ NumberSum(a) = f[n]
  BY SumTotals
<1>3. PICK g : AreTotals(g, n - 1, b) /\ NumberSum(b) = g[n - 1]
  BY <1>1, SumTotals
<1>4. /\ \A m \in 0 .. n : f[m] \in Int
      /\ \A m \in 1 .. n : f[m] = f[m - 1] + a[m]
      /\ f[0] = 0
  BY <1>2 DEF AreTotals
<1>5. /\ \A m \in 0 .. n - 1 : g[m] \in Int
      /\ \A m \in 1 .. n - 1 : g[m] = g[m - 1] + b[m]
      /\ g[0] = 0
  BY <1>3 DEF AreTotals
<1> DEFINE T == {m \in 0 .. n - 1 : g[m] = f[m]}
<1>6. 0 \in T
  BY <1>1, <1>4, <1>5
<1>7. ASSUME NEW m \in 1 .. n - 1, m - 1 \in T PROVE m \in T
  <2>1. m \in 1 .. n /\ m \in 0 .. n - 1 /\ b[m] = a[m] /\ g[m - 1] = f[m - 1]
    BY <1>7
  <2>2. g[m] = f[m]
    BY <1>4, <1>5, <2>1
  <2> QED
    BY <2>1, <2>2
<1>8. n - 1 \in T
  <2> HIDE DEF T
  <2>1. \A m \in 0 .. n - 1 : m \in T
    BY <1>1, <1>6, <1>7, Induct
  <2> QED
    BY <1>1, <2>1
<1>9. g[n - 1] = f[n - 1] /\ f[n] = f[n - 1] + a[n] /\ f[n] \in Int /\ f[n - 1] \in Int
  <2>1. n \in 1 .. n /\ n \in 0 .. n /\ n - 1 \in 0 .. n
    OBVIOUS
  <2> QED
    BY <1>4, <1>8, <2>1
<1> QED
  BY <1>2, <1>3, <1>9

\* Numbers that are, two by two, no more than others have no more as their sum.
LEMMA SumOfSums ==
  ASSUME NEW n \in Nat, NEW a \in [1 .. n -> Int], NEW b \in [1 .. n -> Int], NEW c \in [1 .. n -> Int],
         \A i \in 1 .. n : a[i] + b[i] <= c[i]
  PROVE  /\ NumberSum(a) \in Int /\ NumberSum(b) \in Int /\ NumberSum(c) \in Int
         /\ NumberSum(a) + NumberSum(b) <= NumberSum(c)
         /\ (\A i \in 1 .. n : a[i] + b[i] = c[i]) => NumberSum(a) + NumberSum(b) = NumberSum(c)
<1>1. PICK f : AreTotals(f, n, a) /\ NumberSum(a) = f[n]
  BY SumTotals
<1>2. PICK g : AreTotals(g, n, b) /\ NumberSum(b) = g[n]
  BY SumTotals
<1>3. PICK h : AreTotals(h, n, c) /\ NumberSum(c) = h[n]
  BY SumTotals
<1>4. /\ \A m \in 0 .. n : f[m] \in Int /\ g[m] \in Int /\ h[m] \in Int
      /\ \A m \in 1 .. n : /\ f[m] = f[m - 1] + a[m] /\ g[m] = g[m - 1] + b[m] /\ h[m] = h[m - 1] + c[m]
                           /\ a[m] \in Int /\ b[m] \in Int /\ c[m] \in Int
      /\ f[0] = 0 /\ g[0] = 0 /\ h[0] = 0
  BY <1>1, <1>2, <1>3 DEF AreTotals
<1> DEFINE T == {m \in 0 .. n : /\ f[m] + g[m] <= h[m]
                                /\ (\A i \in 1 .. n : a[i] + b[i] = c[i]) => f[m] + g[m] = h[m]}
<1>5. 0 \in T
  <2>1. f[0] + g[0] = h[0] /\ f[0] + g[0] <= h[0]
    BY <1>4
  <2> QED
    BY <2>1
<1>6. ASSUME NEW m \in 1 .. n, m - 1 \in T PROVE m \in T
  <2>1. /\ f[m - 1] \in Int /\ g[m - 1] \in Int /\ h[m - 1] \in Int
        /\ a[m] \in Int /\ b[m] \in Int /\ c[m] \in Int /\ m \in 0 .. n
        /\ f[m] = f[m - 1] + a[m] /\ g[m] = g[m - 1] + b[m] /\ h[m] = h[m - 1] + c[m]
        /\ a[m] + b[m] <= c[m]
    BY <1>4
  <2>2. f[m] + g[m] <= h[m]
    BY <1>6, <2>1, SMTT(40)
  <2>3. ASSUME \A i \in 1 .. n : a[i] + b[i] = c[i] PROVE f[m] + g[m] = h[m]
    <3>1. a[m] + b[m] = c[m] /\ f[m - 1] + g[m - 1] = h[m - 1]
      BY <1>6, <2>3
    <3> QED
      BY <2>1, <3>1
  <2> QED
    BY <2>1, <2>2, <2>3
<1>7. n \in T
  <2> HIDE DEF T
  <2>1. \A m \in 0 .. n : m \in T
    BY <1>5, <1>6, Induct
  <2> QED
    BY <2>1
<1> QED
  BY <1>1, <1>2, <1>3, <1>4, <1>7

\* Numbers taken in another order have the sum that they have.
LEMMA SumOfMatching ==
  ASSUME NEW n \in Nat
  PROVE  \A v \in [1 .. n -> Int], f \in Matchings(n) : NumberSum([i \in 1 .. n |-> v[f[i]]]) = NumberSum(v)
<1> DEFINE Same(m) == \A v \in [1 .. m -> Int], f \in Matchings(m) :
                        NumberSum([i \in 1 .. m |-> v[f[i]]]) = NumberSum(v)
           T == {m \in 0 .. n : Same(m)}
<1>1. 0 \in T
  <2>1. ASSUME NEW v \in [1 .. 0 -> Int], NEW f \in Matchings(0)
        PROVE  NumberSum([i \in 1 .. 0 |-> v[f[i]]]) = NumberSum(v)
    <3>1. [i \in 1 .. 0 |-> v[f[i]]] = v
      OBVIOUS
    <3> QED
      BY <3>1
  <2> QED
    BY <2>1
<1>2. ASSUME NEW m \in 1 .. n, m - 1 \in T PROVE m \in T
  <2>0. m \in Nat /\ m > 0 /\ m \in 0 .. n /\ m - 1 \in Nat /\ m \in 1 .. m
    OBVIOUS
  <2>1. Same(m - 1)
    BY <1>2
  <2> SUFFICES ASSUME NEW v \in [1 .. m -> Int], NEW f \in Matchings(m)
               PROVE  NumberSum([i \in 1 .. m |-> v[f[i]]]) = NumberSum(v)
    BY <2>0
  <2> HIDE DEF T, Same
  <2>2. /\ f \in [1 .. m -> 1 .. m] /\ \A c \in 1 .. m : \E i \in 1 .. m : f[i] = c
        /\ \A i, j \in 1 .. m : f[i] = f[j] => i = j
    BY DEF Matchings, Bijection, Injection, Surjection, IsInjective
  <2>3. PICK k \in 1 .. m : f[k] = m
    BY <2>0, <2>2
  <2> DEFINE h == [i \in 1 .. m - 1 |-> IF i = k THEN f[m] ELSE f[i]]
             w == [i \in 1 .. m - 1 |-> v[i]]
             a == [i \in 1 .. m |-> v[f[i]]]
             b == [i \in 1 .. m - 1 |-> v[f[i]]]
             c == [i \in 1 .. m - 1 |-> w[h[i]]]
  <2>4. h \in Matchings(m - 1)
    <3>1. \A i \in 1 .. m - 1 : i \in 1 .. m /\ i # m
      BY <2>0
    <3>2. ASSUME NEW i \in 1 .. m - 1 PROVE h[i] \in 1 .. m - 1
      <4>1. i \in 1 .. m /\ i # m /\ f[i] \in 1 .. m /\ f[m] \in 1 .. m
        BY <2>0, <2>2, <3>1
      <4>2. (i # k => f[i] # m) /\ (i = k => f[m] # m)
        BY <2>0, <2>2, <2>3, <4>1
      <4> QED
        BY <2>0, <4>1, <4>2
    <3>3. ASSUME NEW i \in 1 .. m - 1, NEW j \in 1 .. m - 1, h[i] = h[j] PROVE i = j
      BY <2>0, <2>2, <3>1, <3>3
    <3>4. ASSUME NEW d \in 1 .. m - 1 PROVE \E i \in 1 .. m - 1 : h[i] = d
      <4>1. d \in 1 .. m /\ d # m
        BY <3>1
      <4>2. PICK i \in 1 .. m : f[i] = d
        BY <2>2, <4>1
      <4>3. i # k
        BY <2>3, <4>1, <4>2
      <4>4. CASE i = m
        <5>1. k \in 1 .. m - 1 /\ h[k] = d
          BY <2>0, <4>2, <4>3, <4>4
        <5> QED
          BY <5>1
      <4>5. CASE i # m
        <5>1. i \in 1 .. m - 1 /\ h[i] = d
          BY <2>0, <4>2, <4>3, <4>5
        <5> QED
          BY <5>1
      <4> QED
        BY <4>4, <4>5
    <3>5. h \in [1 .. m - 1 -> 1 .. m - 1]
      BY <3>2
    <3> HIDE DEF h
    <3> QED
      BY <3>3, <3>4, <3>5 DEF Matchings, Bijection, Injection, Surjection, IsInjective
  <2>5. /\ w \in [1 .. m - 1 -> Int] /\ a \in [1 .. m -> Int] /\ b \in [1 .. m - 1 -> Int]
        /\ \A i \in 1 .. m - 1 : w[i] = v[i] /\ b[i] = a[i]
    <3>1. \A i \in 1 .. m - 1 : i \in 1 .. m
      BY <2>0
    <3>2. \A i \in 1 .. m : v[f[i]] \in Int /\ v[i] \in Int
      BY <2>2
    <3> QED
      BY <3>1, <3>2
  <2>6. c \in [1 .. m - 1 -> Int] /\ \A i \in 1 .. m - 1 : c[i] = v[h[i]]
    <3>1. \A i \in 1 .. m - 1 : h[i] \in 1 .. m - 1
      BY <2>4 DEF Matchings, Bijection, Injection
    <3> HIDE DEF h
    <3> QED
      BY <2>5, <3>1
  <2>7. a[m] = v[f[m]] /\ a[m] \in Int /\ v[m] \in Int /\ v[f[m]] \in Int
    BY <2>0, <2>2
  <2>8. \A i \in 1 .. m - 1 : i # k => c[i] = b[i]
    <3> HIDE DEF c
    <3> QED
      BY <2>6
  <2>9. k \in 1 .. m - 1 => c[k] = v[f[m]] /\ b[k] = v[m]
    <3> HIDE DEF c
    <3> QED
      BY <2>3, <2>6
  <2>10. NumberSum(c) = NumberSum(w)
    <3> HIDE DEF w, h
    <3> QED
      BY <2>1, <2>4, <2>5 DEF Same
  <2> HIDE DEF a, b, c, w, h
  <2>11. NumberSum(a) \in Int /\ NumberSum(b) \in Int /\ NumberSum(a) = NumberSum(b) + v[f[m]]
    BY <2>0, <2>5, <2>7, SumOfLast
  <2>12. NumberSum(v) \in Int /\ NumberSum(w) \in Int /\ NumberSum(v) = NumberSum(w) + v[m]
    BY <2>0, <2>5, SumOfLast
  <2>13. CASE k \in 1 .. m - 1
    <3>1. NumberSum(c) = NumberSum(b) - v[m] + v[f[m]]
      <4>1. NumberSum(c) = NumberSum(b) - b[k] + c[k]
        BY <2>0, <2>5, <2>6, <2>8, <2>13, SumOfChanged
      <4> QED
        BY <2>9, <2>13, <4>1
    <3>2. NumberSum(a) = NumberSum(v)
      BY <2>7, <2>10, <2>11, <2>12, <3>1
    <3> QED
      BY <3>2 DEF a
  <2>14. CASE k \notin 1 .. m - 1
    <3>1. k = m
      BY <2>0, <2>14
    <3>2. c = b
      <4>1. \A i \in 1 .. m - 1 : c[i] = b[i]
        BY <2>8, <2>14
      <4>2. c = [i \in 1 .. m - 1 |-> c[i]] /\ b = [i \in 1 .. m - 1 |-> b[i]]
        BY <2>5, <2>6
      <4> QED
        BY <4>1, <4>2
    <3>3. NumberSum(a) = NumberSum(v)
      BY <2>3, <2>10, <2>11, <2>12, <3>1, <3>2
    <3> QED
      BY <3>3 DEF a
  <2> QED
    BY <2>13, <2>14
<1>3. n \in T
  <2> HIDE DEF T
  <2>1. \A m \in 0 .. n : m \in T
    BY <1>1, <1>2, Induct
  <2> QED
    BY <2>1
<1> QED
  BY <1>3

\* The place of the least of some numbers.
LEMMA LeastPlace ==
  ASSUME NEW n \in Nat, NEW f, \A c \in 1 .. n : f[c] \in Int, NEW s \in SUBSET (1 .. n), s # {}
  PROVE  \E x \in s : \A y \in s : f[x] <= f[y]
<1> DEFINE T == {m \in 0 .. n : \A t \in SUBSET (1 .. m) : t # {} => \E x \in t : \A y \in t : f[x] <= f[y]}
<1>1. 0 \in T
  <2>1. ASSUME NEW t \in SUBSET (1 .. 0), t # {} PROVE \E x \in t : \A y \in t : f[x] <= f[y]
    <3>1. \A x \in t : FALSE
      OBVIOUS
    <3> QED
      BY <2>1, <3>1
  <2> QED
    BY <2>1
<1>2. ASSUME NEW m \in 1 .. n, m - 1 \in T PROVE m \in T
  <2> SUFFICES ASSUME NEW t \in SUBSET (1 .. m), t # {} PROVE \E x \in t : \A y \in t : f[x] <= f[y]
    OBVIOUS
  <2>1. \A y \in t : f[y] \in Int
    OBVIOUS
  <2>2. CASE t \ {m} = {}
    <3>1. m \in t /\ \A y \in t : y = m
      BY <2>2
    <3> QED
      BY <2>1, <3>1
  <2>3. CASE t \ {m} # {}
    <3>1. t \ {m} \in SUBSET (1 .. m - 1)
      OBVIOUS
    <3>2. PICK x \in t \ {m} : \A y \in t \ {m} : f[x] <= f[y]
      BY <1>2, <2>3, <3>1
    <3>3. CASE m \in t /\ f[m] < f[x]
      <4>1. \A y \in t : f[m] <= f[y]
        BY <2>1, <3>2, <3>3
      <4> QED
        BY <3>3, <4>1
    <3>4. CASE ~(m \in t /\ f[m] < f[x])
      <4>1. \A y \in t : f[x] <= f[y]
        BY <2>1, <3>2, <3>4
      <4> QED
        BY <3>2, <4>1
    <3> QED
      BY <3>3, <3>4
  <2> QED
    BY <2>2, <2>3
<1>3. n \in T
  <2> HIDE DEF T
  <2>1. \A m \in 0 .. n : m \in T
    BY <1>1, <1>2, Induct
  <2> QED
    BY <2>1
<1> QED
  BY <1>3

CostTables(n) == [1 .. n -> [1 .. n -> Int]]

\* The states of the assignment for n guides, and what an edge has to spare.
SearchStates(n) ==
  [row : [0 .. n -> 0 .. n], at : 0 .. n, used : SUBSET (0 .. n), previous : [0 .. n -> 0 .. n],
   minimum : [0 .. n -> Int], rowPotential : [0 .. n -> Int], columnPotential : [0 .. n -> Int]]

Slack(costs, s, r, c) == costs[r][c] - s.rowPotential[r] - s.columnPotential[c]

\* What a turn of the search finds of a column that is free.
IsNearer(costs, s, c) == s.used = {} \/ Slack(costs, s, s.row[s.at], c) < s.minimum[c]
Near(costs, s, c) == IF IsNearer(costs, s, c) THEN Slack(costs, s, s.row[s.at], c) ELSE s.minimum[c]

IsGrown(costs, s, t, n, delta) ==
  LET used == s.used \cup {s.at}
  IN /\ t \in SearchStates(n) /\ delta \in Int
     /\ t.row = s.row /\ t.used = used
     /\ t.at \in 1 .. n /\ t.at \notin used /\ Near(costs, s, t.at) = delta
     /\ \A c \in 1 .. n : c \notin used =>
          /\ delta <= Near(costs, s, c) /\ t.minimum[c] = Near(costs, s, c) - delta
          /\ t.previous[c] = IF IsNearer(costs, s, c) THEN s.at ELSE s.previous[c]
     /\ \A c \in used : t.previous[c] = s.previous[c]
     /\ \A r \in 0 .. n :
          t.rowPotential[r] = IF \E c \in used : s.row[c] = r THEN s.rowPotential[r] + delta ELSE s.rowPotential[r]
     /\ \A c \in 0 .. n :
          t.columnPotential[c] = IF c \in used THEN s.columnPotential[c] - delta ELSE s.columnPotential[c]

\* What a turn does to a state, as long as there is a column to reach.
LEMMA Grown ==
  ASSUME NEW n \in Nat, NEW costs \in CostTables(n), NEW s \in SearchStates(n),
         s.row[s.at] # 0, \E c \in 1 .. n : c \notin s.used \cup {s.at}
  PROVE  \E delta : IsGrown(costs, s, Grow(costs, n, s), n, delta)
<1> DEFINE used == s.used \cup {s.at}
           row == s.row[s.at]
           free == 1 .. n \ used
           Reduced(c) == costs[row][c] - s.rowPotential[row] - s.columnPotential[c]
           nearer == {c \in free : s.used = {} \/ Reduced(c) < s.minimum[c]}
           minimum == [c \in 0 .. n |-> IF c \in nearer THEN Reduced(c) ELSE s.minimum[c]]
           delta == Min({minimum[c] : c \in free})
           rows == {s.row[c] : c \in used}
           previous == [c \in 0 .. n |-> IF c \in nearer THEN s.at ELSE s.previous[c]]
           rest == [c \in 0 .. n |-> IF c \in used THEN minimum[c] ELSE minimum[c] - delta]
           u == [r \in 0 .. n |-> IF r \in rows THEN s.rowPotential[r] + delta ELSE s.rowPotential[r]]
           v == [c \in 0 .. n |-> IF c \in used THEN s.columnPotential[c] - delta ELSE s.columnPotential[c]]
           chosen == Min({c \in free : minimum[c] = delta})
           t == Grow(costs, n, s)
<1>1. t = IF row = 0 \/ free = {} THEN s
          ELSE [s EXCEPT !.used = used, !.previous = previous, !.minimum = rest,
                         !.rowPotential = u, !.columnPotential = v, !.at = chosen]
  BY Zenon DEF Grow
<1> HIDE DEF used, row, free, Reduced, nearer, minimum, delta, rows, previous, rest, u, v, chosen, t
<1>2. /\ s.row \in [0 .. n -> 0 .. n] /\ s.at \in 0 .. n /\ s.used \in SUBSET (0 .. n)
      /\ s.previous \in [0 .. n -> 0 .. n] /\ s.minimum \in [0 .. n -> Int]
      /\ s.rowPotential \in [0 .. n -> Int] /\ s.columnPotential \in [0 .. n -> Int]
  BY DEF SearchStates
<1>2b. \A c \in 0 .. n : s.rowPotential[c] \in Int /\ s.columnPotential[c] \in Int
  BY <1>2, Zenon
<1>3. row \in 1 .. n /\ used \in SUBSET (0 .. n) /\ free \in SUBSET (1 .. n) /\ free # {}
  <2>1. row \in 0 .. n /\ row # 0
    BY <1>2 DEF row
  <2>2. used \in SUBSET (0 .. n)
    BY <1>2 DEF used
  <2>3. free \in SUBSET (1 .. n) /\ free # {}
    BY DEF free, used
  <2> QED
    BY <2>1, <2>2, <2>3
<1>4. \A c \in 1 .. n : Reduced(c) \in Int
  <2>1. \A c \in 1 .. n : costs[row][c] \in Int
    BY <1>3 DEF CostTables
  <2>2. s.rowPotential[row] \in Int /\ \A c \in 1 .. n : s.columnPotential[c] \in Int
    <3>1. row \in 0 .. n /\ \A c \in 1 .. n : c \in 0 .. n
      BY <1>3
    <3> QED
      BY <1>2b, <3>1, Zenon
  <2>3. ASSUME NEW c \in 1 .. n PROVE Reduced(c) \in Int
    <3>1. PICK x \in Int, y \in Int, z \in Int :
            costs[row][c] = x /\ s.rowPotential[row] = y /\ s.columnPotential[c] = z
      BY <2>1, <2>2, Zenon
    <3>2. Reduced(c) = x - y - z
      BY <3>1, Zenon DEF Reduced
    <3> QED
      BY <3>2
  <2> QED
    BY <2>3
<1>5. nearer \in SUBSET free
  BY DEF nearer
<1>6. minimum \in [0 .. n -> Int]
  BY <1>2, <1>3, <1>4, <1>5 DEF minimum
<1>7. delta \in Int /\ (\A c \in free : delta <= minimum[c]) /\ \E c \in free : minimum[c] = delta
  <2>1. \A c \in 1 .. n : minimum[c] \in Int
    BY <1>6
  <2>2. PICK x \in free : \A y \in free : minimum[x] <= minimum[y]
    BY <1>3, <2>1, LeastPlace
  <2> DEFINE S == {minimum[c] : c \in free}
  <2>3. minimum[x] \in S /\ \A y \in S : minimum[x] <= y
    BY <2>2
  <2>4. delta = Min(S)
    BY DEF delta
  <2>5. Min(S) \in S /\ \A y \in S : Min(S) <= y
    <3> HIDE DEF S
    <3> QED
      BY <2>3 DEF Min
  <2>6. PICK y \in free : delta = minimum[y]
    BY <2>4, <2>5
  <2>7. \A c \in free : delta <= minimum[c]
    <3>1. \A c \in free : minimum[c] \in S
      OBVIOUS
    <3> HIDE DEF S
    <3> QED
      BY <2>4, <2>5, <3>1
  <2>8. delta \in Int
    BY <1>3, <2>1, <2>6
  <2> QED
    BY <2>6, <2>7, <2>8
<1>8. chosen \in free /\ minimum[chosen] = delta
  <2> DEFINE S == {c \in free : minimum[c] = delta}
             f == [c \in 1 .. n |-> c]
  <2>1. S \in SUBSET (1 .. n) /\ S # {}
    BY <1>3, <1>7
  <2>2. \A c \in 1 .. n : f[c] \in Int
    OBVIOUS
  <2>3. PICK x \in S : \A y \in S : f[x] <= f[y]
    <3> HIDE DEF S, f
    <3> QED
      BY <2>1, <2>2, LeastPlace
  <2>4. \A y \in S : x <= y
    BY <2>1, <2>3
  <2>5. Min(S) \in S
    <3> HIDE DEF S
    <3> QED
      BY <2>4 DEF Min
  <2> QED
    BY <2>5 DEF chosen
<1>9. /\ previous \in [0 .. n -> 0 .. n] /\ rest \in [0 .. n -> Int]
      /\ u \in [0 .. n -> Int] /\ v \in [0 .. n -> Int] /\ chosen \in 0 .. n
  <2>1. chosen \in 0 .. n
    BY <1>3, <1>8
  <2>2. previous \in [0 .. n -> 0 .. n]
    BY <1>2 DEF previous
  <2>3. rest \in [0 .. n -> Int]
    BY <1>6, <1>7 DEF rest
  <2>4. u \in [0 .. n -> Int]
    BY <1>2b, <1>7 DEF u
  <2>5. v \in [0 .. n -> Int]
    BY <1>2b, <1>7 DEF v
  <2> QED
    BY <2>1, <2>2, <2>3, <2>4, <2>5, Zenon
<1>10. /\ t.row = s.row /\ t.used = used /\ t.previous = previous /\ t.minimum = rest
       /\ t.rowPotential = u /\ t.columnPotential = v /\ t.at = chosen /\ t \in SearchStates(n)
  <2>1. row # 0 /\ free # {}
    BY <1>3
  <2>2. t = [s EXCEPT !.used = used, !.previous = previous, !.minimum = rest,
                      !.rowPotential = u, !.columnPotential = v, !.at = chosen]
    BY <1>1, <2>1
  <2>3. t = [row |-> s.row, used |-> used, previous |-> previous, minimum |-> rest,
             rowPotential |-> u, columnPotential |-> v, at |-> chosen]
    BY <2>2 DEF SearchStates
  <2> QED
    BY <1>2, <1>3, <1>9, <2>3 DEF SearchStates
<1>11. ASSUME NEW c \in 1 .. n, c \notin used
       PROVE  c \in free /\ (c \in nearer <=> IsNearer(costs, s, c)) /\ minimum[c] = Near(costs, s, c)
  <2>1. c \in free
    BY <1>11 DEF free
  <2>2. Reduced(c) = Slack(costs, s, s.row[s.at], c)
    BY DEF Reduced, Slack, row
  <2>3. c \in nearer <=> IsNearer(costs, s, c)
    BY <2>1, <2>2 DEF nearer, IsNearer
  <2>4. minimum[c] = Near(costs, s, c)
    BY <2>2, <2>3 DEF minimum, Near
  <2> QED
    BY <2>1, <2>3, <2>4
<1>12. ASSUME NEW c \in 1 .. n, c \notin used
       PROVE  /\ delta <= Near(costs, s, c) /\ t.minimum[c] = Near(costs, s, c) - delta
              /\ t.previous[c] = IF IsNearer(costs, s, c) THEN s.at ELSE s.previous[c]
  <2>1. delta <= Near(costs, s, c)
    BY <1>7, <1>11, <1>12
  <2>2. t.minimum[c] = Near(costs, s, c) - delta
    BY <1>10, <1>11, <1>12 DEF rest
  <2>3. t.previous[c] = IF IsNearer(costs, s, c) THEN s.at ELSE s.previous[c]
    BY <1>10, <1>11, <1>12 DEF previous
  <2> QED
    BY <2>1, <2>2, <2>3
<1>13. Near(costs, s, t.at) = delta /\ t.at \in 1 .. n /\ t.at \notin used
  <2>1. chosen \in 1 .. n /\ chosen \notin used
    BY <1>3, <1>8 DEF free
  <2>2. minimum[chosen] = Near(costs, s, chosen)
    BY <1>11, <2>1
  <2> QED
    BY <1>8, <1>10, <2>1, <2>2
<1>14. \A c \in used : t.previous[c] = s.previous[c]
  <2>1. \A c \in used : c \in 0 .. n /\ c \notin nearer
    BY <1>3, <1>5 DEF free
  <2> QED
    BY <1>10, <2>1 DEF previous
<1>15. \A r \in 0 .. n :
         t.rowPotential[r] = IF \E c \in used : s.row[c] = r THEN s.rowPotential[r] + delta ELSE s.rowPotential[r]
  <2>1. \A r : r \in rows <=> \E c \in used : s.row[c] = r
    BY DEF rows
  <2> QED
    BY <1>10, <2>1 DEF u
<1>16. \A c \in 0 .. n :
         t.columnPotential[c] = IF c \in used THEN s.columnPotential[c] - delta ELSE s.columnPotential[c]
  BY <1>10 DEF v
<1>17. IsGrown(costs, s, t, n, delta)
  <2>1. used = s.used \cup {s.at} /\ delta \in Int
    BY <1>7 DEF used
  <2> QED
    BY <1>10, <1>12, <1>13, <1>14, <1>15, <1>16, <2>1, ZenonT(40) DEF IsGrown
<1> QED
  BY <1>17 DEF t

\* The rows of the columns that are reached.
RowsReached(s) == {s.row[d] : d \in s.used \cup {s.at}}

\* What a turn does to what an edge has to spare.
MovesSlack(costs, s, t, delta, r, c) ==
  /\ Slack(costs, s, r, c) \in Int /\ Slack(costs, t, r, c) \in Int
  /\ (r \in RowsReached(s) <=> c \in s.used \cup {s.at}) => Slack(costs, t, r, c) = Slack(costs, s, r, c)
  /\ r \in RowsReached(s) /\ c \notin s.used \cup {s.at} => Slack(costs, t, r, c) = Slack(costs, s, r, c) - delta
  /\ r \notin RowsReached(s) /\ c \in s.used \cup {s.at} => Slack(costs, t, r, c) = Slack(costs, s, r, c) + delta

LEMMA SlackMoves ==
  ASSUME NEW n \in Nat, NEW costs \in CostTables(n), NEW s \in SearchStates(n), NEW t, NEW delta,
         IsGrown(costs, s, t, n, delta), NEW r \in 1 .. n, NEW c \in 1 .. n
  PROVE  MovesSlack(costs, s, t, delta, r, c)
<1> DEFINE used == s.used \cup {s.at}
           reached == {s.row[d] : d \in used}
<1>1. r \in 0 .. n /\ c \in 0 .. n /\ delta \in Int /\ t \in SearchStates(n)
  BY DEF IsGrown
<1>2. PICK x \in Int : x = costs[r][c]
  BY DEF CostTables
<1>3. PICK y \in Int, z \in Int : y = s.rowPotential[r] /\ z = s.columnPotential[c]
  BY <1>1 DEF SearchStates
<1>4. /\ t.rowPotential[r] = IF r \in reached THEN y + delta ELSE y
      /\ t.columnPotential[c] = IF c \in used THEN z - delta ELSE z
  <2>1. r \in reached <=> \E d \in used : s.row[d] = r
    OBVIOUS
  <2> HIDE DEF reached
  <2> QED
    BY <1>1, <1>3, <2>1 DEF IsGrown
<1>5. Slack(costs, s, r, c) = x - y - z /\ Slack(costs, t, r, c) = x - t.rowPotential[r] - t.columnPotential[c]
  BY <1>2, <1>3, Zenon DEF Slack
<1> HIDE DEF used, reached
<1>6. /\ Slack(costs, s, r, c) \in Int /\ Slack(costs, t, r, c) \in Int
      /\ (r \in reached <=> c \in used) => Slack(costs, t, r, c) = Slack(costs, s, r, c)
      /\ r \in reached /\ c \notin used => Slack(costs, t, r, c) = Slack(costs, s, r, c) - delta
      /\ r \notin reached /\ c \in used => Slack(costs, t, r, c) = Slack(costs, s, r, c) + delta
  <2>1. PICK a, b : a = t.rowPotential[r] /\ b = t.columnPotential[c]
    OBVIOUS
  <2>2. /\ a = (IF r \in reached THEN y + delta ELSE y) /\ b = (IF c \in used THEN z - delta ELSE z)
        /\ Slack(costs, s, r, c) = x - y - z /\ Slack(costs, t, r, c) = x - a - b
    BY <1>4, <1>5, <2>1
  <2> HIDE <1>3
  <2>3. x \in Int /\ y \in Int /\ z \in Int /\ delta \in Int
    BY <1>1, <1>3
  <2> QED
    BY <2>2, <2>3
<1> QED
  BY <1>6, Zenon DEF used, reached, MovesSlack, RowsReached

\* The rows up to k have a column each, among some columns.
Seated(s, k, columns) ==
  /\ \A c \in columns : s.row[c] \in 0 .. k
  /\ \A r \in 1 .. k : \E c \in columns : s.row[c] = r
  /\ \A c, d \in columns : s.row[c] # 0 /\ s.row[c] = s.row[d] => c = d

\* A column costs its row no more than their potentials.
Tight(costs, s, columns) == \A c \in columns : s.row[c] # 0 => Slack(costs, s, s.row[c], c) = 0

\* No edge costs less than the potentials at its ends.
Feasible(costs, s, rows, n) == \A r \in rows, c \in 1 .. n : Slack(costs, s, r, c) >= 0

\* The columns that are reached have a path of tight edges back to column 0,
\* and the others the least that an edge from a reached one has to spare.
Reaches(costs, s, n) ==
  /\ s.minimum[s.at] = 0
  /\ \A c \in s.used : c # 0 => s.previous[c] \in s.used /\ Slack(costs, s, s.row[s.previous[c]], c) = 0
  /\ \A c \in 1 .. n : c \notin s.used =>
       /\ s.previous[c] \in s.used /\ Slack(costs, s, s.row[s.previous[c]], c) = s.minimum[c]
       /\ \A d \in s.used : s.minimum[c] <= Slack(costs, s, s.row[d], c)

\* During the search for a column for row k.
SearchInv(costs, s, k, n) ==
  /\ s \in SearchStates(n) /\ s.row[0] = k
  /\ Seated(s, k, 0 .. n) /\ Tight(costs, s, 1 .. n)
  /\ s.at \notin s.used /\ \A c \in s.used : s.row[c] # 0
  /\ \/ s.used = {} /\ s.at = 0 /\ Feasible(costs, s, 1 .. k - 1, n)
     \/ 0 \in s.used /\ s.at # 0 /\ Feasible(costs, s, 1 .. k, n) /\ Reaches(costs, s, n)

\* A turn keeps the potentials under the costs, the assigned edges and the paths
\* tight, and what is known of the columns that are left.
LEMMA GrowKeeps ==
  ASSUME NEW n \in Nat, NEW k \in 1 .. n, NEW costs \in CostTables(n),
         NEW s, SearchInv(costs, s, k, n), s.row[s.at] # 0, NEW t, NEW delta, IsGrown(costs, s, t, n, delta)
  PROVE  SearchInv(costs, t, k, n)
<1> DEFINE used == s.used \cup {s.at}
           reached == {s.row[d] : d \in used}
           Was(r, c) == Slack(costs, s, r, c)
           Is(r, c) == Slack(costs, t, r, c)
<1>1. /\ s \in SearchStates(n) /\ s.row \in [0 .. n -> 0 .. n] /\ s.at \in 0 .. n
      /\ s.used \in SUBSET (0 .. n) /\ s.minimum \in [0 .. n -> Int] /\ s.previous \in [0 .. n -> 0 .. n]
  BY DEF SearchInv, SearchStates
<1>2a. \A r \in 1 .. n, c \in 1 .. n : MovesSlack(costs, s, t, delta, r, c)
  BY <1>1, SlackMoves
<1>2. \A r \in 1 .. n, c \in 1 .. n :
        /\ Was(r, c) \in Int /\ Is(r, c) \in Int
        /\ (r \in reached <=> c \in used) => Is(r, c) = Was(r, c)
        /\ r \in reached /\ c \notin used => Is(r, c) = Was(r, c) - delta
        /\ r \notin reached /\ c \in used => Is(r, c) = Was(r, c) + delta
  BY <1>2a, Zenon DEF MovesSlack, RowsReached
<1>3. /\ t \in SearchStates(n) /\ delta \in Int /\ t.row = s.row /\ t.used = used
      /\ t.at \in 1 .. n /\ t.at \notin used /\ Near(costs, s, t.at) = delta
  BY Zenon DEF IsGrown
<1>4. \A c \in 1 .. n : c \notin used =>
        /\ delta <= Near(costs, s, c) /\ t.minimum[c] = Near(costs, s, c) - delta
        /\ t.previous[c] = IF IsNearer(costs, s, c) THEN s.at ELSE s.previous[c]
  BY Zenon DEF IsGrown
<1>5. \A c \in used : t.previous[c] = s.previous[c]
  BY Zenon DEF IsGrown
<1>6. /\ s.row[0] = k /\ s.at \notin s.used /\ \A c \in s.used : s.row[c] # 0
      /\ \A c \in 0 .. n : s.row[c] \in 0 .. k
      /\ \A c, d \in 0 .. n : s.row[c] # 0 /\ s.row[c] = s.row[d] => c = d
      /\ \A c \in 1 .. n : s.row[c] # 0 => Was(s.row[c], c) = 0
  BY DEF SearchInv, Seated, Tight
<1>7. used \in SUBSET (0 .. n) /\ \A d \in used : s.row[d] \in 1 .. k /\ s.row[d] \in 1 .. n /\ s.row[d] \in reached
  <2>1. \A d \in used : d \in 0 .. n /\ s.row[d] # 0
    BY <1>1, <1>6
  <2>2. \A d \in used : s.row[d] \in 1 .. k /\ s.row[d] \in 1 .. n
    BY <1>6, <2>1
  <2> QED
    BY <2>1, <2>2
<1>8. \A c \in 1 .. n : s.row[c] # 0 => (s.row[c] \in reached <=> c \in used)
  <2> SUFFICES ASSUME NEW c \in 1 .. n, s.row[c] # 0, s.row[c] \in reached PROVE c \in used
    BY <1>7
  <2>1. PICK d \in used : s.row[d] = s.row[c]
    OBVIOUS
  <2>2. c \in 0 .. n /\ d \in 0 .. n
    BY <1>7
  <2>3. c = d
    BY <1>6, <2>1, <2>2
  <2> QED
    BY <2>3
<1> HIDE DEF used, reached, Was, Is
<1>9. 0 \in t.used /\ t.at # 0 /\ t.at \notin t.used /\ \A c \in t.used : t.row[c] # 0
  <2>1. 0 \in used
    BY DEF SearchInv, used
  <2>2. ASSUME NEW c \in used PROVE s.row[c] # 0
    <3>1. s.row[c] \in 1 .. n
      BY <1>7, Zenon
    <3> QED
      BY <3>1
  <2> QED
    BY <1>3, <2>1, <2>2
<1>10. Seated(t, k, 0 .. n) /\ t.row[0] = k
  BY <1>3, Zenon DEF SearchInv, Seated
<1>11. Tight(costs, t, 1 .. n)
  <2> SUFFICES ASSUME NEW c \in 1 .. n, s.row[c] # 0 PROVE Is(s.row[c], c) = 0
    BY <1>3 DEF Tight, Is
  <2>1. s.row[c] \in 1 .. n
    <3>1. c \in 0 .. n
      OBVIOUS
    <3>2. s.row[c] \in 0 .. n
      BY <1>1, <3>1, Zenon
    <3> QED
      BY <3>2
  <2>2. Is(s.row[c], c) = Was(s.row[c], c)
    BY <1>2, <1>8, <2>1
  <2> QED
    BY <1>6, <2>2
<1>12. ASSUME NEW c \in 1 .. n, c \notin used
       PROVE  /\ Near(costs, s, c) <= Was(s.row[s.at], c)
              /\ \A d \in used : Near(costs, s, c) <= Was(s.row[d], c)
              /\ t.previous[c] \in used /\ Was(s.row[t.previous[c]], c) = Near(costs, s, c)
              /\ Near(costs, s, c) \in Int
  <2>1. s.at \in used /\ \A d \in used : d \in s.used \/ d = s.at
    BY DEF used
  <2>2. c \notin s.used
    BY <1>12 DEF used
  <2>3. s.row[s.at] \in 1 .. n /\ Was(s.row[s.at], c) \in Int
    BY <1>2, <1>7, <2>1
  <2>4. CASE s.used = {}
    <3>1. IsNearer(costs, s, c) /\ Near(costs, s, c) = Was(s.row[s.at], c)
      BY <2>4 DEF IsNearer, Near, Was
    <3>2. t.previous[c] = s.at
      BY <1>4, <1>12, <3>1
    <3> QED
      BY <2>1, <2>3, <2>4, <3>1, <3>2
  <2>5. CASE s.used # {}
    <3>1. /\ s.previous[c] \in s.used /\ Was(s.row[s.previous[c]], c) = s.minimum[c]
          /\ \A d \in s.used : s.minimum[c] <= Was(s.row[d], c)
      BY <2>2, <2>5 DEF SearchInv, Reaches, Was
    <3>2. s.minimum[c] \in Int /\ s.previous[c] \in used
      <4>1. c \in 0 .. n
        OBVIOUS
      <4>2. s.minimum[c] \in Int
        BY <1>1, <4>1, Zenon
      <4>3. s.previous[c] \in used
        BY <3>1 DEF used
      <4> QED
        BY <4>2, <4>3
    <3>3. /\ IsNearer(costs, s, c) <=> Was(s.row[s.at], c) < s.minimum[c]
          /\ Near(costs, s, c) = IF IsNearer(costs, s, c) THEN Was(s.row[s.at], c) ELSE s.minimum[c]
      BY <2>5 DEF IsNearer, Near, Was
    <3>4. Near(costs, s, c) <= s.minimum[c] /\ Near(costs, s, c) <= Was(s.row[s.at], c) /\ Near(costs, s, c) \in Int
      BY <2>3, <3>2, <3>3
    <3>5. ASSUME NEW d \in used PROVE Near(costs, s, c) <= Was(s.row[d], c)
      <4>1. CASE d = s.at
        BY <3>4, <4>1
      <4>2. CASE d \in s.used
        <5>1. Was(s.row[d], c) \in Int
          BY <1>2, <1>7
        <5> QED
          BY <3>1, <3>2, <3>4, <4>2, <5>1
      <4> QED
        BY <2>1, <4>1, <4>2
    <3>6. t.previous[c] \in used /\ Was(s.row[t.previous[c]], c) = Near(costs, s, c)
      BY <1>4, <1>12, <2>1, <3>1, <3>2, <3>3
    <3> QED
      BY <3>4, <3>5, <3>6
  <2> QED
    BY <2>4, <2>5
<1>13. \A c \in used, d \in used : c # 0 => Is(s.row[d], c) = Was(s.row[d], c)
  <2>1. \A c \in used : c # 0 => c \in 1 .. n
    BY <1>7
  <2> QED
    BY <1>2, <1>7, <2>1
<1>14. \A c \in 1 .. n, d \in used : c \notin used => Is(s.row[d], c) = Was(s.row[d], c) - delta
  BY <1>2, <1>7
<1>15. Feasible(costs, t, 1 .. k, n)
  <2> SUFFICES ASSUME NEW r \in 1 .. k, NEW c \in 1 .. n PROVE Is(r, c) >= 0
    BY DEF Feasible, Is
  <2>1. r \in 1 .. n /\ Was(r, c) \in Int /\ Is(r, c) \in Int
    BY <1>2
  <2>2. CASE r \in reached /\ c \notin used
    <3>1. PICK d \in used : s.row[d] = r
      BY <2>2 DEF reached
    <3>2. delta <= Near(costs, s, c) /\ Near(costs, s, c) <= Was(r, c) /\ Near(costs, s, c) \in Int
      BY <1>4, <1>12, <2>2, <3>1
    <3>3. Is(r, c) = Was(r, c) - delta
      BY <1>2, <2>1, <2>2
    <3> QED
      BY <1>3, <2>1, <3>2, <3>3
  <2>3. CASE s.used = {} /\ ~(r \in reached /\ c \notin used)
    <3>1. s.at = 0 /\ used = {0} /\ Feasible(costs, s, 1 .. k - 1, n)
      BY <2>3 DEF SearchInv, used
    <3>2. reached = {k} /\ c \notin used
      BY <1>6, <3>1 DEF reached
    <3>3. r \in 1 .. k - 1
      BY <2>3, <3>2
    <3>4. Was(r, c) >= 0
      BY <3>1, <3>3 DEF Feasible, Was
    <3>5. Is(r, c) = Was(r, c)
      BY <1>2, <2>1, <2>3, <3>2
    <3> QED
      BY <3>4, <3>5
  <2>4. CASE s.used # {} /\ ~(r \in reached /\ c \notin used)
    <3>1. /\ \A i \in 1 .. k, j \in 1 .. n : Was(i, j) >= 0
      BY <2>4 DEF SearchInv, Feasible, Was
    <3>2. delta >= 0
      <4>1. /\ t.previous[t.at] \in used /\ Was(s.row[t.previous[t.at]], t.at) = delta
        BY <1>3, <1>12
      <4>2. s.row[t.previous[t.at]] \in 1 .. k
        BY <1>7, <4>1
      <4> QED
        BY <1>3, <3>1, <4>1, <4>2
    <3>3. Is(r, c) = Was(r, c) \/ Is(r, c) = Was(r, c) + delta
      BY <1>2, <2>1, <2>4
    <3> QED
      BY <1>3, <2>1, <3>1, <3>2, <3>3
  <2> QED
    BY <2>2, <2>3, <2>4
<1>16. Reaches(costs, t, n)
  <2>1. t.minimum[t.at] = 0
    BY <1>3, <1>4
  <2>2. ASSUME NEW c \in used, c # 0
        PROVE  t.previous[c] \in used /\ Is(s.row[t.previous[c]], c) = 0
    <3>1. c \in 1 .. n /\ t.previous[c] = s.previous[c] /\ s.used # {}
      BY <1>5, <1>7, <2>2 DEF SearchInv, used
    <3>2. Reaches(costs, s, n)
      BY <3>1 DEF SearchInv
    <3>3. s.previous[c] \in s.used /\ Was(s.row[s.previous[c]], c) = 0
      <4>1. CASE c \in s.used
        BY <2>2, <3>2, <4>1 DEF Reaches, Was
      <4>2. CASE c = s.at
        <5>1. c \notin s.used /\ s.minimum[c] = 0
          BY <1>6, <3>2, <4>2 DEF Reaches
        <5> QED
          BY <3>1, <3>2, <5>1 DEF Reaches, Was
      <4> QED
        BY <4>1, <4>2 DEF used
    <3>4. s.previous[c] \in used
      BY <3>3 DEF used
    <3> QED
      BY <1>13, <2>2, <3>1, <3>3, <3>4
  <2>3. ASSUME NEW c \in 1 .. n, c \notin used
        PROVE  /\ t.previous[c] \in used /\ Is(s.row[t.previous[c]], c) = t.minimum[c]
               /\ \A d \in used : t.minimum[c] <= Is(s.row[d], c)
    <3>1. /\ t.previous[c] \in used /\ Was(s.row[t.previous[c]], c) = Near(costs, s, c)
          /\ \A d \in used : Near(costs, s, c) <= Was(s.row[d], c)
          /\ Near(costs, s, c) \in Int
      BY <1>12, <2>3
    <3>2. t.minimum[c] = Near(costs, s, c) - delta
      BY <1>4, <2>3
    <3>3. \A d \in used : Is(s.row[d], c) = Was(s.row[d], c) - delta /\ Was(s.row[d], c) \in Int
      BY <1>2, <1>7, <1>14, <2>3
    <3> QED
      BY <1>3, <3>1, <3>2, <3>3
  <2> QED
    BY <1>3, <2>1, <2>2, <2>3 DEF Reaches, Is
<1> QED
  BY <1>3, <1>9, <1>10, <1>11, <1>15, <1>16 DEF SearchInv

\* While the column that was reached has a row, a column is left to reach.
LEMMA ColumnIsLeft ==
  ASSUME NEW n \in Nat, NEW k \in 1 .. n, NEW costs, NEW s, SearchInv(costs, s, k, n), s.row[s.at] # 0
  PROVE  \E c \in 1 .. n : c \notin s.used \cup {s.at}
<1> SUFFICES ASSUME \A c \in 1 .. n : c \in s.used \cup {s.at} PROVE FALSE
  OBVIOUS
<1>1. /\ s.row \in [0 .. n -> 0 .. n]
      /\ \A c \in 0 .. n : s.row[c] \in 0 .. k
      /\ \A c, d \in 0 .. n : s.row[c] # 0 /\ s.row[c] = s.row[d] => c = d
      /\ \A c \in s.used : s.row[c] # 0
      /\ 0 \in s.used \cup {s.at}
  BY DEF SearchInv, SearchStates, Seated
<1>2. ASSUME NEW c \in 0 .. n PROVE s.row[c] \in 1 .. n /\ s.row[c] # 0
  <2>1. c \in s.used \cup {s.at}
    BY <1>1
  <2>2. s.row[c] # 0 /\ s.row[c] \in 0 .. k
    BY <1>1, <2>1
  <2> QED
    BY <2>2
<1> DEFINE f == [c \in 0 .. n |-> s.row[c]]
<1>3. f \in [0 .. n -> 1 .. n] /\ \A c \in 0 .. n : f[c] = s.row[c]
  BY <1>2
<1>4. IsFiniteSet(0 .. n) /\ Cardinality(0 .. n) = n + 1 /\ IsFiniteSet(1 .. n) /\ Cardinality(1 .. n) = n
  BY FS_Interval
<1>5. PICK x \in 0 .. n, y \in 0 .. n : x # y /\ f[x] = f[y]
  <2>1. PICK S, T : S = 0 .. n /\ T = 1 .. n
    OBVIOUS
  <2>2. IsFiniteSet(S) /\ IsFiniteSet(T) /\ Cardinality(T) < Cardinality(S)
    BY <1>4, <2>1
  <2>3. f \in [S -> T]
    BY <1>3, <2>1
  <2> HIDE DEF f
  <2>4. \E x, y \in S : x # y /\ f[x] = f[y]
    BY <2>2, <2>3, FS_PigeonHole
  <2> QED
    BY <2>1, <2>4
<1> HIDE DEF f
<1> QED
  BY <1>1, <1>2, <1>3, <1>5

\* After m turns: each column that is reached was reached in a turn of its own,
\* later than the one before it on its path.
RoundsDone(s, m, n) ==
  /\ s.row[s.at] = 0 \/ Cardinality(s.used) = m
  /\ \E rank \in [0 .. n -> Nat] :
       \A c \in s.used : rank[c] < m /\ (c # 0 => rank[s.previous[c]] < rank[c])

\* A turn, whether or not the search is over.
LEMMA TurnKeeps ==
  ASSUME NEW n \in Nat, NEW k \in 1 .. n, NEW m \in Nat, NEW costs \in CostTables(n),
         NEW s, SearchInv(costs, s, k, n), RoundsDone(s, m, n)
  PROVE  SearchInv(costs, Grow(costs, n, s), k, n) /\ RoundsDone(Grow(costs, n, s), m + 1, n)
<1>1. s \in SearchStates(n)
  BY DEF SearchInv
<1>2. CASE s.row[s.at] = 0
  <2>1. Grow(costs, n, s) = s
    BY <1>2, Zenon DEF Grow
  <2>2. PICK rank \in [0 .. n -> Nat] :
          \A c \in s.used : rank[c] < m /\ (c # 0 => rank[s.previous[c]] < rank[c])
    BY DEF RoundsDone
  <2>3. \A c \in s.used : rank[c] < m + 1 /\ (c # 0 => rank[s.previous[c]] < rank[c])
    <3>1. \A c \in s.used : c \in 0 .. n
      BY <1>1 DEF SearchStates
    <3> QED
      BY <2>2, <3>1
  <2>4. RoundsDone(s, m + 1, n)
    BY <1>2, <2>2, <2>3 DEF RoundsDone
  <2> QED
    BY <2>1, <2>4
<1>3. CASE s.row[s.at] # 0
  <2>1. \E c \in 1 .. n : c \notin s.used \cup {s.at}
    BY <1>3, ColumnIsLeft
  <2>2. PICK t : t = Grow(costs, n, s)
    OBVIOUS
  <2>3. PICK delta : IsGrown(costs, s, t, n, delta)
    BY <1>1, <1>3, <2>1, <2>2, Grown
  <2>4. SearchInv(costs, t, k, n)
    BY <1>3, <2>3, GrowKeeps
  <2>5. /\ t.used = s.used \cup {s.at} /\ \A c \in s.used \cup {s.at} : t.previous[c] = s.previous[c]
    BY <2>3, Zenon DEF IsGrown
  <2>6. /\ s.used \in SUBSET (0 .. n) /\ s.at \in 0 .. n /\ s.at \notin s.used
        /\ \A c \in s.used : c # 0 => s.previous[c] \in s.used
        /\ s.at # 0 => s.previous[s.at] \in s.used
    <3>1. s.used \in SUBSET (0 .. n) /\ s.at \in 0 .. n /\ s.at \notin s.used
      BY DEF SearchInv, SearchStates
    <3>2. (s.used = {} /\ s.at = 0) \/ (s.at # 0 /\ Reaches(costs, s, n))
      BY Zenon DEF SearchInv
    <3>3. CASE s.used = {} /\ s.at = 0
      BY <3>1, <3>3
    <3>4. CASE s.at # 0 /\ Reaches(costs, s, n)
      <4>1. s.at \in 1 .. n
        BY <3>1, <3>4
      <4> QED
        BY <3>1, <3>4, <4>1, Zenon DEF Reaches
    <3> QED
      BY <3>2, <3>3, <3>4
  <2>7. Cardinality(t.used) = m + 1
    <3>1. IsFiniteSet(0 .. n)
      BY FS_Interval
    <3>2. IsFiniteSet(s.used)
      BY <2>6, <3>1, FS_Subset
    <3>3. Cardinality(s.used \cup {s.at}) = Cardinality(s.used) + 1
      BY <2>6, <3>2, FS_AddElement
    <3> QED
      BY <1>3, <2>5, <3>3 DEF RoundsDone
  <2>8. PICK rank \in [0 .. n -> Nat] :
          \A c \in s.used : rank[c] < m /\ (c # 0 => rank[s.previous[c]] < rank[c])
    BY DEF RoundsDone
  <2> DEFINE later == [c \in 0 .. n |-> IF c = s.at THEN m ELSE rank[c]]
  <2>9. later \in [0 .. n -> Nat] /\ later[s.at] = m /\ \A c \in s.used : later[c] = rank[c] /\ rank[c] \in Nat
    BY <2>6
  <2> HIDE DEF later
  <2>10. ASSUME NEW c \in t.used PROVE later[c] < m + 1 /\ (c # 0 => later[t.previous[c]] < later[c])
    <3>1. t.previous[c] = s.previous[c]
      BY <2>5
    <3>2. CASE c \in s.used
      BY <2>6, <2>8, <2>9, <3>1, <3>2, SMTT(40)
    <3>3. CASE c = s.at
      BY <2>6, <2>8, <2>9, <3>1, <3>3, SMTT(40)
    <3> QED
      BY <2>5, <3>2, <3>3
  <2>11. RoundsDone(t, m + 1, n)
    BY <2>7, <2>9, <2>10 DEF RoundsDone
  <2> QED
    BY <2>2, <2>4, <2>11
<1> QED
  BY <1>2, <1>3

\* A turn of any state is a state.
LEMMA GrowTyped ==
  ASSUME NEW n \in Nat, NEW costs \in CostTables(n), NEW s \in SearchStates(n)
  PROVE  Grow(costs, n, s) \in SearchStates(n)
<1>1. CASE s.row[s.at] = 0 \/ 1 .. n \ (s.used \cup {s.at}) = {}
  <2>1. Grow(costs, n, s) = s
    BY <1>1, Zenon DEF Grow
  <2> QED
    BY <2>1
<1>2. CASE ~(s.row[s.at] = 0 \/ 1 .. n \ (s.used \cup {s.at}) = {})
  <2>1. s.row[s.at] # 0 /\ \E c \in 1 .. n : c \notin s.used \cup {s.at}
    BY <1>2
  <2>2. PICK delta : IsGrown(costs, s, Grow(costs, n, s), n, delta)
    BY <2>1, Grown
  <2> QED
    BY <2>2, Zenon DEF IsGrown
<1> QED
  BY <1>1, <1>2

\* The search as the states after each of its turns.
LEMMA SearchedTurnByTurn ==
  ASSUME NEW n \in Nat, NEW costs \in CostTables(n), NEW first \in SearchStates(n)
  PROVE  \E h : /\ h \in [0 .. n + 1 -> SearchStates(n)]
                /\ h[0] = first /\ Search(costs, n, first) = h[n + 1]
                /\ \A m \in 1 .. n + 1 : h[m] = Grow(costs, n, h[m - 1])
<1> DEFINE S == SearchStates(n)
           last == n + 1
           turns == [m \in 1 .. last |-> m]
           Once(x) == Grow(costs, n, x)
           Step == [x \in S \X (1 .. last) |-> Once(x[1])]
<1>1. last \in Nat /\ DOMAIN turns = 1 .. last
  OBVIOUS
<1>2. ASSUME NEW x \in S PROVE Once(x) \in S
  BY GrowTyped
<1>3. PICK f : f = CHOOSE r : r = [s \in SUBSET (DOMAIN turns) |-> IF s = {} THEN first ELSE Once(r[s \ {Max(s)}])]
  OBVIOUS
<1>4. Search(costs, n, first) = f[DOMAIN turns]
  BY <1>3 DEF Search, FoldLeft, MapThenFoldSet
<1> HIDE DEF last, turns
<1>5. Step \in [S \X (1 .. last) -> S] /\ \A x \in S, m \in 1 .. last : Step[<<x, m>>] = Once(x)
  <2> HIDE DEF Once, S
  <2> QED
    BY <1>2
<1>6. PICK g : /\ IsFold(g, last, S, first, Step)
               /\ \A r \in SUBSET (1 .. last) : r # {} => Max(r) \in 1 .. last /\ g[r \ {Max(r)}] \in S
  <2>1. first \in S
    OBVIOUS
  <2> HIDE DEF Step, S, Once
  <2> QED
    BY <1>1, <1>5, <2>1, FoldsWithin
<1>7. g = [r \in SUBSET (1 .. last) |-> IF r = {} THEN first ELSE Once(g[r \ {Max(r)}])]
  <2>1. \A r \in SUBSET (1 .. last) : g[r] = IF r = {} THEN first ELSE Once(g[r \ {Max(r)}])
    <3> HIDE DEF Step, Once, S
    <3> QED
      BY <1>5, <1>6 DEF IsFold
  <2>2. g = [r \in SUBSET (1 .. last) |-> g[r]]
    BY <1>6 DEF IsFold
  <2> HIDE DEF Once
  <2> QED
    BY <2>1, <2>2
<1>8. f = [s \in SUBSET (1 .. last) |-> IF s = {} THEN first ELSE Once(f[s \ {Max(s)}])]
  <2>1. f = CHOOSE r : r = [s \in SUBSET (1 .. last) |-> IF s = {} THEN first ELSE Once(r[s \ {Max(s)}])]
    <3> HIDE DEF Once
    <3> QED
      BY <1>1, <1>3
  <2> HIDE DEF Once
  <2> QED
    BY <1>7, <2>1
<1> DEFINE h == [m \in 0 .. last |-> f[1 .. m]]
<1>9. h[0] = first /\ \A m \in 1 .. last : h[m] = Once(h[m - 1])
  <2>1. f[1 .. 0] = first
    BY <1>8
  <2>2. ASSUME NEW m \in 1 .. last PROVE f[1 .. m] = Once(f[1 .. m - 1])
    <3>1. /\ 1 .. m \in SUBSET (1 .. last) /\ 1 .. m # {} /\ Max(1 .. m) = m
          /\ (1 .. m) \ {m} = 1 .. m - 1
      BY <1>1, UpTo
    <3> HIDE DEF Once
    <3>2. f[1 .. m] = Once(f[(1 .. m) \ {Max(1 .. m)}])
      BY <1>8, <3>1
    <3> QED
      BY <3>1, <3>2
  <2> HIDE DEF Once
  <2> QED
    BY <1>1, <2>1, <2>2
<1>10. Search(costs, n, first) = h[last] /\ h = [m \in 0 .. last |-> h[m]]
  BY <1>1, <1>4
<1> HIDE DEF h
<1> DEFINE T == {m \in 0 .. last : h[m] \in S}
<1>11. 0 \in T
  BY <1>1, <1>9
<1>12. ASSUME NEW m \in 1 .. last, m - 1 \in T PROVE m \in T
  <2>1. h[m - 1] \in S /\ m \in 0 .. last
    BY <1>1, <1>12
  <2> HIDE DEF Once, S
  <2> QED
    BY <1>2, <1>9, <2>1
<1>13. \A m \in 0 .. last : h[m] \in S
  <2> HIDE DEF T
  <2>1. \A m \in 0 .. last : m \in T
    BY <1>1, <1>11, <1>12, Induct
  <2> QED
    BY <2>1 DEF T
<1> QED
  BY <1>9, <1>10, <1>13 DEF last

\* While a path is followed back, the column that it is at is to be given away:
\* each other one keeps its row, and the rest of the path is as it was found.
FollowInv(costs, s, reached, rank, k, n) ==
  /\ s \in SearchStates(n) /\ Feasible(costs, s, 1 .. k, n)
  /\ Seated(s, k, 0 .. n \ {s.at}) /\ Tight(costs, s, 1 .. n \ {s.at})
  /\ reached \in SUBSET (0 .. n) /\ s.at \in reached
  /\ \A c \in reached : c # 0 =>
       /\ s.previous[c] \in reached /\ rank[s.previous[c]] < rank[c]
       /\ rank[c] <= rank[s.at] =>
            s.row[s.previous[c]] # 0 /\ Slack(costs, s, s.row[s.previous[c]], c) = 0

\* After as many turns as there are columns, one without a row has been reached.
LEMMA SearchEnds ==
  ASSUME NEW n \in Nat, NEW k \in 1 .. n, NEW costs \in CostTables(n),
         NEW s, SearchInv(costs, s, k, n), RoundsDone(s, n + 1, n)
  PROVE  \E rank \in [0 .. n -> Nat] :
           FollowInv(costs, s, s.used \cup {s.at}, rank, k, n) /\ rank[s.at] <= n + 1
<1>1. /\ s \in SearchStates(n) /\ s.row \in [0 .. n -> 0 .. n] /\ s.at \in 0 .. n
      /\ s.used \in SUBSET (0 .. n) /\ s.at \notin s.used
  BY DEF SearchInv, SearchStates
<1>2. s.row[s.at] = 0
  <2> SUFFICES ASSUME s.row[s.at] # 0 PROVE FALSE
    OBVIOUS
  <2>1. IsFiniteSet(0 .. n) /\ Cardinality(0 .. n) = n + 1
    BY FS_Interval
  <2>2. Cardinality(s.used) = n + 1
    BY DEF RoundsDone
  <2>3. s.used = 0 .. n
    BY <1>1, <2>1, <2>2, FS_Subset
  <2> QED
    BY <1>1, <2>3
<1>3. s.at # 0 /\ s.at \in 1 .. n /\ 0 \in s.used /\ Feasible(costs, s, 1 .. k, n) /\ Reaches(costs, s, n)
  <2>1. s.row[0] = k /\ k # 0
    BY DEF SearchInv
  <2>2. s.at # 0
    BY <1>2, <2>1
  <2>3. s.at \in 1 .. n
    BY <1>1, <2>2
  <2> QED
    BY <2>2, <2>3, Zenon DEF SearchInv
<1>4. PICK rank \in [0 .. n -> Nat] :
        \A c \in s.used : rank[c] < n + 1 /\ (c # 0 => rank[s.previous[c]] < rank[c])
  BY DEF RoundsDone
<1> DEFINE later == [c \in 0 .. n |-> IF c = s.at THEN n + 1 ELSE rank[c]]
           reached == s.used \cup {s.at}
<1>5. later \in [0 .. n -> Nat] /\ later[s.at] = n + 1 /\ \A c \in s.used : later[c] = rank[c]
  <2>1. \A c \in 0 .. n : rank[c] \in Nat
    OBVIOUS
  <2>2. n + 1 \in Nat
    OBVIOUS
  <2>3. later \in [0 .. n -> Nat]
    BY <2>1, <2>2
  <2>4. later[s.at] = n + 1
    BY <1>1
  <2>5. \A c \in s.used : c \in 0 .. n /\ c # s.at
    BY <1>1
  <2>6. \A c \in s.used : later[c] = rank[c]
    BY <2>5
  <2> HIDE DEF later
  <2> QED
    BY <2>3, <2>4, <2>6
<1> HIDE DEF later
<1>6. /\ \A c \in s.used : c # 0 => s.previous[c] \in s.used /\ Slack(costs, s, s.row[s.previous[c]], c) = 0
      /\ s.previous[s.at] \in s.used /\ Slack(costs, s, s.row[s.previous[s.at]], s.at) = 0
      /\ \A c \in s.used : s.row[c] # 0
  BY <1>1, <1>3, Zenon DEF SearchInv, Reaches
<1>7. ASSUME NEW c \in reached, c # 0
      PROVE  /\ s.previous[c] \in reached /\ later[s.previous[c]] < later[c]
             /\ s.row[s.previous[c]] # 0 /\ Slack(costs, s, s.row[s.previous[c]], c) = 0
  <2>1. CASE c \in s.used
    BY <1>4, <1>5, <1>6, <1>7, <2>1
  <2>2. CASE c = s.at
    BY <1>4, <1>5, <1>6, <2>2
  <2> QED
    BY <2>1, <2>2
<1>8. Seated(s, k, 0 .. n \ {s.at})
  <2>1. Seated(s, k, 0 .. n)
    BY DEF SearchInv
  <2>2. \A r \in 1 .. k : \E c \in 0 .. n \ {s.at} : s.row[c] = r
    BY <1>2, <2>1, SMTT(40) DEF Seated
  <2> QED
    BY <2>1, <2>2 DEF Seated
<1>9. Tight(costs, s, 1 .. n \ {s.at})
  BY DEF SearchInv, Tight
<1>10. reached \in SUBSET (0 .. n) /\ s.at \in reached
  BY <1>1
<1>11. FollowInv(costs, s, reached, later, k, n) /\ later[s.at] <= n + 1
  <2> HIDE DEF reached
  <2>1. later[s.at] <= n + 1
    BY <1>5
  <2> QED
    BY <1>1, <1>3, <1>7, <1>8, <1>9, <1>10, <2>1, Zenon DEF FollowInv
<1> QED
  BY <1>5, <1>11

\* A step back along the path gives a column the row of the one before it.
LEMMA FollowKeeps ==
  ASSUME NEW n \in Nat, NEW k \in 1 .. n, NEW costs, NEW s, NEW j, NEW reached, NEW rank \in [0 .. n -> Nat],
         FollowInv(costs, s, reached, rank, k, n), NEW m \in Nat, s.at = 0 \/ rank[s.at] <= m + 1
  PROVE  LET t == Augment(s, j)
         IN FollowInv(costs, t, reached, rank, k, n) /\ (t.at = 0 \/ rank[t.at] <= m)
<1>1. CASE s.at = 0
  <2>1. Augment(s, j) = s
    BY <1>1, Zenon DEF Augment
  <2> QED
    BY <1>1, <2>1
<1>2. CASE s.at # 0
  <2> DEFINE t == Augment(s, j)
             from == s.previous[s.at]
  <2>1. /\ s \in SearchStates(n) /\ s.row \in [0 .. n -> 0 .. n] /\ s.at \in 0 .. n
        /\ reached \in SUBSET (0 .. n) /\ s.at \in reached
    BY DEF FollowInv, SearchStates
  <2>2. /\ \A c \in reached : c # 0 => s.previous[c] \in reached /\ rank[s.previous[c]] < rank[c]
        /\ \A c \in reached : c # 0 /\ rank[c] <= rank[s.at] =>
             s.row[s.previous[c]] # 0 /\ Slack(costs, s, s.row[s.previous[c]], c) = 0
    BY Zenon DEF FollowInv
  <2>3. /\ from \in reached /\ from \in 0 .. n /\ rank[from] < rank[s.at] /\ from # s.at
        /\ s.row[from] # 0 /\ Slack(costs, s, s.row[from], s.at) = 0
    <3>1. from \in reached /\ rank[from] < rank[s.at]
      BY <1>2, <2>1, <2>2
    <3>2. rank[s.at] <= rank[s.at] /\ rank[s.at] \in Nat
      BY <2>1
    <3>3. s.row[from] # 0 /\ Slack(costs, s, s.row[from], s.at) = 0
      BY <1>2, <2>1, <2>2, <3>2
    <3>4. from \in 0 .. n /\ from # s.at
      <4> HIDE DEF from
      <4>1. from \in 0 .. n
        BY <2>1, <3>1, Zenon
      <4>2. ASSUME from = s.at PROVE FALSE
        <5>1. PICK x \in Nat : x = rank[s.at]
          BY <3>2, Zenon
        <5>2. x < x
          BY <3>1, <4>2, <5>1, Zenon
        <5> QED
          BY <5>2, SMT
      <4> QED
        BY <4>1, <4>2, Zenon
    <3> QED
      BY <3>1, <3>3, <3>4
  <2>4. t = [s EXCEPT !.row[s.at] = s.row[from], !.at = from]
    BY <1>2, Zenon DEF Augment
  <2> HIDE DEF t, from
  <2>5. /\ t.row = [s.row EXCEPT ![s.at] = s.row[from]] /\ t.at = from /\ t.previous = s.previous
        /\ t.rowPotential = s.rowPotential /\ t.columnPotential = s.columnPotential /\ t \in SearchStates(n)
    <3>1. [s.row EXCEPT ![s.at] = s.row[from]] \in [0 .. n -> 0 .. n]
      BY <2>1, <2>3
    <3>2. PICK row : row = [s.row EXCEPT ![s.at] = s.row[from]]
      OBVIOUS
    <3>3. t = [s EXCEPT !.row = row, !.at = from]
      BY <2>4, <3>2, Zenon
    <3>4. row \in [0 .. n -> 0 .. n]
      BY <3>1, <3>2
    <3>5. t.row = row /\ t.at = from /\ t.previous = s.previous
          /\ t.rowPotential = s.rowPotential /\ t.columnPotential = s.columnPotential /\ t \in SearchStates(n)
      BY <2>1, <2>3, <3>3, <3>4 DEF SearchStates
    <3> QED
      BY <3>2, <3>5
  <2>6. t.row[s.at] = s.row[from] /\ \A c \in 0 .. n : c # s.at => t.row[c] = s.row[c]
    BY <2>1, <2>5
  <2>7. \A r, c : Slack(costs, t, r, c) = Slack(costs, s, r, c)
    BY <2>5, Zenon DEF Slack
  <2>8. Feasible(costs, t, 1 .. k, n)
    BY <2>7, Zenon DEF FollowInv, Feasible
  <2>9. /\ \A c \in 0 .. n : c # s.at => s.row[c] \in 0 .. k
        /\ \A r \in 1 .. k : \E c \in 0 .. n : c # s.at /\ s.row[c] = r
        /\ \A c, d \in 0 .. n : c # s.at /\ d # s.at /\ s.row[c] # 0 /\ s.row[c] = s.row[d] => c = d
        /\ \A c \in 1 .. n : c # s.at /\ s.row[c] # 0 => Slack(costs, s, s.row[c], c) = 0
    BY DEF FollowInv, Seated, Tight
  <2>10. Seated(t, k, 0 .. n \ {from})
    <3>1. \A c \in 0 .. n \ {from} : t.row[c] \in 0 .. k
      BY <2>3, <2>6, <2>9
    <3>2. ASSUME NEW r \in 1 .. k PROVE \E c \in 0 .. n \ {from} : t.row[c] = r
      <4>1. PICK c \in 0 .. n : c # s.at /\ s.row[c] = r
        BY <2>9
      <4>2. CASE c = from
        BY <2>1, <2>3, <2>6, <4>1, <4>2
      <4>3. CASE c # from
        BY <2>6, <4>1, <4>3
      <4> QED
        BY <4>2, <4>3
    <3>3. ASSUME NEW c \in 0 .. n \ {from}, NEW d \in 0 .. n \ {from}, t.row[c] # 0, t.row[c] = t.row[d]
          PROVE  c = d
      <4>1. CASE c = s.at /\ d # s.at
        <5>1. s.row[from] = s.row[d]
          BY <2>6, <3>3, <4>1
        <5> QED
          BY <2>3, <2>9, <4>1, <5>1
      <4>2. CASE c # s.at /\ d = s.at
        <5>1. s.row[from] = s.row[c]
          BY <2>6, <3>3, <4>2
        <5> QED
          BY <2>3, <2>9, <4>2, <5>1
      <4>3. CASE c # s.at /\ d # s.at
        <5>1. s.row[c] # 0 /\ s.row[c] = s.row[d]
          BY <2>6, <3>3, <4>3
        <5> QED
          BY <2>9, <4>3, <5>1
      <4> QED
        BY <4>1, <4>2, <4>3
    <3> QED
      BY <3>1, <3>2, <3>3 DEF Seated
  <2>11. Tight(costs, t, 1 .. n \ {from})
    <3> SUFFICES ASSUME NEW c \in 1 .. n, c # from, t.row[c] # 0 PROVE Slack(costs, s, t.row[c], c) = 0
      BY <2>7 DEF Tight
    <3>1. CASE c = s.at
      BY <2>3, <2>6, <3>1
    <3>2. CASE c # s.at
      <4>1. c \in 0 .. n
        OBVIOUS
      <4>2. t.row[c] = s.row[c]
        BY <2>6, <3>2, <4>1
      <4> QED
        BY <2>9, <3>2, <4>2
    <3> QED
      BY <3>1, <3>2
  <2>12. ASSUME NEW c \in reached, c # 0
         PROVE  /\ t.previous[c] \in reached /\ rank[t.previous[c]] < rank[c]
                /\ rank[c] <= rank[from] =>
                     t.row[t.previous[c]] # 0 /\ Slack(costs, t, t.row[t.previous[c]], c) = 0
    <3>1. t.previous[c] = s.previous[c] /\ s.previous[c] \in reached /\ rank[s.previous[c]] < rank[c]
      BY <2>2, <2>5, <2>12
    <3>2. ASSUME rank[c] <= rank[from]
          PROVE  t.row[t.previous[c]] # 0 /\ Slack(costs, t, t.row[t.previous[c]], c) = 0
      <4>1. /\ rank[c] \in Nat /\ rank[from] \in Nat /\ rank[s.at] \in Nat /\ rank[s.previous[c]] \in Nat
            /\ s.previous[c] \in 0 .. n
        BY <2>1, <2>3, <3>1
      <4>2. rank[c] <= rank[s.at] /\ s.previous[c] # s.at
        BY <2>3, <3>1, <3>2, <4>1, SMTT(40)
      <4>3. t.row[s.previous[c]] = s.row[s.previous[c]]
        BY <2>6, <4>1, <4>2
      <4>4. s.row[s.previous[c]] # 0 /\ Slack(costs, s, s.row[s.previous[c]], c) = 0
        BY <2>2, <2>12, <4>2
      <4> QED
        BY <2>7, <3>1, <4>3, <4>4
    <3> QED
      BY <3>1, <3>2
  <2>13. FollowInv(costs, t, reached, rank, k, n)
    BY <2>1, <2>3, <2>5, <2>8, <2>10, <2>11, <2>12, Zenon DEF FollowInv
  <2>14. rank[t.at] <= m
    <3>1. rank[from] \in Nat /\ rank[s.at] \in Nat
      BY <2>1, <2>3
    <3> QED
      BY <1>2, <2>3, <2>5, <3>1
  <2> QED
    BY <2>13, <2>14 DEF t
<1> QED
  BY <1>1, <1>2

\* A step back from any state is a state.
LEMMA AugmentTyped ==
  ASSUME NEW n \in Nat, NEW s \in SearchStates(n), NEW j
  PROVE  Augment(s, j) \in SearchStates(n)
<1>1. CASE s.at = 0
  BY <1>1 DEF Augment
<1>2. CASE s.at # 0
  <2>1. /\ s.row \in [0 .. n -> 0 .. n] /\ s.at \in 0 .. n /\ s.previous \in [0 .. n -> 0 .. n]
    BY DEF SearchStates
  <2>2. PICK from \in 0 .. n : from = s.previous[s.at]
    BY <2>1
  <2>3. PICK row : row = [s.row EXCEPT ![s.at] = s.row[from]]
    OBVIOUS
  <2>4. row \in [0 .. n -> 0 .. n]
    BY <2>1, <2>3
  <2>5. Augment(s, j) = [s EXCEPT !.row[s.at] = s.row[from], !.at = from]
    BY <1>2, <2>2, Zenon DEF Augment
  <2>6. Augment(s, j) = [s EXCEPT !.row = row, !.at = from]
    BY <2>3, <2>5, Zenon
  <2> QED
    BY <2>4, <2>6 DEF SearchStates
<1> QED
  BY <1>1, <1>2

\* The way back as the states after each of its steps.
LEMMA FollowedStepByStep ==
  ASSUME NEW n \in Nat, NEW first \in SearchStates(n)
  PROVE  \E h : /\ h \in [0 .. n + 1 -> SearchStates(n)]
                /\ h[0] = first /\ FollowBack(n, first) = h[n + 1]
                /\ \A m \in 1 .. n + 1 : h[m] = Augment(h[m - 1], m)
<1> DEFINE S == SearchStates(n)
           last == n + 1
           turns == [m \in 1 .. last |-> m]
           Once(x, m) == Augment(x, turns[m])
           Step == [x \in S \X (1 .. last) |-> Once(x[1], x[2])]
<1>1. last \in Nat /\ DOMAIN turns = 1 .. last /\ \A m \in 1 .. last : turns[m] = m
  OBVIOUS
<1>2. ASSUME NEW x \in S, NEW m \in 1 .. last PROVE Once(x, m) \in S
  BY <1>1, AugmentTyped
<1>3. PICK f : f = CHOOSE r : r = [s \in SUBSET (DOMAIN turns) |-> IF s = {} THEN first ELSE Once(r[s \ {Max(s)}], Max(s))]
  OBVIOUS
<1>4. FollowBack(n, first) = f[DOMAIN turns]
  BY <1>3 DEF FollowBack, FoldLeft, MapThenFoldSet
<1> HIDE DEF last, turns
<1>5. Step \in [S \X (1 .. last) -> S] /\ \A x \in S, m \in 1 .. last : Step[<<x, m>>] = Once(x, m)
  <2> HIDE DEF Once, S
  <2> QED
    BY <1>2
<1>6. PICK g : /\ IsFold(g, last, S, first, Step)
               /\ \A r \in SUBSET (1 .. last) : r # {} => Max(r) \in 1 .. last /\ g[r \ {Max(r)}] \in S
  <2>1. first \in S
    OBVIOUS
  <2> HIDE DEF Step, S, Once
  <2> QED
    BY <1>1, <1>5, <2>1, FoldsWithin
<1>7. g = [r \in SUBSET (1 .. last) |-> IF r = {} THEN first ELSE Once(g[r \ {Max(r)}], Max(r))]
  <2>1. \A r \in SUBSET (1 .. last) : g[r] = IF r = {} THEN first ELSE Once(g[r \ {Max(r)}], Max(r))
    <3> HIDE DEF Step, Once, S
    <3> QED
      BY <1>5, <1>6 DEF IsFold
  <2>2. g = [r \in SUBSET (1 .. last) |-> g[r]]
    BY <1>6 DEF IsFold
  <2> HIDE DEF Once
  <2> QED
    BY <2>1, <2>2
<1>8. f = [s \in SUBSET (1 .. last) |-> IF s = {} THEN first ELSE Once(f[s \ {Max(s)}], Max(s))]
  <2>1. f = CHOOSE r : r = [s \in SUBSET (1 .. last) |-> IF s = {} THEN first ELSE Once(r[s \ {Max(s)}], Max(s))]
    <3> HIDE DEF Once
    <3> QED
      BY <1>1, <1>3
  <2> HIDE DEF Once
  <2> QED
    BY <1>7, <2>1
<1> DEFINE h == [m \in 0 .. last |-> f[1 .. m]]
<1>9. h[0] = first /\ \A m \in 1 .. last : h[m] = Once(h[m - 1], m)
  <2>1. f[1 .. 0] = first
    BY <1>8
  <2>2. ASSUME NEW m \in 1 .. last PROVE f[1 .. m] = Once(f[1 .. m - 1], m)
    <3>1. /\ 1 .. m \in SUBSET (1 .. last) /\ 1 .. m # {} /\ Max(1 .. m) = m
          /\ (1 .. m) \ {m} = 1 .. m - 1
      BY <1>1, UpTo
    <3> HIDE DEF Once
    <3>2. f[1 .. m] = Once(f[(1 .. m) \ {Max(1 .. m)}], Max(1 .. m))
      BY <1>8, <3>1
    <3> QED
      BY <3>1, <3>2
  <2> HIDE DEF Once
  <2> QED
    BY <1>1, <2>1, <2>2
<1>10. FollowBack(n, first) = h[last] /\ h = [m \in 0 .. last |-> h[m]]
  BY <1>1, <1>4
<1> HIDE DEF h
<1> DEFINE T == {m \in 0 .. last : h[m] \in S}
<1>11. 0 \in T
  BY <1>1, <1>9
<1>12. ASSUME NEW m \in 1 .. last, m - 1 \in T PROVE m \in T
  <2>1. h[m - 1] \in S /\ m \in 0 .. last
    BY <1>1, <1>12
  <2> HIDE DEF Once, S
  <2> QED
    BY <1>2, <1>9, <2>1
<1>13. \A m \in 0 .. last : h[m] \in S
  <2> HIDE DEF T
  <2>1. \A m \in 0 .. last : m \in T
    BY <1>1, <1>11, <1>12, Induct
  <2> QED
    BY <2>1 DEF T
<1>14. \A m \in 1 .. last : h[m] = Augment(h[m - 1], m)
  BY <1>1, <1>9
<1> QED
  BY <1>9, <1>10, <1>13, <1>14 DEF last

\* With k rows assigned: they have columns of their own, on tight edges.
AssignInv(costs, s, k, n) ==
  /\ s \in SearchStates(n)
  /\ Seated(s, k, 1 .. n) /\ Tight(costs, s, 1 .. n) /\ Feasible(costs, s, 1 .. k, n)

\* Row k is put in column 0, and nothing has been reached.
Starts(s, t, k) == t = [s EXCEPT !.row[0] = k, !.at = 0, !.used = {}]

LEMMA RowStarts ==
  ASSUME NEW n \in Nat, NEW k \in 1 .. n, NEW s \in SearchStates(n),
         NEW t, Starts(s, t, k)
  PROVE  /\ t \in SearchStates(n) /\ t.at = 0 /\ t.used = {}
         /\ t.row[0] = k /\ \A c \in 1 .. n : t.row[c] = s.row[c]
         /\ t.rowPotential = s.rowPotential /\ t.columnPotential = s.columnPotential
<1>1. s.row \in [0 .. n -> 0 .. n] /\ k \in 0 .. n /\ 0 \in 0 .. n
  <2>1. k \in 0 .. n /\ 0 \in 0 .. n
    OBVIOUS
  <2>2. s.row \in [0 .. n -> 0 .. n]
    BY DEF SearchStates
  <2> QED
    BY <2>1, <2>2, Zenon
<1>2. PICK row : row = [s.row EXCEPT ![0] = k]
  OBVIOUS
<1>3. row \in [0 .. n -> 0 .. n] /\ row[0] = k /\ \A c \in 1 .. n : row[c] = s.row[c]
  <2>1. row \in [0 .. n -> 0 .. n]
    BY <1>1, <1>2, Zenon
  <2>2. row[0] = k
    BY <1>1, <1>2, Zenon
  <2>3. \A c \in 1 .. n : c \in 0 .. n /\ c # 0
    OBVIOUS
  <2>4. \A c \in 1 .. n : row[c] = s.row[c]
    BY <1>1, <1>2, <2>3, Zenon
  <2> QED
    BY <2>1, <2>2, <2>4
<1>4. t = [s EXCEPT !.row = row, !.at = 0, !.used = {}]
  BY <1>2, Zenon DEF Starts
<1>5. /\ t.row = row /\ t.at = 0 /\ t.used = {} /\ t.previous = s.previous /\ t.minimum = s.minimum
      /\ t.rowPotential = s.rowPotential /\ t.columnPotential = s.columnPotential
      /\ t = [row |-> row, at |-> 0, used |-> {}, previous |-> s.previous, minimum |-> s.minimum,
              rowPotential |-> s.rowPotential, columnPotential |-> s.columnPotential]
  BY <1>4 DEF SearchStates
<1>6. t \in SearchStates(n)
  <2>1. /\ s.previous \in [0 .. n -> 0 .. n] /\ s.minimum \in [0 .. n -> Int]
        /\ s.rowPotential \in [0 .. n -> Int] /\ s.columnPotential \in [0 .. n -> Int]
        /\ {} \in SUBSET (0 .. n)
    BY DEF SearchStates
  <2> QED
    BY <1>1, <1>3, <1>5, <2>1, Zenon DEF SearchStates
<1> QED
  BY <1>3, <1>5, <1>6

\* A search begins with what the rows before have been assigned.
LEMMA RowBegins ==
  ASSUME NEW n \in Nat, NEW k \in 1 .. n, NEW costs, NEW s, AssignInv(costs, s, k - 1, n),
         NEW t, Starts(s, t, k)
  PROVE  SearchInv(costs, t, k, n) /\ RoundsDone(t, 0, n)
<1>1. /\ s \in SearchStates(n) /\ s.row \in [0 .. n -> 0 .. n]
      /\ \A c \in 1 .. n : s.row[c] \in 0 .. k - 1
      /\ \A r \in 1 .. k - 1 : \E c \in 1 .. n : s.row[c] = r
      /\ \A c, d \in 1 .. n : s.row[c] # 0 /\ s.row[c] = s.row[d] => c = d
      /\ \A c \in 1 .. n : s.row[c] # 0 => Slack(costs, s, s.row[c], c) = 0
  BY DEF AssignInv, SearchStates, Seated, Tight
<1>2. /\ t \in SearchStates(n) /\ t.at = 0 /\ t.used = {}
      /\ t.row[0] = k /\ \A c \in 1 .. n : t.row[c] = s.row[c]
      /\ t.rowPotential = s.rowPotential /\ t.columnPotential = s.columnPotential
  <2>1. s \in SearchStates(n)
    BY <1>1
  <2> QED
    BY <2>1, RowStarts
<1>3. PICK row : row = t.row
  OBVIOUS
<1>4. row[0] = k /\ \A c \in 1 .. n : row[c] = s.row[c]
  BY <1>2, <1>3
<1>5. /\ t \in SearchStates(n) /\ t.row = row /\ t.at = 0 /\ t.used = {}
      /\ t.rowPotential = s.rowPotential /\ t.columnPotential = s.columnPotential
  BY <1>2, <1>3
<1>6. \A r, c : Slack(costs, t, r, c) = Slack(costs, s, r, c)
  BY <1>5, Zenon DEF Slack
<1>7. Seated(t, k, 0 .. n)
  <2>1. \A c \in 0 .. n : c = 0 \/ c \in 1 .. n
    OBVIOUS
  <2>2. \A c \in 0 .. n : row[c] \in 0 .. k
    <3>1. \A c \in 1 .. n : s.row[c] \in 0 .. k
      <4>1. \A x \in 0 .. k - 1 : x \in 0 .. k
        OBVIOUS
      <4> QED
        BY <1>1, <4>1, Zenon
    <3> QED
      BY <1>4, <2>1, <3>1
  <2>3. \A r \in 1 .. k : \E c \in 0 .. n : row[c] = r
    <3> SUFFICES ASSUME NEW r \in 1 .. k PROVE \E c \in 0 .. n : row[c] = r
      OBVIOUS
    <3>1. CASE r = k
      BY <1>4, <3>1
    <3>2. CASE r # k
      <4>1. r \in 1 .. k - 1
        BY <3>2
      <4>2. PICK c \in 1 .. n : s.row[c] = r
        BY <1>1, <4>1
      <4> QED
        BY <1>4, <4>2
    <3> QED
      BY <3>1, <3>2
  <2>4. ASSUME NEW c \in 0 .. n, NEW d \in 0 .. n, row[c] # 0, row[c] = row[d] PROVE c = d
    <3>1. \A e \in 1 .. n : row[e] # k
      <4>1. \A x \in 0 .. k - 1 : x # k
        OBVIOUS
      <4> QED
        BY <1>1, <1>4, <4>1, Zenon
    <3>2. CASE c = 0 \/ d = 0
      BY <1>4, <2>1, <2>4, <3>1, <3>2
    <3>3. CASE c \in 1 .. n /\ d \in 1 .. n
      BY <1>1, <1>4, <2>4, <3>3
    <3> QED
      BY <2>1, <3>2, <3>3
  <2> QED
    BY <1>5, <2>2, <2>3, <2>4 DEF Seated
<1>8. Tight(costs, t, 1 .. n)
  <2> SUFFICES ASSUME NEW c \in 1 .. n, t.row[c] # 0 PROVE Slack(costs, t, t.row[c], c) = 0
    BY DEF Tight
  <2>1. t.row[c] = s.row[c]
    BY <1>2
  <2>2. Slack(costs, s, s.row[c], c) = 0
    BY <1>1, <2>1
  <2> QED
    BY <1>6, <2>1, <2>2
<1>9. Feasible(costs, t, 1 .. k - 1, n)
  BY <1>6, Zenon DEF AssignInv, Feasible
<1>10. SearchInv(costs, t, k, n)
  <2>1. t.row[0] = k /\ t.at \notin t.used /\ \A c \in t.used : t.row[c] # 0
    BY <1>4, <1>5
  <2> QED
    BY <1>5, <1>7, <1>8, <1>9, <2>1 DEF SearchInv
<1>11. RoundsDone(t, 0, n)
  <2>1. Cardinality(t.used) = 0
    BY <1>5, FS_EmptySet
  <2> DEFINE rank == [c \in 0 .. n |-> 0]
  <2>2. rank \in [0 .. n -> Nat]
    OBVIOUS
  <2> HIDE DEF rank
  <2> QED
    BY <1>5, <2>1, <2>2 DEF RoundsDone
<1> QED
  BY <1>10, <1>11

\* The search as a whole.
LEMMA SearchFinds ==
  ASSUME NEW n \in Nat, NEW k \in 1 .. n, NEW costs \in CostTables(n), NEW first,
         SearchInv(costs, first, k, n), RoundsDone(first, 0, n)
  PROVE  LET s == Search(costs, n, first) IN SearchInv(costs, s, k, n) /\ RoundsDone(s, n + 1, n)
<1>1. first \in SearchStates(n) /\ n + 1 \in Nat
  BY DEF SearchInv
<1>2. PICK h : /\ h \in [0 .. n + 1 -> SearchStates(n)]
               /\ h[0] = first /\ Search(costs, n, first) = h[n + 1]
               /\ \A m \in 1 .. n + 1 : h[m] = Grow(costs, n, h[m - 1])
  BY <1>1, SearchedTurnByTurn
<1> DEFINE T == {m \in 0 .. n + 1 : SearchInv(costs, h[m], k, n) /\ RoundsDone(h[m], m, n)}
<1>3. 0 \in T
  BY <1>2
<1>4. ASSUME NEW m \in 1 .. n + 1, m - 1 \in T PROVE m \in T
  <2>1. /\ SearchInv(costs, h[m - 1], k, n) /\ RoundsDone(h[m - 1], m - 1, n)
        /\ h[m] = Grow(costs, n, h[m - 1]) /\ m - 1 \in Nat /\ m \in 0 .. n + 1 /\ (m - 1) + 1 = m
    BY <1>2, <1>4
  <2>2. SearchInv(costs, h[m], k, n) /\ RoundsDone(h[m], (m - 1) + 1, n)
    BY <2>1, TurnKeeps
  <2> QED
    BY <2>1, <2>2
<1>5. n + 1 \in T
  <2> HIDE DEF T
  <2>1. \A m \in 0 .. n + 1 : m \in T
    BY <1>1, <1>3, <1>4, Induct
  <2> QED
    BY <2>1
<1> QED
  BY <1>2, <1>5

\* The way back ends at column 0.
LEMMA PathIsFollowed ==
  ASSUME NEW n \in Nat, NEW k \in 1 .. n, NEW costs, NEW first, NEW reached, NEW rank \in [0 .. n -> Nat],
         FollowInv(costs, first, reached, rank, k, n), rank[first.at] <= n + 1
  PROVE  LET s == FollowBack(n, first) IN FollowInv(costs, s, reached, rank, k, n) /\ s.at = 0
<1>1. first \in SearchStates(n) /\ n + 1 \in Nat
  BY DEF FollowInv
<1>2. PICK h : /\ h \in [0 .. n + 1 -> SearchStates(n)]
               /\ h[0] = first /\ FollowBack(n, first) = h[n + 1]
               /\ \A m \in 1 .. n + 1 : h[m] = Augment(h[m - 1], m)
  BY <1>1, FollowedStepByStep
<1> DEFINE T == {m \in 0 .. n + 1 : /\ FollowInv(costs, h[m], reached, rank, k, n)
                                    /\ h[m].at = 0 \/ rank[h[m].at] <= n + 1 - m}
<1>3. 0 \in T
  BY <1>2
<1>4. ASSUME NEW m \in 1 .. n + 1, m - 1 \in T PROVE m \in T
  <2>1. /\ FollowInv(costs, h[m - 1], reached, rank, k, n) /\ h[m] = Augment(h[m - 1], m)
        /\ h[m - 1].at = 0 \/ rank[h[m - 1].at] <= (n + 1 - m) + 1
        /\ n + 1 - m \in Nat /\ m \in 0 .. n + 1
    BY <1>2, <1>4
  <2>2. FollowInv(costs, h[m], reached, rank, k, n) /\ (h[m].at = 0 \/ rank[h[m].at] <= n + 1 - m)
    <3>1. PICK a, b : a = h[m - 1] /\ b = n + 1 - m
      OBVIOUS
    <3>2. /\ FollowInv(costs, a, reached, rank, k, n) /\ b \in Nat
          /\ a.at = 0 \/ rank[a.at] <= b + 1
      BY <2>1, <3>1
    <3>3. PICK t : t = Augment(a, m)
      OBVIOUS
    <3>4. FollowInv(costs, t, reached, rank, k, n) /\ (t.at = 0 \/ rank[t.at] <= b)
      BY <3>2, <3>3, FollowKeeps
    <3> QED
      BY <2>1, <3>1, <3>3, <3>4
  <2> QED
    BY <2>1, <2>2
<1>5. n + 1 \in T
  <2> HIDE DEF T
  <2>1. \A m \in 0 .. n + 1 : m \in T
    BY <1>1, <1>3, <1>4, Induct
  <2> QED
    BY <2>1
<1>6. PICK s : s = FollowBack(n, first)
  OBVIOUS
<1>7. FollowInv(costs, s, reached, rank, k, n) /\ (s.at = 0 \/ rank[s.at] <= 0)
  BY <1>2, <1>5, <1>6
<1>8. s.at = 0
  <2> SUFFICES ASSUME s.at # 0 PROVE FALSE
    OBVIOUS
  <2>1. s.previous[s.at] \in 0 .. n /\ s.at \in 0 .. n /\ rank[s.previous[s.at]] < rank[s.at]
    BY <1>7 DEF FollowInv
  <2>2. rank[s.previous[s.at]] \in Nat /\ rank[s.at] \in Nat
    BY <2>1
  <2> QED
    BY <1>7, <2>1, <2>2
<1> QED
  BY <1>6, <1>7, <1>8

\* One row more is assigned.
LEMMA RowIsAssigned ==
  ASSUME NEW n \in Nat, NEW k \in 1 .. n, NEW costs \in CostTables(n), NEW s, AssignInv(costs, s, k - 1, n)
  PROVE  AssignInv(costs, AssignRow(costs, n, s, k), k, n)
<1>1. PICK first : first = [s EXCEPT !.row[0] = k, !.at = 0, !.used = {}]
  OBVIOUS
<1>2. SearchInv(costs, first, k, n) /\ RoundsDone(first, 0, n)
  BY <1>1, RowBegins DEF Starts
<1>3. PICK found : found = Search(costs, n, first)
  OBVIOUS
<1>4. SearchInv(costs, found, k, n) /\ RoundsDone(found, n + 1, n)
  BY <1>2, <1>3, SearchFinds
<1>5. PICK rank \in [0 .. n -> Nat] :
        FollowInv(costs, found, found.used \cup {found.at}, rank, k, n) /\ rank[found.at] <= n + 1
  BY <1>4, SearchEnds
<1>6. PICK t : t = FollowBack(n, found)
  OBVIOUS
<1>7. FollowInv(costs, t, found.used \cup {found.at}, rank, k, n) /\ t.at = 0
  BY <1>5, <1>6, PathIsFollowed
<1>8. t = AssignRow(costs, n, s, k)
  BY <1>1, <1>3, <1>6, Zenon DEF AssignRow
<1>9. 0 .. n \ {0} = 1 .. n /\ 1 .. n \ {0} = 1 .. n
  OBVIOUS
<1>10. AssignInv(costs, t, k, n)
  BY <1>7, <1>9, Zenon DEF FollowInv, AssignInv
<1> QED
  BY <1>8, <1>10

\* Assigning a row in any state gives a state.
LEMMA AssignRowTyped ==
  ASSUME NEW n \in Nat, NEW costs \in CostTables(n), NEW s \in SearchStates(n), NEW k \in 1 .. n
  PROVE  AssignRow(costs, n, s, k) \in SearchStates(n)
<1>1. PICK first : first = [s EXCEPT !.row[0] = k, !.at = 0, !.used = {}]
  OBVIOUS
<1>5. first \in SearchStates(n)
  <2>1. Starts(s, first, k)
    BY <1>1 DEF Starts
  <2> QED
    BY <2>1, RowStarts
<1>6. n + 1 \in 0 .. n + 1
  OBVIOUS
<1>7. Search(costs, n, first) \in SearchStates(n)
  BY <1>5, <1>6, SearchedTurnByTurn
<1>8. FollowBack(n, Search(costs, n, first)) \in SearchStates(n)
  BY <1>6, <1>7, FollowedStepByStep
<1> QED
  BY <1>1, <1>8, Zenon DEF AssignRow

\* The assignment as the states after each of its rows.
LEMMA AssignedRowByRow ==
  ASSUME NEW n \in Nat, NEW costs \in CostTables(n), NEW first \in SearchStates(n), first = Unassigned(n)
  PROVE  \E h : /\ h \in [0 .. n -> SearchStates(n)]
                /\ h[0] = first /\ AssignRows(costs, n) = h[n]
                /\ \A m \in 1 .. n : h[m] = AssignRow(costs, n, h[m - 1], m)
<1> DEFINE S == SearchStates(n)
           last == n
           turns == [m \in 1 .. last |-> m]
           Once(x, m) == AssignRow(costs, n, x, turns[m])
           Step == [x \in S \X (1 .. last) |-> Once(x[1], x[2])]
<1>1. last \in Nat /\ DOMAIN turns = 1 .. last /\ \A m \in 1 .. last : turns[m] = m
  OBVIOUS
<1>2. ASSUME NEW x \in S, NEW m \in 1 .. last PROVE Once(x, m) \in S
  BY <1>1, AssignRowTyped
<1>3. PICK f : f = CHOOSE r : r = [s \in SUBSET (DOMAIN turns) |-> IF s = {} THEN first ELSE Once(r[s \ {Max(s)}], Max(s))]
  OBVIOUS
<1>4. AssignRows(costs, n) = f[DOMAIN turns]
  BY <1>3 DEF AssignRows, Unassigned, FoldLeft, MapThenFoldSet
<1> HIDE DEF last, turns
<1>5. Step \in [S \X (1 .. last) -> S] /\ \A x \in S, m \in 1 .. last : Step[<<x, m>>] = Once(x, m)
  <2> HIDE DEF Once, S
  <2> QED
    BY <1>2
<1>6. PICK g : /\ IsFold(g, last, S, first, Step)
               /\ \A r \in SUBSET (1 .. last) : r # {} => Max(r) \in 1 .. last /\ g[r \ {Max(r)}] \in S
  <2>1. first \in S
    OBVIOUS
  <2> HIDE DEF Step, S, Once
  <2> QED
    BY <1>1, <1>5, <2>1, FoldsWithin
<1>7. g = [r \in SUBSET (1 .. last) |-> IF r = {} THEN first ELSE Once(g[r \ {Max(r)}], Max(r))]
  <2>1. \A r \in SUBSET (1 .. last) : g[r] = IF r = {} THEN first ELSE Once(g[r \ {Max(r)}], Max(r))
    <3> HIDE DEF Step, Once, S
    <3> QED
      BY <1>5, <1>6 DEF IsFold
  <2>2. g = [r \in SUBSET (1 .. last) |-> g[r]]
    BY <1>6 DEF IsFold
  <2> HIDE DEF Once
  <2> QED
    BY <2>1, <2>2
<1>8. f = [s \in SUBSET (1 .. last) |-> IF s = {} THEN first ELSE Once(f[s \ {Max(s)}], Max(s))]
  <2>1. f = CHOOSE r : r = [s \in SUBSET (1 .. last) |-> IF s = {} THEN first ELSE Once(r[s \ {Max(s)}], Max(s))]
    <3> HIDE DEF Once
    <3> QED
      BY <1>1, <1>3
  <2> HIDE DEF Once
  <2> QED
    BY <1>7, <2>1
<1> DEFINE h == [m \in 0 .. last |-> f[1 .. m]]
<1>9. h[0] = first /\ \A m \in 1 .. last : h[m] = Once(h[m - 1], m)
  <2>1. f[1 .. 0] = first
    BY <1>8
  <2>2. ASSUME NEW m \in 1 .. last PROVE f[1 .. m] = Once(f[1 .. m - 1], m)
    <3>1. /\ 1 .. m \in SUBSET (1 .. last) /\ 1 .. m # {} /\ Max(1 .. m) = m
          /\ (1 .. m) \ {m} = 1 .. m - 1
      BY <1>1, UpTo
    <3> HIDE DEF Once
    <3>2. f[1 .. m] = Once(f[(1 .. m) \ {Max(1 .. m)}], Max(1 .. m))
      BY <1>8, <3>1
    <3> QED
      BY <3>1, <3>2
  <2> HIDE DEF Once
  <2> QED
    BY <1>1, <2>1, <2>2
<1>10. AssignRows(costs, n) = h[last] /\ h = [m \in 0 .. last |-> h[m]]
  BY <1>1, <1>4
<1> HIDE DEF h
<1> DEFINE T == {m \in 0 .. last : h[m] \in S}
<1>11. 0 \in T
  BY <1>1, <1>9
<1>12. ASSUME NEW m \in 1 .. last, m - 1 \in T PROVE m \in T
  <2>1. h[m - 1] \in S /\ m \in 0 .. last
    BY <1>1, <1>12
  <2> HIDE DEF Once, S
  <2> QED
    BY <1>2, <1>9, <2>1
<1>13. \A m \in 0 .. last : h[m] \in S
  <2> HIDE DEF T
  <2>1. \A m \in 0 .. last : m \in T
    BY <1>1, <1>11, <1>12, Induct
  <2> QED
    BY <2>1 DEF T
<1>14. \A m \in 1 .. last : h[m] = AssignRow(costs, n, h[m - 1], m)
  BY <1>1, <1>9
<1> QED
  BY <1>9, <1>10, <1>13, <1>14 DEF last

\* In the end all rows are.
LEMMA RowsAreAssigned ==
  ASSUME NEW n \in Nat, NEW costs \in CostTables(n)
  PROVE  AssignInv(costs, AssignRows(costs, n), n, n)
<1>1. PICK first : first = Unassigned(n)
  OBVIOUS
<1>2. AssignInv(costs, first, 0, n)
  <2> DEFINE none == [c \in 0 .. n |-> 0]
  <2>1. none \in [0 .. n -> 0 .. n] /\ none \in [0 .. n -> Int] /\ \A c \in 1 .. n : none[c] = 0
    OBVIOUS
  <2>2. first = [row |-> none, at |-> 0, used |-> {}, previous |-> none, minimum |-> none,
                 rowPotential |-> none, columnPotential |-> none]
    BY <1>1, Zenon DEF Unassigned
  <2> HIDE DEF none
  <2>3. first.row = none
    BY <2>2
  <2>4. first \in SearchStates(n)
    BY <2>1, <2>2 DEF SearchStates
  <2>5. Seated(first, 0, 1 .. n)
    BY <2>1, <2>3 DEF Seated
  <2>6. Tight(costs, first, 1 .. n)
    BY <2>1, <2>3, Zenon DEF Tight
  <2>7. Feasible(costs, first, 1 .. 0, n)
    BY DEF Feasible
  <2> QED
    BY <2>4, <2>5, <2>6, <2>7 DEF AssignInv
<1>3. PICK h : /\ h \in [0 .. n -> SearchStates(n)]
               /\ h[0] = first /\ AssignRows(costs, n) = h[n]
               /\ \A m \in 1 .. n : h[m] = AssignRow(costs, n, h[m - 1], m)
  <2>1. first \in SearchStates(n)
    BY <1>2 DEF AssignInv
  <2> QED
    BY <1>1, <2>1, AssignedRowByRow
<1> DEFINE T == {m \in 0 .. n : AssignInv(costs, h[m], m, n)}
<1>4. 0 \in T
  BY <1>2, <1>3
<1>5. ASSUME NEW m \in 1 .. n, m - 1 \in T PROVE m \in T
  <2>1. AssignInv(costs, h[m - 1], m - 1, n) /\ h[m] = AssignRow(costs, n, h[m - 1], m) /\ m \in 0 .. n
    BY <1>3, <1>5
  <2>2. AssignInv(costs, h[m], m, n)
    BY <2>1, RowIsAssigned
  <2> QED
    BY <2>1, <2>2
<1>6. n \in T
  <2> HIDE DEF T
  <2>1. \A m \in 0 .. n : m \in T
    BY <1>4, <1>5, Induct
  <2> QED
    BY <2>1
<1> QED
  BY <1>3, <1>6

\* Two sums are the sum of the sums.
LEMMA SumOfBoth ==
  ASSUME NEW n \in Nat, NEW a \in [1 .. n -> Int], NEW b \in [1 .. n -> Int], NEW c \in [1 .. n -> Int],
         \A i \in 1 .. n : a[i] + b[i] = c[i]
  PROVE  /\ NumberSum(a) \in Int /\ NumberSum(b) \in Int /\ NumberSum(c) \in Int
         /\ NumberSum(a) + NumberSum(b) = NumberSum(c)
<1>1. \A i \in 1 .. n : a[i] + b[i] <= c[i]
  <2> SUFFICES ASSUME NEW i \in 1 .. n PROVE a[i] + b[i] <= c[i]
    OBVIOUS
  <2>1. a[i] + b[i] = c[i] /\ c[i] \in Int
    OBVIOUS
  <2> QED
    BY <2>1
<1> QED
  BY <1>1, SumOfSums

\* What a matching costs.
CostAlong(costs, m, n) == NumberSum([g \in 1 .. n |-> costs[g][m[g]]])

\* Potentials that no edge undercuts, and that the edges of one matching meet,
\* show that the matching costs least.
LEMMA PotentialsShowLeast ==
  ASSUME NEW n \in Nat, NEW costs \in CostTables(n), NEW s \in SearchStates(n), Feasible(costs, s, 1 .. n, n),
         NEW mapping \in Matchings(n), \A g \in 1 .. n : Slack(costs, s, g, mapping[g]) = 0,
         NEW other \in Matchings(n)
  PROVE  CostAlong(costs, mapping, n) <= CostAlong(costs, other, n)
<1> DEFINE u == [g \in 1 .. n |-> s.rowPotential[g]]
           v == [c \in 1 .. n |-> s.columnPotential[c]]
           Cost(m) == [g \in 1 .. n |-> costs[g][m[g]]]
           Along(m) == [g \in 1 .. n |-> v[m[g]]]
<1>1. u \in [1 .. n -> Int] /\ v \in [1 .. n -> Int]
  <2>1. \A c \in 0 .. n : s.rowPotential[c] \in Int /\ s.columnPotential[c] \in Int
    BY DEF SearchStates
  <2> QED
    BY <2>1
<1>2. ASSUME NEW m \in Matchings(n)
      PROVE  /\ Cost(m) \in [1 .. n -> Int] /\ Along(m) \in [1 .. n -> Int]
             /\ \A g \in 1 .. n : /\ m[g] \in 1 .. n
                                  /\ Slack(costs, s, g, m[g]) = Cost(m)[g] - u[g] - Along(m)[g]
             /\ NumberSum(Along(m)) = NumberSum(v)
  <2>1. \A g \in 1 .. n : m[g] \in 1 .. n
    BY DEF Matchings, Bijection, Injection
  <2>2. \A g \in 1 .. n : costs[g][m[g]] \in Int
    BY <2>1 DEF CostTables
  <2>3. \A g \in 1 .. n : v[m[g]] \in Int
    <3> HIDE DEF v
    <3> QED
      BY <1>1, <2>1
  <2>4. \A g \in 1 .. n : Slack(costs, s, g, m[g]) = Cost(m)[g] - u[g] - Along(m)[g]
    <3> SUFFICES ASSUME NEW g \in 1 .. n PROVE Slack(costs, s, g, m[g]) = Cost(m)[g] - u[g] - Along(m)[g]
      OBVIOUS
    <3>1. /\ Cost(m)[g] = costs[g][m[g]] /\ u[g] = s.rowPotential[g] /\ Along(m)[g] = s.columnPotential[m[g]]
      BY <2>1
    <3> QED
      BY <3>1, Zenon DEF Slack
  <2>5. NumberSum(Along(m)) = NumberSum(v)
    <3> HIDE DEF v
    <3> QED
      BY <1>1, SumOfMatching
  <2> QED
    BY <2>1, <2>2, <2>3, <2>4, <2>5
<1> DEFINE a == Cost(mapping)
           b == Cost(other)
           p == Along(mapping)
           q == Along(other)
<1>3. /\ a \in [1 .. n -> Int] /\ p \in [1 .. n -> Int] /\ NumberSum(p) = NumberSum(v)
      /\ \A g \in 1 .. n : a[g] - u[g] - p[g] = 0
  <2>1. a \in [1 .. n -> Int] /\ p \in [1 .. n -> Int] /\ NumberSum(p) = NumberSum(v)
    BY <1>2
  <2>2. \A g \in 1 .. n : Slack(costs, s, g, mapping[g]) = a[g] - u[g] - p[g]
    BY <1>2
  <2> HIDE DEF a, p, u
  <2> QED
    BY <2>1, <2>2
<1>4. /\ b \in [1 .. n -> Int] /\ q \in [1 .. n -> Int] /\ NumberSum(q) = NumberSum(v)
      /\ \A g \in 1 .. n : b[g] - u[g] - q[g] >= 0
  <2>1. b \in [1 .. n -> Int] /\ q \in [1 .. n -> Int] /\ NumberSum(q) = NumberSum(v)
    BY <1>2
  <2>2. \A g \in 1 .. n : Slack(costs, s, g, other[g]) = b[g] - u[g] - q[g] /\ other[g] \in 1 .. n
    BY <1>2
  <2> HIDE DEF b, q, u
  <2>3. \A g \in 1 .. n : Slack(costs, s, g, other[g]) >= 0
    BY <2>2 DEF Feasible
  <2> QED
    BY <2>1, <2>2, <2>3
<1> HIDE DEF a, b, p, q, u, v, Cost, Along
<1>5. \A g \in 1 .. n : /\ u[g] \in Int /\ a[g] \in Int /\ b[g] \in Int /\ p[g] \in Int /\ q[g] \in Int
                        /\ u[g] + p[g] = a[g] /\ u[g] + q[g] <= b[g] /\ u[g] + p[g] <= a[g]
  <2> SUFFICES ASSUME NEW g \in 1 .. n
               PROVE  /\ u[g] \in Int /\ a[g] \in Int /\ b[g] \in Int /\ p[g] \in Int /\ q[g] \in Int
                      /\ u[g] + p[g] = a[g] /\ u[g] + q[g] <= b[g] /\ u[g] + p[g] <= a[g]
    OBVIOUS
  <2>1. u[g] \in Int /\ a[g] \in Int /\ b[g] \in Int /\ p[g] \in Int /\ q[g] \in Int
    BY <1>1, <1>3, <1>4
  <2>2. a[g] - u[g] - p[g] = 0 /\ b[g] - u[g] - q[g] >= 0
    BY <1>3, <1>4
  <2> QED
    BY <2>1, <2>2
<1>6. NumberSum(u) + NumberSum(p) = NumberSum(a) /\ NumberSum(u) \in Int /\ NumberSum(p) \in Int /\ NumberSum(a) \in Int
  <2>2. \A g \in 1 .. n : u[g] + p[g] = a[g]
    BY <1>5
  <2> QED
    <3>1. u \in [1 .. n -> Int] /\ p \in [1 .. n -> Int] /\ a \in [1 .. n -> Int]
      BY <1>1, <1>3
    <3> QED
      BY <2>2, <3>1, SumOfBoth, ZenonT(40)
<1>7. NumberSum(u) + NumberSum(q) <= NumberSum(b) /\ NumberSum(q) \in Int /\ NumberSum(b) \in Int
  BY <1>1, <1>4, <1>5, SumOfSums, ZenonT(40)
<1>8. NumberSum(a) <= NumberSum(b)
  BY <1>3, <1>4, <1>6, <1>7
<1> QED
  BY <1>8 DEF a, b, Cost, CostAlong

\* For each row its column.
MappingOf(s, n) == [g \in 1 .. n |-> CHOOSE c \in 1 .. n : s.row[c] = g]

\* What has been assigned costs least.
LEMMA RowsCostLeast ==
  ASSUME NEW n \in Nat, NEW costs \in CostTables(n), NEW s, s = AssignRows(costs, n),
         NEW mapping, mapping = MappingOf(s, n)
  PROVE  /\ mapping \in Matchings(n)
         /\ \A other \in Matchings(n) :
              CostAlong(costs, mapping, n) <= CostAlong(costs, other, n)
<1>1. AssignInv(costs, s, n, n)
  BY RowsAreAssigned
<1>2. /\ s \in SearchStates(n) /\ Feasible(costs, s, 1 .. n, n)
      /\ \A r \in 1 .. n : \E c \in 1 .. n : s.row[c] = r
      /\ \A c \in 1 .. n : s.row[c] # 0 => Slack(costs, s, s.row[c], c) = 0
  BY <1>1 DEF AssignInv, Seated, Tight
<1>3. \A g \in 1 .. n : mapping[g] \in 1 .. n /\ s.row[mapping[g]] = g
  BY <1>2 DEF MappingOf
<1>4. mapping \in Matchings(n)
  <2>1. mapping \in [1 .. n -> 1 .. n]
    BY <1>3 DEF MappingOf
  <2>2. \A g, h \in 1 .. n : mapping[g] = mapping[h] => g = h
    BY <1>3, Zenon
  <2>3. mapping \in Injection(1 .. n, 1 .. n)
    BY <2>1, <2>2, ZenonT(40) DEF Injection, IsInjective
  <2>4. IsFiniteSet(1 .. n)
    BY FS_Interval
  <2>5. mapping \in Surjection(1 .. n, 1 .. n)
    BY <2>3, <2>4, FS_Injection, Zenon
  <2> QED
    BY <2>3, <2>5, Zenon DEF Matchings, Bijection
<1>5. ASSUME NEW g \in 1 .. n PROVE Slack(costs, s, g, mapping[g]) = 0
  <2>1. mapping[g] \in 1 .. n /\ s.row[mapping[g]] = g /\ g # 0
    BY <1>3
  <2> QED
    BY <1>2, <2>1, Zenon
<1>6. ASSUME NEW other \in Matchings(n)
      PROVE  CostAlong(costs, mapping, n) <= CostAlong(costs, other, n)
  <2>1. s \in SearchStates(n) /\ Feasible(costs, s, 1 .. n, n)
    BY <1>2
  <2>2. \A g \in 1 .. n : Slack(costs, s, g, mapping[g]) = 0
    BY <1>5
  <2> QED
    BY <1>4, <2>1, <2>2, PotentialsShowLeast
<1> QED
  BY <1>4, <1>6

\* For every table of costs the assignment of guides to curves that the code
\* finds gives each guide a curve of its own and costs least of all that do.
THEOREM AssignmentCostsLeast ==
  ASSUME NEW costs \in Seq(Seq(Int)), \A g \in 1 .. Len(costs) : Len(costs[g]) = Len(costs)
  PROVE  CostsLeast(costs, Assignment(costs))
<1>1. PICK n \in Nat : n = Len(costs)
  OBVIOUS
<1>2. costs \in CostTables(n)
  <2>1. costs = [g \in 1 .. n |-> costs[g]]
    BY <1>1
  <2>2. \A g \in 1 .. n : costs[g] \in Seq(Int) /\ Len(costs[g]) = n
    BY <1>1
  <2>3. \A g \in 1 .. n : costs[g] \in [1 .. n -> Int]
    BY <2>2
  <2> QED
    BY <2>1, <2>3 DEF CostTables
<1>3. PICK s : s = AssignRows(costs, n)
  OBVIOUS
<1>4. PICK mapping : mapping = MappingOf(s, n)
  OBVIOUS
<1>5. Assignment(costs) = mapping
  BY <1>1, <1>3, <1>4 DEF Assignment, MappingOf
<1>6. mapping \in Matchings(n) /\ \A other \in Matchings(n) :
        CostAlong(costs, mapping, n) <= CostAlong(costs, other, n)
  BY <1>2, <1>3, <1>4, RowsCostLeast
<1>7. ASSUME NEW other \in Matchings(n) PROVE TotalCost(costs, mapping) <= TotalCost(costs, other)
  <2>1. CostAlong(costs, mapping, n) <= CostAlong(costs, other, n)
    BY <1>6, Zenon
  <2>2. /\ TotalCost(costs, mapping) = CostAlong(costs, mapping, n)
        /\ TotalCost(costs, other) = CostAlong(costs, other, n)
    BY <1>1 DEF TotalCost, CostAlong
  <2> QED
    BY <2>1, <2>2
<1> QED
  BY <1>1, <1>5, <1>6, <1>7, Zenon DEF CostsLeast

-----------------------------------------------------------------------------
(* Static archives: what `static' stands for in the model *)

\* An object stands under objects of the archive.
LEMMA AncestryIsWithin ==
  ASSUME NEW objects, IsWalk(objects), NEW i \in DOMAIN objects
  PROVE  Ancestry(objects, i) \subseteq DOMAIN objects /\ i \in Ancestry(objects, i)
<1>0. PICK n \in Nat : n = Len(objects)
  BY DEF IsWalk
<1>1. DOMAIN objects = 1 .. n /\ \A j \in 1 .. n : objects[j].parent \in 0 .. j - 1
  BY <1>0, Zenon DEF IsWalk
<1> DEFINE Of(up, j) == IF j = 0 THEN {} ELSE {j} \cup up[objects[j].parent]
           Above(up, m) == [j \in 0 .. m |-> Of(up, j)]
           Found == {m \in 0 .. n : \E up : up = Above(up, m) /\ \A j \in 0 .. m : up[j] \subseteq 1 .. j}
<1>2. 0 \in Found
  <2> DEFINE up == [j \in 0 .. 0 |-> {}]
  <2>1. up = Above(up, 0)
    OBVIOUS
  <2>2. \A j \in 0 .. 0 : up[j] \subseteq 1 .. j
    OBVIOUS
  <2> HIDE DEF up, Above
  <2> QED
    BY <2>1, <2>2
<1>3. ASSUME NEW m \in 0 .. n - 1, m \in Found PROVE m + 1 \in Found
  <2>1. PICK up : up = Above(up, m) /\ \A j \in 0 .. m : up[j] \subseteq 1 .. j
    BY <1>3
  <2> DEFINE top == {m + 1} \cup up[objects[m + 1].parent]
             more == [j \in 0 .. m + 1 |-> IF j = m + 1 THEN top ELSE up[j]]
  <2>2. \A j \in 1 .. m + 1 : objects[j].parent \in 0 .. m
    BY <1>1
  <2>3. \A j \in 0 .. m : up[j] = Of(up, j)
    <3> HIDE DEF Of
    <3> QED
      BY <2>1
  <2>4. /\ \A j \in 0 .. m : more[j] = up[j]
        /\ more[m + 1] = top
    <3> HIDE DEF top
    <3> QED
      OBVIOUS
  <2>5. ASSUME NEW j \in 0 .. m + 1 PROVE more[j] = Of(more, j) /\ more[j] \subseteq 1 .. j
    <3> HIDE DEF more
    <3>1. CASE j = 0
      <4>1. 0 \in 0 .. m
        OBVIOUS
      <4>2. Of(up, 0) = {} /\ Of(more, 0) = {}
        OBVIOUS
      <4> HIDE DEF Of
      <4>3. up[0] = Of(up, 0) /\ more[0] = up[0]
        BY <2>3, <2>4, <4>1
      <4> QED
        BY <3>1, <4>2, <4>3
    <3>2. CASE j \in 1 .. m
      <4>1. more[objects[j].parent] = up[objects[j].parent]
        BY <2>2, <2>4, <3>2
      <4>2. j \in 0 .. m /\ j # 0
        BY <3>2
      <4>3. up[j] = Of(up, j) /\ more[j] = up[j] /\ up[j] \subseteq 1 .. j
        BY <2>1, <2>3, <2>4, <4>2, Zenon
      <4>4. Of(up, j) = {j} \cup up[objects[j].parent] /\ Of(more, j) = {j} \cup more[objects[j].parent]
        BY <4>2, Zenon
      <4> HIDE DEF Of
      <4> QED
        BY <4>1, <4>3, <4>4, Zenon
    <3>3. CASE j = m + 1
      <4>1. objects[m + 1].parent \in 0 .. m
        BY <2>2
      <4>2. more[objects[m + 1].parent] = up[objects[m + 1].parent] /\ up[objects[m + 1].parent] \subseteq 1 .. m
        <5>1. PICK k \in 0 .. m : k = objects[m + 1].parent
          BY <4>1
        <5>2. up[k] \subseteq 1 .. k
          BY <2>1, Zenon
        <5>3. up[k] \subseteq 1 .. m
          BY <5>2
        <5> QED
          BY <2>4, <5>1, <5>3, Zenon
      <4>3. top \subseteq 1 .. m + 1 /\ m + 1 # 0
        BY <4>2
      <4>4. top = {m + 1} \cup more[objects[m + 1].parent]
        BY <4>2, Zenon
      <4> HIDE DEF top
      <4> QED
        BY <2>4, <3>3, <4>3, <4>4
    <3> QED
      BY <3>1, <3>2, <3>3
  <2>6. more = Above(more, m + 1)
    <3>1. PICK f : f = more
      OBVIOUS
    <3>2. f = [j \in 0 .. m + 1 |-> f[j]]
      BY <3>1
    <3>3. \A j \in 0 .. m + 1 : f[j] = Of(f, j)
      BY <2>5, <3>1, Zenon
    <3> HIDE DEF Of, more
    <3>4. [j \in 0 .. m + 1 |-> f[j]] = Above(f, m + 1)
      BY <3>3, Zenon
    <3> QED
      BY <3>1, <3>2, <3>4, Zenon
  <2>7. \A j \in 0 .. m + 1 : more[j] \subseteq 1 .. j
    BY <2>5, Zenon
  <2>8. m + 1 \in 0 .. n
    OBVIOUS
  <2> HIDE DEF more, Above
  <2> QED
    BY <2>6, <2>7, <2>8
<1> HIDE DEF Found
<1>4. n \in Found
  <2> DEFINE Missing == {x \in 0 .. n : x \notin Found}
  <2>1. ASSUME Missing # {} PROVE FALSE
    <3>1. Missing \subseteq Nat
      OBVIOUS
    <3>2. PICK x \in Missing : \A y \in Missing : x <= y
      BY <2>1, <3>1, LeastNatural
    <3>3. x \in 0 .. n /\ x \notin Found /\ \A y \in 0 .. n : y \notin Found => x <= y
      BY <3>2
    <3>4. x \in 1 .. n
      BY <1>2, <3>3
    <3>5. x - 1 \in 0 .. n - 1 /\ x - 1 \in Found
      BY <3>3, <3>4
    <3>6. (x - 1) + 1 \in Found
      BY <1>3, <3>5
    <3>7. (x - 1) + 1 = x
      BY <3>3
    <3> QED
      BY <3>3, <3>6, <3>7
  <2> QED
    BY <2>1
<1>5. \E up : up = Above(up, n)
  <2> HIDE DEF Above
  <2> QED
    BY <1>4 DEF Found
<1>6. PICK up : up = (CHOOSE f : f = Above(f, n)) /\ up = Above(up, n)
  <2> HIDE DEF Above
  <2> QED
    BY <1>5, Zenon
<1>7. Ancestry(objects, i) = up[i]
  BY <1>0, <1>6, Zenon DEF Ancestry
<1>8. \A j \in 0 .. n : up[j] = Of(up, j)
  <2> HIDE DEF Of
  <2> QED
    BY <1>6
<1>9. \A j \in 0 .. n : up[j] \subseteq 1 .. n
  <2> HIDE DEF Above, Found
  <2> DEFINE Missing == {j \in 0 .. n : ~(up[j] \subseteq 1 .. n)}
  <2>1. ASSUME Missing # {} PROVE FALSE
    <3>1. Missing \subseteq Nat
      OBVIOUS
    <3>2. PICK x \in Missing : \A y \in Missing : x <= y
      BY <2>1, <3>1, LeastNatural
    <3>3. x \in 0 .. n /\ ~(up[x] \subseteq 1 .. n) /\ \A y \in 0 .. n : ~(up[y] \subseteq 1 .. n) => x <= y
      BY <3>2
    <3>4. x \in 1 .. n
      <4>1. Of(up, 0) = {}
        BY Zenon
      <4>2. 0 \in 0 .. n
        OBVIOUS
      <4>3. up[0] = {}
        BY <1>8, <4>1, <4>2, Zenon
      <4> QED
        BY <3>3, <4>3
    <3>5. objects[x].parent \in 0 .. n /\ objects[x].parent < x
      BY <1>1, <3>4
    <3>6. up[objects[x].parent] \subseteq 1 .. n
      BY <3>3, <3>5
    <3>7. up[x] = {x} \cup up[objects[x].parent]
      BY <1>8, <3>4
    <3> QED
      BY <3>3, <3>4, <3>6, <3>7
  <2> QED
    BY <2>1
<1>10. i \in 0 .. n /\ i # 0
  BY <1>1
<1>11. i \in up[i]
  BY <1>8, <1>10
<1> QED
  <2> HIDE DEF Above
  <2> QED
    BY <1>1, <1>7, <1>9, <1>10, <1>11

\* One time sample is selected whatever is looked for.
LEMMA OneIsSelected ==
  ASSUME NEW o, o.times \in Seq(Int), o.times # <<>>, Len(o.times) <= 1, NEW a, NEW b
  PROVE  SelectSamples(o, a) = SelectSamples(o, b)
<1>1. PICK t \in Seq(Int) : t = o.times
  OBVIOUS
<1>2. Len(t) = 1
  <2>1. t # <<>> /\ Len(t) <= 1
    BY <1>1, Zenon
  <2>2. Len(t) \in Nat \ {0}
    BY <2>1, EmptySeq, Zenon
  <2>3. PICK l \in Nat \ {0} : l = Len(t)
    BY <2>2, Zenon
  <2>4. l <= 1
    BY <2>1, <2>3, Zenon
  <2>5. l = 1
    BY <2>4
  <2> QED
    BY <2>3, <2>5, Zenon
<1> QED
  BY <1>1, <1>2, Zenon DEF SelectSamples

\* An object that is still is where it is and what it is at all times.
LEMMA StillObject ==
  ASSUME NEW objects, IsWalk(objects), NEW i \in DOMAIN objects, IsStill(objects, i), NEW a, NEW b
  PROVE  /\ Transform(objects, i, a) = Transform(objects, i, b)
         /\ objects[i].times # <<>> =>
              /\ SelectSamples(objects[i], a) = SelectSamples(objects[i], b)
              /\ PositionsAt(objects[i], a) = PositionsAt(objects[i], b)
              /\ TopologyStays(objects[i], a) = TopologyStays(objects[i], b)
<1>1. Transform(objects, i, a) = Transform(objects, i, b)
  <2>1. ASSUME NEW j \in DOMAIN objects, MovesWith(objects, i, j)
        PROVE  MoveAt(objects[j], a) = MoveAt(objects[j], b)
    <3>1. objects[j].times \in Seq(Int) /\ objects[j].times # <<>> /\ Len(objects[j].times) <= 1
      BY <2>1 DEF IsWalk, IsStill, MovesWith
    <3>2. SelectSamples(objects[j], a) = SelectSamples(objects[j], b)
      BY <3>1, OneIsSelected, Zenon
    <3> QED
      BY <3>2, Zenon DEF MoveAt
  <2> DEFINE Moved(sel) == [j \in DOMAIN objects |-> IF MovesWith(objects, i, j) THEN MoveAt(objects[j], sel) ELSE Zero]
  <2>2. Moved(a) = Moved(b)
    BY <2>1, Zenon
  <2>3. Transform(objects, i, a) = VectorSum(Moved(a)) /\ Transform(objects, i, b) = VectorSum(Moved(b))
    BY Zenon DEF Transform
  <2> HIDE DEF Moved
  <2> QED
    BY <2>2, <2>3, Zenon
<1>2. ASSUME objects[i].times # <<>>
      PROVE  /\ SelectSamples(objects[i], a) = SelectSamples(objects[i], b)
             /\ PositionsAt(objects[i], a) = PositionsAt(objects[i], b)
             /\ TopologyStays(objects[i], a) = TopologyStays(objects[i], b)
  <2>1. objects[i].times \in Seq(Int) /\ Len(objects[i].times) <= 1
    BY DEF IsWalk, IsStill
  <2>2. SelectSamples(objects[i], a) = SelectSamples(objects[i], b)
    BY <1>2, <2>1, OneIsSelected, Zenon
  <2>3. PositionsAt(objects[i], a) = PositionsAt(objects[i], b)
    BY <2>2, Zenon DEF PositionsAt
  <2>4. TopologyStays(objects[i], a) = TopologyStays(objects[i], b)
    BY <2>2, Zenon DEF TopologyStays
  <2> QED
    BY <2>2, <2>3, <2>4
<1> QED
  BY <1>1, <1>2

\* Of an archive that is static for a name, the patch of the name is the same at all
\* times, and so is whether it can be imported.
LEMMA StillPatch ==
  ASSUME NEW objects, IsWalk(objects), NEW name, NEW limits, NEW a, NEW b,
         Cardinality(Meshes(objects, name)) = 1, \A i \in Meshes(objects, name) : IsStill(objects, i)
  PROVE  /\ PatchObjectFits(objects, name, a, limits) <=> PatchObjectFits(objects, name, b, limits)
         /\ PatchObjectFits(objects, name, a, limits) =>
              PatchMesh(objects, name, a) = PatchMesh(objects, name, b)
<1> DEFINE i == CHOOSE m \in Meshes(objects, name) : TRUE
           o == objects[i]
<1>1. Meshes(objects, name) # {}
  <2>1. Cardinality({}) = 0
    BY FS_EmptySet
  <2> QED
    BY <2>1
<1>2. i \in Meshes(objects, name)
  BY <1>1, Zenon
<1>3. i \in DOMAIN objects /\ IsStill(objects, i)
  BY <1>2, Zenon DEF Meshes
<1>4. CASE o.times = <<>>
  <2>1. ~PatchObjectFits(objects, name, a, limits) /\ ~PatchObjectFits(objects, name, b, limits)
    BY <1>4, Zenon DEF PatchObjectFits
  <2> QED
    BY <2>1
<1>5. CASE o.times # <<>>
  <2>1. /\ Transform(objects, i, a) = Transform(objects, i, b)
        /\ SelectSamples(o, a) = SelectSamples(o, b)
        /\ PositionsAt(o, a) = PositionsAt(o, b)
        /\ TopologyStays(o, a) = TopologyStays(o, b)
    <3>1. PICK m : m = i
      OBVIOUS
    <3>2. m \in DOMAIN objects /\ IsStill(objects, m) /\ objects[m].times # <<>>
      BY <1>3, <1>5, <3>1, Zenon
    <3> HIDE DEF i
    <3>3. /\ Transform(objects, m, a) = Transform(objects, m, b)
          /\ SelectSamples(objects[m], a) = SelectSamples(objects[m], b)
          /\ PositionsAt(objects[m], a) = PositionsAt(objects[m], b)
          /\ TopologyStays(objects[m], a) = TopologyStays(objects[m], b)
      <4>1. IsWalk(objects)
        OBVIOUS
      <4> QED
        BY <3>2, <4>1, StillObject
    <3> QED
      BY <3>1, <3>3, Zenon
  <2>2. PatchObjectFits(objects, name, a, limits) <=> PatchObjectFits(objects, name, b, limits)
    BY <2>1, Zenon DEF PatchObjectFits
  <2>3. PatchMesh(objects, name, a) = PatchMesh(objects, name, b)
    <3> DEFINE World(points, move) == Evaluated([p \in DOMAIN points |-> Plus(points[p], move)])
               Mesh(points, lower, move) ==
                 [positions |-> World(points, move),
                  reference |-> World(IF o.pref # <<>> THEN o.pref ELSE lower.positions, move),
                  counts |-> lower.counts, indices |-> lower.indices]
               MeshAt(sel) == Mesh(PositionsAt(o, sel), o.values[SelectSamples(o, sel).lower], Transform(objects, i, sel))
    <3>1. PatchMesh(objects, name, a) = MeshAt(a) /\ PatchMesh(objects, name, b) = MeshAt(b)
      BY Zenon DEF PatchMesh
    <3>2. MeshAt(a) = MeshAt(b)
      <4> HIDE DEF Mesh, i
      <4> QED
        BY <2>1, Zenon
    <3> HIDE DEF MeshAt
    <3> QED
      BY <3>1, <3>2, Zenon
  <2> QED
    BY <2>2, <2>3
<1> QED
  BY <1>4, <1>5

\* Patches of a static archive are imported the same at all times.
LEMMA StillPatches ==
  ASSUME NEW objects, IsWalk(objects), NEW patches, NEW limits, NEW a, NEW b,
         NEW names, \A p \in Range(patches) : p.name \in names,
         DeformationIsStatic(objects, names, limits.objects) = "static"
  PROVE  BuildAssetInput(patches, objects, a, limits) = BuildAssetInput(patches, objects, b, limits)
<1>1. ASSUME NEW p \in Range(patches)
      PROVE  /\ PatchObjectFits(objects, p.name, a, limits) <=> PatchObjectFits(objects, p.name, b, limits)
             /\ PatchObjectFits(objects, p.name, a, limits) =>
                  PatchMesh(objects, p.name, a) = PatchMesh(objects, p.name, b)
  <2>1. "failed" # "static" /\ "moving" # "static"
    OBVIOUS
  <2>2. /\ Cardinality(Meshes(objects, p.name)) = 1
        /\ \A i \in Meshes(objects, p.name) : IsStill(objects, i)
    BY <2>1, Zenon DEF DeformationIsStatic
  <2> QED
    BY <2>2, StillPatch, Zenon
<1>2. ASSUME NEW p \in Range(patches)
      PROVE  PatchFits(p, objects, a, limits) <=> PatchFits(p, objects, b, limits)
  <2>1. CASE PatchObjectFits(objects, p.name, a, limits)
    BY <1>1, <2>1, Zenon DEF PatchFits
  <2>2. CASE ~PatchObjectFits(objects, p.name, a, limits)
    BY <1>1, <2>2, Zenon DEF PatchFits
  <2> QED
    BY <2>1, <2>2
<1>3. CASE \E p \in Range(patches) : ~PatchFits(p, objects, a, limits)
  <2>1. \E p \in Range(patches) : ~PatchFits(p, objects, b, limits)
    BY <1>2, <1>3, Zenon
  <2> QED
    BY <1>3, <2>1, Zenon DEF BuildAssetInput
<1>4. CASE \A p \in Range(patches) : PatchFits(p, objects, a, limits)
  <2>1. \A p \in Range(patches) : PatchFits(p, objects, b, limits)
    BY <1>2, <1>4, Zenon
  <2>2. \A k \in DOMAIN patches : PatchMesh(objects, patches[k].name, a) = PatchMesh(objects, patches[k].name, b)
    <3>1. TAKE k \in DOMAIN patches
    <3>2. patches[k] \in Range(patches)
      BY Zenon DEF Range
    <3>3. PatchObjectFits(objects, patches[k].name, a, limits)
      BY <1>4, <3>2, Zenon DEF PatchFits
    <3> QED
      BY <1>1, <3>2, <3>3, Zenon
  <2>3. [k \in DOMAIN patches |-> PatchMesh(objects, patches[k].name, a)]
          = [k \in DOMAIN patches |-> PatchMesh(objects, patches[k].name, b)]
    BY <2>2, Zenon
  <2> QED
    BY <1>4, <2>1, <2>3, Zenon DEF BuildAssetInput
<1> QED
  BY <1>3, <1>4

\* Curves of a guide cache that is static are the same at all times.
LEMMA StillCurves ==
  ASSUME NEW objects, IsWalk(objects), NEW limits, NEW a, NEW b,
         GuideCacheIsStatic(objects, limits.objects) = "static"
  PROVE  /\ CacheFits(objects, a, limits) <=> CacheFits(objects, b, limits)
         /\ CacheFits(objects, a, limits) => CacheCurves(objects, a) = CacheCurves(objects, b)
<1>1. \A i \in Curves(objects) : IsStill(objects, i) /\ i \in DOMAIN objects
  <2>1. "failed" # "static" /\ "moving" # "static"
    OBVIOUS
  <2> QED
    BY <2>1, Zenon DEF GuideCacheIsStatic, Curves
<1>2. CASE \E i \in Curves(objects) : objects[i].times = <<>>
  BY <1>2, Zenon DEF CacheFits, CurveObjectFits
<1>3. CASE \A i \in Curves(objects) : objects[i].times # <<>>
  <2>1. ASSUME NEW i \in Curves(objects)
        PROVE  /\ Transform(objects, i, a) = Transform(objects, i, b)
               /\ SelectSamples(objects[i], a) = SelectSamples(objects[i], b)
               /\ PositionsAt(objects[i], a) = PositionsAt(objects[i], b)
               /\ TopologyStays(objects[i], a) = TopologyStays(objects[i], b)
    BY <1>1, <1>3, StillObject, Zenon
  <2>2. \A i \in Curves(objects) : CurveObjectFits(objects[i], a) <=> CurveObjectFits(objects[i], b)
    BY <2>1, Zenon DEF CurveObjectFits
  <2>3. \A i \in Curves(objects) : ObjectCurves(objects, i, a) = ObjectCurves(objects, i, b)
    BY <2>1, Zenon DEF ObjectCurves
  <2>4. CacheCurves(objects, a) = CacheCurves(objects, b)
    <3> DEFINE Of(sel) == [i \in DOMAIN objects |-> IF i \in Curves(objects) THEN ObjectCurves(objects, i, sel) ELSE <<>>]
    <3>1. Of(a) = Of(b)
      BY <2>3, Zenon
    <3>2. CacheCurves(objects, a) = FlattenSeq(Of(a)) /\ CacheCurves(objects, b) = FlattenSeq(Of(b))
      BY Zenon DEF CacheCurves
    <3> HIDE DEF Of
    <3> QED
      BY <3>1, <3>2, Zenon
  <2>5. CacheFits(objects, a, limits) <=> CacheFits(objects, b, limits)
    BY <2>2, <2>4, Zenon DEF CacheFits
  <2> QED
    BY <2>4, <2>5
<1> QED
  BY <1>2, <1>3

\* With such curves a description is given the same guides at all times.
LEMMA StillCache ==
  ASSUME NEW objects, IsWalk(objects), NEW limits, NEW wires, NEW in, NEW a, NEW b,
         GuideCacheIsStatic(objects, limits.objects) = "static"
  PROVE  ApplyGuideCache(in, objects, a, limits, wires) = ApplyGuideCache(in, objects, b, limits, wires)
<1>1. CASE CacheFits(objects, a, limits)
  <2>1. CacheFits(objects, b, limits) /\ CacheCurves(objects, a) = CacheCurves(objects, b)
    BY <1>1, StillCurves, Zenon
  <2> QED
    BY <1>1, <2>1, Zenon DEF ApplyGuideCache
<1>2. CASE ~CacheFits(objects, a, limits)
  <2>1. ~CacheFits(objects, b, limits)
    BY <1>2, StillCurves, Zenon
  <2> QED
    BY <1>2, <2>1, Zenon DEF ApplyGuideCache
<1> QED
  BY <1>1, <1>2

\* The import of patches whose archive is found static does not depend on the lookup.
LEMMA StillPatchesAgree ==
  ASSUME NEW objects, IsWalk(objects), NEW patches, NEW limits,
         NEW a, NEW b, a.fps \in Nat \ {0}, b.fps \in Nat \ {0},
         NEW names, \A p \in Range(patches) : p.name \in names,
         DeformationIsStatic(objects, names, limits.objects) = "static"
  PROVE  BuildAssetInputAt(patches, objects, a, limits) = BuildAssetInputAt(patches, objects, b, limits)
<1>1. ~(a.fps <= 0) /\ ~(b.fps <= 0)
  OBVIOUS
<1> QED
  BY <1>1, StillPatches, Zenon DEF BuildAssetInputAt

\* Nor does what a guide cache that is found static makes of an import.
LEMMA StillCachesAgree ==
  ASSUME NEW objects, IsWalk(objects), NEW limits,
         NEW a, NEW b, a.fps \in Nat \ {0}, b.fps \in Nat \ {0},
         GuideCacheIsStatic(objects, limits.objects) = "static", NEW in, NEW wires
  PROVE  ApplyGuideCacheAt(in, objects, a, limits, wires) = ApplyGuideCacheAt(in, objects, b, limits, wires)
<1>1. ~(a.fps <= 0) /\ ~(b.fps <= 0)
  OBVIOUS
<1> QED
  BY <1>1, StillCache, Zenon DEF ApplyGuideCacheAt

=============================================================================
