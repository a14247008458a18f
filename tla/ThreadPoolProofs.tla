-------------------------- MODULE ThreadPoolProofs --------------------------
(***************************************************************************)
(* Proofs about ThreadPool for any number of workers, clients and calls.   *)
(***************************************************************************)
EXTENDS ThreadPool, FiniteSetTheorems, TLAPS

-----------------------------------------------------------------------------
(* Sequences: what the operations on the queue and on the stacks return. *)

LEMMA SubSeqFacts ==
  ASSUME NEW S, NEW s \in Seq(S), NEW m \in Int, NEW n \in Int,
         1 <= m, m <= n + 1, n <= Len(s)
  PROVE  /\ SubSeq(s, m, n) \in Seq(S)
         /\ Len(SubSeq(s, m, n)) = n - m + 1
         /\ \A i \in 1 .. n - m + 1 : SubSeq(s, m, n)[i] = s[m + i - 1]
<1>1. SubSeq(s, m, n) \in Seq(S)
  OBVIOUS
<1>2. Len(SubSeq(s, m, n)) = n - m + 1
  OBVIOUS
<1>3. ASSUME NEW i \in 1 .. n - m + 1
      PROVE  SubSeq(s, m, n)[i] = s[m + i - 1]
  OBVIOUS
<1> QED
  BY <1>1, <1>2, <1>3

LEMMA ConcatFacts ==
  ASSUME NEW S, NEW s \in Seq(S), NEW r \in Seq(S)
  PROVE  /\ s \o r \in Seq(S)
         /\ Len(s \o r) = Len(s) + Len(r)
         /\ \A i \in 1 .. Len(s) + Len(r) :
              (s \o r)[i] = IF i <= Len(s) THEN s[i] ELSE r[i - Len(s)]
<1>1. s \o r \in Seq(S)
  OBVIOUS
<1>2. Len(s \o r) = Len(s) + Len(r)
  OBVIOUS
<1>3. ASSUME NEW i \in 1 .. Len(s) + Len(r)
      PROVE  (s \o r)[i] = IF i <= Len(s) THEN s[i] ELSE r[i - Len(s)]
  OBVIOUS
<1> QED
  BY <1>1, <1>2, <1>3

\* Erasing one job of the queue moves the later ones up by one position.
LEMMA EraseFacts ==
  ASSUME NEW S, NEW s \in Seq(S), NEW k \in 1 .. Len(s)
  PROVE  /\ Erase(s, k) \in Seq(S)
         /\ Len(Erase(s, k)) = Len(s) - 1
         /\ \A i \in 1 .. Len(s) - 1 :
              Erase(s, k)[i] = s[IF i < k THEN i ELSE i + 1]
<1> DEFINE before == SubSeq(s, 1, k - 1)
           after  == SubSeq(s, k + 1, Len(s))
<1>1. Len(s) \in Nat
  OBVIOUS
<1>2. /\ before \in Seq(S) /\ Len(before) = k - 1
      /\ \A i \in 1 .. k - 1 : before[i] = s[i]
  BY <1>1, SubSeqFacts
<1>3. /\ after \in Seq(S) /\ Len(after) = Len(s) - k
      /\ \A i \in 1 .. Len(s) - k : after[i] = s[k + i]
  BY <1>1, SubSeqFacts
<1>4. Erase(s, k) = before \o after
  BY DEF Erase, RemoveAt
<1> HIDE DEF before, after
<1> QED
  BY <1>1, <1>2, <1>3, <1>4, ConcatFacts

\* Popping a stack removes its last element only.
LEMMA FrontFacts ==
  ASSUME NEW S, NEW s \in Seq(S), s # <<>>
  PROVE  /\ Len(s) \in Nat \ {0}
         /\ Front(s) \in Seq(S)
         /\ Len(Front(s)) = Len(s) - 1
         /\ \A i \in 1 .. Len(s) - 1 : Front(s)[i] = s[i]
         /\ Last(s) = s[Len(s)]
         /\ Last(s) \in S
<1>1. Len(s) \in Nat \ {0}
  OBVIOUS
<1> DEFINE n == Len(s) - 1
<1>2. n \in Int /\ 1 <= n + 1 /\ n <= Len(s)
  BY <1>1
<1> HIDE DEF n
<1>3. /\ SubSeq(s, 1, n) \in Seq(S)
      /\ Len(SubSeq(s, 1, n)) = n
      /\ \A i \in 1 .. n : SubSeq(s, 1, n)[i] = s[i]
  BY <1>2, SubSeqFacts
<1>4. s[Len(s)] \in S
  BY <1>1
<1> QED
  BY <1>1, <1>3, <1>4 DEF n, Front, Last

LEMMA AppendFacts ==
  ASSUME NEW S, NEW s \in Seq(S), NEW x \in S
  PROVE  /\ Append(s, x) \in Seq(S)
         /\ Append(s, x) # <<>>
         /\ Len(Append(s, x)) = Len(s) + 1
         /\ \A i \in 1 .. Len(s) : Append(s, x)[i] = s[i]
         /\ Append(s, x)[Len(s) + 1] = x
         /\ Last(Append(s, x)) = x
  BY DEF Last

-----------------------------------------------------------------------------
(* Calls and their jobs *)

LEMMA JobFacts ==
  /\ \A c \in Calls : JobsOf(c) \subseteq Jobs
  /\ \A c \in Calls : \A j \in JobsOf(c) : Group(j) = c
  /\ \A j \in Jobs : Group(j) \in Calls /\ j \in JobsOf(Group(j))
  /\ \A c \in Calls : \A i \in 1 .. TaskCount[c] : <<c, i - 1>> \in JobsOf(c)
  /\ Calls \cap Jobs = {}
<1>1. \A c \in Calls : TaskCount[c] \in Nat
  BY ThreadPoolAssumption
<1> QED
  BY <1>1, ThreadPoolAssumption DEF JobsOf, Jobs, Group

LEMMA JobCount ==
  ASSUME NEW c \in Calls
  PROVE  IsFiniteSet(JobsOf(c)) /\ Cardinality(JobsOf(c)) = TaskCount[c]
<1>1. TaskCount[c] \in Nat
  BY ThreadPoolAssumption
<1>2. IsFiniteSet(0 .. TaskCount[c] - 1) /\ Cardinality(0 .. TaskCount[c] - 1) = TaskCount[c]
  BY SMTT(60), <1>1, FS_Interval
<1>3. IsFiniteSet({c}) /\ Cardinality({c}) = 1
  BY FS_Singleton
<1>4. /\ IsFiniteSet({c} \X (0 .. TaskCount[c] - 1))
      /\ Cardinality({c} \X (0 .. TaskCount[c] - 1)) = 1 * TaskCount[c]
  BY ZenonT(60), <1>2, <1>3, FS_Product
<1> QED
  BY <1>1, <1>4 DEF JobsOf

LEMMA UnfinishedCount ==
  ASSUME NEW c \in Calls
  PROVE  IsFiniteSet(Unfinished(c)) /\ Cardinality(Unfinished(c)) \in Nat
<1>1. Unfinished(c) \subseteq JobsOf(c)
  BY DEF Unfinished
<1> QED
  BY <1>1, JobCount, FS_Subset, FS_CardinalityType

-----------------------------------------------------------------------------
(* Every step keeps the types.  Only counting off needs more than them: the  *)
(* job counted off is still in the count.                                    *)

LEMMA TopFacts ==
  ASSUME TypeOK, NEW t \in Threads, stack[t] # <<>>
  PROVE  /\ Len(stack[t]) \in Nat \ {0}
         /\ DOMAIN stack[t] = 1 .. Len(stack[t])
         /\ Len(stack[t]) \in DOMAIN stack[t]
         /\ stack[t][Len(stack[t])] = Top(t)
         /\ Top(t) \in Calls \cup Jobs
<1>1. stack[t] \in Seq(Calls \cup Jobs)
  BY DEF TypeOK
<1> QED
  BY <1>1, FrontFacts DEF Top

LEMMA GotoType ==
  ASSUME TypeOK, NEW t \in Threads, NEW place \in PlacesOf(t), Goto(t, place)
  PROVE  /\ pc' \in [Threads -> UNION {PlacesOf(u) : u \in Threads}]
         /\ \A u \in Threads : pc'[u] \in PlacesOf(u)
  BY DEF TypeOK, Goto

LEMMA WakeType ==
  ASSUME TypeOK, NEW t \in Threads, NEW place \in PlacesOf(t), WakeReady(t, place)
  PROVE  /\ pc' \in [Threads -> UNION {PlacesOf(u) : u \in Threads}]
         /\ \A u \in Threads : pc'[u] \in PlacesOf(u)
<1>1. \A u \in Threads : pc[u] = "asleep" => "wait" \in PlacesOf(u)
  BY DEF TypeOK, PlacesOf, WorkerPlaces, ClientPlaces, OwnerPlaces
<1>2. \A u \in Threads : pc'[u] \in PlacesOf(u)
  BY <1>1 DEF TypeOK, WakeReady
<1> QED
  BY <1>2 DEF WakeReady

LEMMA TakeType ==
  ASSUME TypeOK, NEW t \in Workers, NEW k \in DOMAIN jobs, Take(t, k)
  PROVE  /\ jobs' \in Seq(Jobs)
         /\ status' \in [Jobs -> {"none", "queued", "running", "ok", "threw"}]
         /\ stack' \in [Threads -> Seq(Calls \cup Jobs)]
         /\ pc' \in [Threads -> UNION {PlacesOf(u) : u \in Threads}]
         /\ \A u \in Threads : pc'[u] \in PlacesOf(u)
<1>1. k \in 1 .. Len(jobs) /\ jobs[k] \in Jobs
  BY DEF TypeOK
<1>2. jobs' \in Seq(Jobs)
  BY <1>1, EraseFacts DEF TypeOK, Take
<1>3. t \in Threads /\ "body" \in PlacesOf(t)
  BY DEF Threads, PlacesOf, WorkerPlaces
<1>4. Append(stack[t], jobs[k]) \in Seq(Calls \cup Jobs)
  BY <1>1, <1>3 DEF TypeOK
<1> QED
  BY <1>1, <1>2, <1>3, <1>4, GotoType DEF TypeOK, Take

LEMMA TakesOne ==
  ASSUME TypeOK, NEW t, Help(t) \/ TakeFront(t)
  PROVE  \E k \in DOMAIN jobs : Take(t, k) /\ jobs[k] \in Jobs
<1>1. jobs \in Seq(Jobs)
  BY DEF TypeOK
<1>2. \A k \in DOMAIN jobs : jobs[k] \in Jobs
  BY <1>1
<1>3. CASE Help(t)
  BY <1>2, <1>3 DEF Help
<1>4. CASE TakeFront(t)
  <2>1. 1 \in DOMAIN jobs /\ Take(t, 1)
    BY <1>1, <1>4 DEF TakeFront
  <2> QED
    BY <1>2, <2>1
<1> QED
  BY <1>3, <1>4

LEMMA TypeStep ==
  ASSUME TypeOK, StacksMatchPlaces, StoppingMatchesOwner, Places,
         RemainingCountsUnfinished, [Next]_vars
  PROVE  TypeOK'
<1> USE DEF At
<1>1. ASSUME NEW w \in Workers, StartWorker(w)
      PROVE  TypeOK'
  <2>1. \A t \in Threads : pc'[t] \in PlacesOf(t)
    BY <1>1, ThreadPoolAssumption DEF TypeOK, StartWorker, Threads, PlacesOf, WorkerPlaces, OwnerPlaces
  <2>2. pc' \in [Threads -> UNION {PlacesOf(t) : t \in Threads}]
    BY ZenonT(60), <1>1, <2>1 DEF TypeOK, StartWorker
  <2> QED
    BY <1>1, <2>1, <2>2 DEF TypeOK, StartWorker, allButPc, queueVars, groupVars, logVars
<1>2. ASSUME StartFails \/ Destroy \/ Announce \/ Join
      PROVE  TypeOK'
  <2>1. Owner \in Threads /\ {"announce", "join", "gone"} \subseteq PlacesOf(Owner)
    BY ThreadPoolAssumption DEF Threads, PlacesOf, OwnerPlaces
  <2> QED
    BY <1>2, <2>1, GotoType, WakeType
    DEF TypeOK, StartFails, Destroy, Announce, Join, allButPc, queueVars, groupVars, logVars
<1>3. ASSUME NEW t \in Workers \cup Clients
      PROVE  /\ t \in Threads
             /\ PlacesOf(t) = IF t \in Workers THEN WorkerPlaces ELSE ClientPlaces
  BY DEF Threads, PlacesOf
<1>4. ASSUME NEW t \in Workers \cup Clients, NEW c \in Calls, Makes(t, c)
      PROVE  TypeOK'
  <2>1. CASE CallEmpty(t, c)
    BY <2>1 DEF TypeOK, CallEmpty, queueVars, groupVars, logVars
  <2>2. CASE CallRejected(t, c)
    <3>1. t \in Workers
      BY <2>2 DEF CallRejected, Begins, Accepting, StoppingMatchesOwner
    <3>2. "finish" \in PlacesOf(t)
      BY <1>3, <3>1 DEF WorkerPlaces
    <3> QED
      BY <1>3, <2>2, <3>2, GotoType DEF TypeOK, CallRejected, queueVars, groupVars
  <2>3. CASE Post(t, c)
    <3>1. [i \in 1 .. TaskCount[c] |-> <<c, i - 1>>] \in Seq(Jobs)
      BY JobFacts, ThreadPoolAssumption
    <3>2. jobs' \in Seq(Jobs)
      BY <2>3, <3>1, ConcatFacts DEF TypeOK, Post
    <3>3. stack' \in [Threads -> Seq(Calls \cup Jobs)]
      BY <1>3, <2>3, AppendFacts DEF TypeOK, Post
    <3>4. status' \in [Jobs -> {"none", "queued", "running", "ok", "threw"}]
      BY <2>3 DEF TypeOK, Post
    <3>5. TaskCount[c] \in Nat
      BY ThreadPoolAssumption
    <3>6. "posted" \in PlacesOf(t)
      BY <1>3 DEF WorkerPlaces, ClientPlaces
    <3> QED
      BY <1>3, <2>3, <3>2, <3>3, <3>4, <3>5, <3>6, GotoType DEF TypeOK, Post
  <2> QED
    BY <1>4, <2>1, <2>2, <2>3 DEF Makes
<1>5. ASSUME NEW t \in Workers \cup Clients, Step(t) \/ SpuriousWakeup(t)
      PROVE  TypeOK'
  <2> USE <1>3
  <2> USE DEF TypeOK
  <2>1. pc[t] \in IF t \in Workers THEN WorkerPlaces ELSE ClientPlaces
    OBVIOUS
  <2>2. CASE NotifyPosted(t)
    <3>1. (IF t \in Workers THEN "loop" ELSE "waitComplete") \in PlacesOf(t)
      BY DEF WorkerPlaces, ClientPlaces
    <3> QED
      BY <2>2, <3>1, WakeType DEF NotifyPosted, allButPc, queueVars, groupVars, logVars
  <2>3. CASE Loop(t) \/ HelpFindsNothing(t) \/ Exit(t) \/ Resume(t) \/ Completed(t)
    <3>1. \E place \in PlacesOf(t) : Goto(t, place)
      BY <2>1, <2>3 DEF Loop, HelpFindsNothing, Exit, Resume, Completed, WorkerPlaces, ClientPlaces
    <3> QED
      BY <2>3, <3>1, GotoType
      DEF Loop, HelpFindsNothing, Exit, Resume, Completed, allButPc, queueVars, groupVars, logVars
  <2>4. CASE Help(t) \/ TakeFront(t)
    <3>1. t \in Workers
      BY <2>1, <2>4 DEF Help, TakeFront, ClientPlaces
    <3>2. \E k \in DOMAIN jobs : Take(t, k)
      BY <2>4, TakesOne
    <3> QED
      BY <2>4, <3>1, <3>2, TakeType DEF Help, TakeFront, groupVars
  <2>5. CASE Doze(t) \/ Sleep(t) \/ DozeComplete(t) \/ SleepComplete(t) \/ SpuriousWakeup(t)
    <3>1. \E place \in PlacesOf(t) : Goto(t, place)
      BY <2>1, <2>5 DEF Doze, Sleep, DozeComplete, SleepComplete, SpuriousWakeup, WorkerPlaces, ClientPlaces
    <3>2. spurious' \in 0 .. MaxSpurious
      <4>1. CASE SpuriousWakeup(t)
        <5>1. spurious < MaxSpurious /\ spurious' = spurious + 1
          BY <4>1 DEF SpuriousWakeup
        <5>2. spurious \in 0 .. MaxSpurious /\ MaxSpurious \in Nat
          BY ThreadPoolAssumption
        <5> HIDE DEF TypeOK
        <5> QED
          BY <5>1, <5>2
      <4>2. CASE UNCHANGED spurious
        BY <4>2
      <4> QED
        BY <2>5, <4>1, <4>2 DEF Doze, Sleep, DozeComplete, SleepComplete
    <3>3. groupMutex' \in [Calls -> Threads \cup {NoThread}]
      BY <2>5 DEF Doze, Sleep, DozeComplete, SleepComplete, SpuriousWakeup, groupVars
    <3>4. queueMutex' \in Threads \cup {NoThread}
      BY <2>5 DEF Doze, Sleep, DozeComplete, SleepComplete, SpuriousWakeup
    <3>5. UNCHANGED <<jobs, stopping, remaining, error, call, status, stack, taskError>>
      BY <2>5 DEF Doze, Sleep, DozeComplete, SleepComplete, SpuriousWakeup, queueVars, groupVars, logVars
    <3>6. /\ pc' \in [Threads -> UNION {PlacesOf(u) : u \in Threads}]
          /\ \A u \in Threads : pc'[u] \in PlacesOf(u)
      BY <3>1, GotoType
    <3> QED
      BY <3>2, <3>3, <3>4, <3>5, <3>6
  <2>6. CASE Collect(t)
    <3>1. stack[t] # <<>> /\ Top(t) \in Calls
      BY <2>1, <2>6 DEF Collect, StacksMatchPlaces, WorkerMatches, ClientMatches, InCall, Top, Last
    <3>2. Front(stack[t]) \in Seq(Calls \cup Jobs)
      BY <3>1, FrontFacts
    <3>3. \E place \in PlacesOf(t) : Goto(t, place)
      BY <2>1, <2>6 DEF Collect, WorkerPlaces, ClientPlaces
    <3> QED
      BY <2>6, <3>1, <3>2, <3>3, GotoType DEF Collect, queueVars, groupVars
  <2>7. CASE EndTask(t)
    <3>1. "finish" \in PlacesOf(t)
      BY <2>7 DEF EndTask, WorkerPlaces
    <3> QED
      BY <2>7, <3>1, GotoType DEF EndTask, queueVars, groupVars, logVars
  <2>8. CASE Finish(t)
    <3> DEFINE j == Top(t)
               c == Group(j)
    <3>1. t \in Workers /\ stack[t] # <<>> /\ j \in Jobs
      BY <2>1, <2>8 DEF Finish, ClientPlaces, StacksMatchPlaces, WorkerMatches, InJob
    <3>2. c \in Calls /\ j \in JobsOf(c)
      BY <3>1, JobFacts
    <3>3. status[j] = "running"
      <4>1. pc[t] \notin Notifies
        BY <2>8 DEF Finish, Notifies
      <4> QED
        BY <3>1, <4>1, TopFacts DEF Places, StackedAreLive
    <3>4. remaining[c] \in Nat /\ remaining[c] - 1 \in Nat
      <4>1. j \in Unfinished(c)
        BY <3>2, <3>3 DEF Unfinished
      <4>2. Cardinality(Unfinished(c)) # 0
        BY <3>2, <4>1, UnfinishedCount, FS_EmptySet
      <4> QED
        BY SMTT(60), <3>2, <4>2, UnfinishedCount DEF RemainingCountsUnfinished
    <3>5. remaining' \in [Calls -> Nat]
      BY <2>8, <3>2, <3>4 DEF Finish, CountOff
    <3>6. error' \in [Calls -> BOOLEAN]
      BY <2>8, <3>2 DEF Finish, KeepError
    <3>7. status' \in [Jobs -> {"none", "queued", "running", "ok", "threw"}]
      BY <2>8, <3>1 DEF Finish
    <3>8. stack' \in [Threads -> Seq(Calls \cup Jobs)]
      <4>1. Front(stack[t]) \in Seq(Calls \cup Jobs)
        BY <3>1, FrontFacts
      <4> QED
        BY <2>8, <4>1 DEF Finish
    <3>9. /\ pc' \in [Threads -> UNION {PlacesOf(u) : u \in Threads}]
          /\ \A u \in Threads : pc'[u] \in PlacesOf(u)
      <4>1. \E place \in PlacesOf(t) : Goto(t, place)
        BY <2>8, <3>1 DEF Finish, AfterJob, WorkerPlaces
      <4> QED
        BY <4>1, GotoType
    <3>10. taskError' \in [Threads -> BOOLEAN]
      BY <2>8 DEF Finish
    <3>11. UNCHANGED <<jobs, stopping, queueMutex, groupMutex, call, spurious>>
      BY <2>8 DEF Finish, queueVars
    <3> QED
      BY <3>5, <3>6, <3>7, <3>8, <3>9, <3>10, <3>11
  <2>9. CASE NotifyComplete(t)
    <3>1. \A u \in Threads : pc[u] = "asleepComplete" => "waitComplete" \in PlacesOf(u)
      BY DEF PlacesOf, WorkerPlaces, ClientPlaces, OwnerPlaces
    <3>2. "notifyReady" \in PlacesOf(t)
      BY <2>1, <2>9 DEF NotifyComplete, WorkerPlaces, ClientPlaces
    <3>3. \A u \in Threads : pc'[u] \in PlacesOf(u)
      BY <2>9, <3>1, <3>2 DEF NotifyComplete
    <3>4. pc' \in [Threads -> UNION {PlacesOf(u) : u \in Threads}]
      <4>1. \A u \in Threads : pc'[u] \in UNION {PlacesOf(v) : v \in Threads}
        BY SMTT(60), <3>3
      <4>2. pc' = [u \in Threads |-> pc'[u]]
        BY <2>9 DEF NotifyComplete
      <4> QED
        BY <4>1, <4>2
    <3>5. UNCHANGED allButPc
      BY <2>9 DEF NotifyComplete
    <3> QED
      BY <3>3, <3>4, <3>5 DEF allButPc, queueVars, groupVars, logVars
  <2>10. CASE NotifyReady(t)
    <3>1. t \in Workers /\ stack[t] # <<>>
      BY <2>1, <2>10 DEF NotifyReady, ClientPlaces, StacksMatchPlaces, WorkerMatches, InJob, Notifies
    <3>2. Front(stack[t]) \in Seq(Calls \cup Jobs)
      BY <3>1, FrontFacts
    <3>3. AfterJob(t) \in PlacesOf(t)
      BY <3>1 DEF AfterJob, WorkerPlaces
    <3>4. /\ pc' \in [Threads -> UNION {PlacesOf(u) : u \in Threads}]
          /\ \A u \in Threads : pc'[u] \in PlacesOf(u)
      BY <2>10, <3>3, WakeType DEF NotifyReady
    <3> QED
      BY <2>10, <3>2, <3>4 DEF NotifyReady, queueVars, groupVars, logVars
  <2> QED
    BY <1>5, <2>2, <2>3, <2>4, <2>5, <2>6, <2>7, <2>8, <2>9, <2>10 DEF Step
<1>6. ASSUME UNCHANGED vars
      PROVE  TypeOK'
  BY <1>6 DEF TypeOK, vars
<1> QED
  BY <1>1, <1>2, <1>4, <1>5, <1>6 DEF Next, OwnerStep, Terminated

-----------------------------------------------------------------------------
(* What a step of one thread leaves alone in the others. *)

Others(t) ==
  \A u \in Threads \ {t} :
    /\ stack'[u] = stack[u]
    /\ taskError'[u] = taskError[u]
    /\ \/ pc'[u] = pc[u]
       \/ pc[u] = "asleep" /\ pc'[u] = "wait"
       \/ pc[u] = "asleepComplete" /\ pc'[u] = "waitComplete"

LEMMA GotoOthers ==
  ASSUME TypeOK, NEW t \in Threads, NEW place, Goto(t, place) \/ WakeReady(t, place)
  PROVE  \A u \in Threads \ {t} : pc'[u] = pc[u] \/ (pc[u] = "asleep" /\ pc'[u] = "wait")
<1>1. CASE Goto(t, place)
  BY <1>1 DEF TypeOK, Goto
<1>2. CASE WakeReady(t, place)
  BY <1>2 DEF WakeReady
<1> QED
  BY <1>1, <1>2

LEMMA MakesOthers ==
  ASSUME TypeOK, NEW t \in Threads, NEW c \in Calls, Makes(t, c)
  PROVE  Others(t)
  BY DEF TypeOK, Makes, CallEmpty, CallRejected, Post, Goto, Others

LEMMA StepOthers ==
  ASSUME TypeOK, NEW t \in Threads, Step(t) \/ SpuriousWakeup(t)
  PROVE  Others(t)
<1>1. CASE NotifyComplete(t)
  BY <1>1 DEF TypeOK, NotifyComplete, allButPc, Others
<1>2. CASE ~NotifyComplete(t)
  <2>1. \E place : Goto(t, place) \/ WakeReady(t, place)
    BY <1>2
    DEF Step, NotifyPosted, Loop, Help, HelpFindsNothing, TakeFront, Take, Exit, Resume, Doze, Sleep,
        Completed, DozeComplete, SleepComplete, Collect, EndTask, Finish, NotifyReady, SpuriousWakeup
  <2>2. \A u \in Threads \ {t} : stack'[u] = stack[u] /\ taskError'[u] = taskError[u]
    BY <1>2
    DEF Step, NotifyPosted, Loop, Help, HelpFindsNothing, TakeFront, Take, Exit, Resume, Doze, Sleep,
        Completed, DozeComplete, SleepComplete, Collect, EndTask, Finish, NotifyReady, SpuriousWakeup,
        allButPc, TypeOK
  <2> QED
    BY <2>1, <2>2, GotoOthers DEF Others
<1> QED
  BY <1>1, <1>2

-----------------------------------------------------------------------------
(* Stacks: pushing and popping keeps jobs and calls in turn. *)

LEMMA PushAlternates ==
  ASSUME NEW s \in Seq(Calls \cup Jobs), NEW x \in Calls \cup Jobs, Alternates(s),
         IF s = <<>> THEN x \in Jobs ELSE Last(s) \in Calls <=> x \in Jobs
  PROVE  Alternates(Append(s, x))
<1>1. Len(s) \in Nat /\ (s = <<>> <=> Len(s) = 0)
  OBVIOUS
<1>2. ASSUME NEW i \in 1 .. Len(s)
      PROVE  Append(s, x)[i] \in Calls <=> Append(s, x)[i + 1] \in Jobs
  BY <1>1, AppendFacts DEF Alternates, Last
<1>3. Append(s, x)[1] \in Jobs
  BY <1>1, AppendFacts DEF Alternates
<1> QED
  BY <1>1, <1>2, <1>3, AppendFacts DEF Alternates

LEMMA PopAlternates ==
  ASSUME NEW s \in Seq(Calls \cup Jobs), s # <<>>, Alternates(s)
  PROVE  /\ Alternates(Front(s))
         /\ IF Len(s) = 1
            THEN Front(s) = <<>> /\ Last(s) \in Jobs
            ELSE /\ Front(s) # <<>>
                 /\ Last(Front(s)) \in Calls \cup Jobs
                 /\ Last(Front(s)) \in Calls <=> Last(s) \in Jobs
<1>1. /\ Len(s) \in Nat \ {0} /\ Front(s) \in Seq(Calls \cup Jobs)
      /\ Len(Front(s)) = Len(s) - 1
      /\ \A i \in 1 .. Len(s) - 1 : Front(s)[i] = s[i]
      /\ Last(s) = s[Len(s)]
  BY FrontFacts
<1>2. Alternates(Front(s))
  BY <1>1 DEF Alternates
<1>3. CASE Len(s) = 1
  BY <1>1, <1>2, <1>3 DEF Alternates
<1>4. CASE Len(s) # 1
  <2>1. Front(s) # <<>> /\ Last(Front(s)) = s[Len(s) - 1]
    BY <1>1, <1>4 DEF Last
  <2>2. s[Len(s) - 1] \in Calls <=> s[Len(s) - 1 + 1] \in Jobs
    BY <1>1, <1>4 DEF Alternates
  <2>3. s[Len(s) - 1] \in Calls \cup Jobs
    BY <1>1, <1>4
  <2> QED
    BY <1>1, <1>2, <1>4, <2>1, <2>2, <2>3
<1> QED
  BY <1>3, <1>4

\* The threads that do not move keep matching, notified or not.
LEMMA OthersMatch ==
  ASSUME TypeOK, TypeOK', StacksMatchPlaces, NEW t \in Threads, Others(t),
         t \in Workers => WorkerMatches(t)',
         t \in Clients => ClientMatches(t)',
         t = Owner => stack'[Owner] = <<>>
  PROVE  StacksMatchPlaces'
<1>1. stack'[Owner] = <<>>
  BY DEF Others, StacksMatchPlaces, Threads
<1>2. ASSUME NEW u \in Clients, u # t
      PROVE  ClientMatches(u)'
  <2>1. u \in Threads /\ ClientMatches(u)
    BY DEF Threads, StacksMatchPlaces
  <2> QED
    BY <1>2, <2>1 DEF Others, ClientMatches, At
<1>3. ASSUME NEW u \in Workers, u # t
      PROVE  WorkerMatches(u)'
  <2>1. u \in Threads /\ WorkerMatches(u)
    BY DEF Threads, StacksMatchPlaces
  <2>2. stack'[u] = stack[u] /\ (Top(u))' = Top(u)
    BY <1>3, <2>1 DEF Others, Top
  <2>3. pc[u] # "asleepComplete"
    BY <2>1, ThreadPoolAssumption DEF TypeOK, PlacesOf, WorkerPlaces
  <2>4. pc'[u] = pc[u] \/ (pc[u] = "asleep" /\ pc'[u] = "wait")
    BY <1>3, <2>1, <2>3 DEF Others
  <2> QED
    BY <2>1, <2>2, <2>4 DEF WorkerMatches, Waiting, InCall, InJob, Notifies
<1> QED
  BY <1>1, <1>2, <1>3 DEF StacksMatchPlaces

LEMMA MatchStep ==
  ASSUME TypeOK, TypeOK', StacksMatchPlaces, StoppingMatchesOwner, [Next]_vars
  PROVE  StacksMatchPlaces'
<1> USE DEF At, Goto
<1>1. ASSUME NEW w \in Workers, StartWorker(w)
      PROVE  StacksMatchPlaces'
  <2>1. pc'[w] = "wait" /\ pc'[Owner] \in {"construct", "alive"} /\ stack' = stack
    BY <1>1, ThreadPoolAssumption DEF StartWorker, allButPc, TypeOK, Threads
  <2>2. \A u \in Threads \ {w, Owner} : pc'[u] = pc[u]
    BY <1>1 DEF StartWorker, TypeOK
  <2>3. WorkerMatches(w)'
    BY <1>1, <2>1 DEF StartWorker, StacksMatchPlaces, WorkerMatches, Waiting, InCall, InJob, Notifies
  <2>4. \A u \in Workers \ {w} : WorkerMatches(u)'
    BY <2>1, <2>2, ThreadPoolAssumption DEF Threads, StacksMatchPlaces, WorkerMatches, Top
  <2>5. \A u \in Clients : ClientMatches(u)'
    BY <2>1, <2>2, ThreadPoolAssumption DEF Threads, StacksMatchPlaces, ClientMatches
  <2> QED
    BY <2>1, <2>3, <2>4, <2>5 DEF StacksMatchPlaces
<1>2. ASSUME StartFails \/ Destroy \/ Announce \/ Join
      PROVE  StacksMatchPlaces'
  <2>1. stack' = stack /\ taskError' = taskError /\ Owner \in Threads
    BY <1>2 DEF StartFails, Destroy, Announce, Join, allButPc, Threads
  <2>2. \E place : Goto(Owner, place) \/ WakeReady(Owner, place)
    BY <1>2 DEF StartFails, Destroy, Announce, Join
  <2>3. Others(Owner)
    BY <2>1, <2>2, GotoOthers DEF Others
  <2> QED
    BY <2>1, <2>3, OthersMatch, ThreadPoolAssumption DEF StacksMatchPlaces
<1>3. ASSUME NEW t \in Workers \cup Clients
      PROVE  /\ t \in Threads /\ t # Owner
             /\ PlacesOf(t) = IF t \in Workers THEN WorkerPlaces ELSE ClientPlaces
             /\ pc[t] \in PlacesOf(t)
             /\ t \in Workers => WorkerMatches(t)
             /\ t \in Clients => ClientMatches(t) /\ t \notin Workers
  BY ThreadPoolAssumption DEF Threads, PlacesOf, TypeOK, StacksMatchPlaces
<1>4. ASSUME NEW t \in Workers \cup Clients, NEW c \in Calls, Makes(t, c)
      PROVE  StacksMatchPlaces'
  <2>1. Others(t)
    BY <1>3, <1>4, MakesOthers
  <2>2. CASE CallEmpty(t, c)
    BY <1>3, <2>1, <2>2, OthersMatch DEF CallEmpty, WorkerMatches, ClientMatches, Top
  <2>3. CASE CallRejected(t, c)
    <3>1. t \in Workers
      BY <2>3 DEF CallRejected, Begins, Accepting, StoppingMatchesOwner
    <3>2. pc[t] = "body" /\ pc'[t] = "finish" /\ stack' = stack
      BY <1>3, <2>3 DEF CallRejected, Begins, TypeOK
    <3>3. WorkerMatches(t)'
      BY <1>3, <3>1, <3>2 DEF WorkerMatches, Top, Waiting, InCall, InJob, Notifies
    <3> QED
      BY <1>3, <2>1, <3>1, <3>3, OthersMatch
  <2>4. CASE Post(t, c)
    <3>1. pc[t] = "body" /\ pc'[t] = "posted" /\ stack'[t] = Append(stack[t], c)
      BY <1>3, <2>4 DEF Post, Begins, TypeOK
    <3>2. stack[t] \in Seq(Calls \cup Jobs)
      BY <1>3 DEF TypeOK
    <3>3. CASE t \in Workers
      <4>1. stack[t] # <<>> /\ Top(t) \in Jobs /\ Alternates(stack[t])
        BY <1>3, <3>1, <3>3 DEF WorkerMatches, InJob
      <4>2. c \notin Jobs /\ Top(t) \notin Calls
        BY <4>1, JobFacts
      <4>3. Alternates(stack'[t]) /\ stack'[t] # <<>> /\ (Top(t))' = c
        BY <3>1, <3>2, <4>1, <4>2, PushAlternates, AppendFacts DEF Top
      <4>4. WorkerMatches(t)'
        BY <3>1, <4>3 DEF WorkerMatches, Waiting, InCall, InJob, Notifies
      <4> QED
        BY <1>3, <2>1, <3>3, <4>4, OthersMatch
    <3>4. CASE t \in Clients
      <4>1. stack[t] = <<>>
        BY <1>3, <3>1, <3>4 DEF ClientMatches
      <4>2. ClientMatches(t)'
        BY <3>1, <4>1 DEF ClientMatches
      <4> QED
        BY <1>3, <2>1, <3>4, <4>2, OthersMatch
    <3> QED
      BY <3>3, <3>4
  <2> QED
    BY <1>4, <2>2, <2>3, <2>4 DEF Makes
<1>5. ASSUME NEW t \in Workers \cup Clients, Step(t) \/ SpuriousWakeup(t)
      PROVE  StacksMatchPlaces'
  <2>1. Others(t)
    BY <1>3, <1>5, StepOthers
  <2>2. t \in Threads /\ pc \in [Threads -> UNION {PlacesOf(u) : u \in Threads}]
    BY <1>3 DEF TypeOK
  <2>3. SUFFICES /\ t \in Workers => WorkerMatches(t)'
                 /\ t \in Clients => ClientMatches(t)'
    BY <1>3, <2>1, OthersMatch
  <2> USE DEF Waiting, InCall, InJob, Notifies
  <2>4. ASSUME UNCHANGED stack
        PROVE  (Top(t))' = Top(t)
    BY <2>4 DEF Top
  <2>5. CASE NotifyPosted(t)
    <3>1. stack' = stack /\ pc'[t] = IF t \in Workers THEN "loop" ELSE "waitComplete"
      BY <2>2, <2>5 DEF NotifyPosted, WakeReady, allButPc
    <3> QED
      BY <1>3, <2>4, <2>5, <3>1 DEF NotifyPosted, WorkerMatches, ClientMatches
  <2>6. CASE Loop(t) \/ HelpFindsNothing(t) \/ Exit(t) \/ Resume(t) \/ Completed(t)
    <3>1. stack' = stack
      BY <2>6 DEF Loop, HelpFindsNothing, Exit, Resume, Completed, allButPc
    <3>2. CASE Loop(t)
      BY <1>3, <2>2, <2>4, <3>1, <3>2 DEF Loop, WorkerMatches, ClientPlaces
    <3>3. CASE HelpFindsNothing(t)
      BY <1>3, <2>2, <2>4, <3>1, <3>3 DEF HelpFindsNothing, WorkerMatches, ClientPlaces
    <3>4. CASE Exit(t)
      BY <1>3, <2>2, <2>4, <3>1, <3>4 DEF Exit, WorkerMatches, ClientPlaces
    <3>5. CASE Resume(t)
      BY <1>3, <2>2, <2>4, <3>1, <3>5 DEF Resume, WorkerMatches, ClientPlaces
    <3>6. CASE Completed(t)
      BY <1>3, <2>2, <2>4, <3>1, <3>6 DEF Completed, ClientMatches, WorkerPlaces
    <3> QED
      BY <2>6, <3>2, <3>3, <3>4, <3>5, <3>6
  <2>7. CASE Doze(t) \/ Sleep(t) \/ DozeComplete(t) \/ SleepComplete(t) \/ SpuriousWakeup(t)
    <3>1. stack' = stack
      BY <2>7 DEF Doze, Sleep, DozeComplete, SleepComplete, SpuriousWakeup
    <3>2. \/ pc[t] \in Waiting /\ pc'[t] \in Waiting
          \/ /\ pc[t] \in {"waitComplete", "dozingComplete", "asleepComplete"}
             /\ pc'[t] \in {"waitComplete", "dozingComplete", "asleepComplete"}
      BY <2>2, <2>7 DEF Doze, Sleep, DozeComplete, SleepComplete, SpuriousWakeup
    <3> QED
      BY <1>3, <2>4, <3>1, <3>2 DEF WorkerMatches, ClientMatches, WorkerPlaces, ClientPlaces
  <2>8. CASE Help(t) \/ TakeFront(t)
    <3>1. PICK k \in DOMAIN jobs : Take(t, k) /\ jobs[k] \in Jobs
      BY <2>8, TakesOne
    <3>2. t \in Workers /\ t \notin Clients
      BY <1>3, <2>8, ThreadPoolAssumption DEF Help, TakeFront, ClientPlaces
    <3>3. stack[t] = <<>> \/ (stack[t] # <<>> /\ Top(t) \in Calls)
      BY <1>3, <2>8, <3>2 DEF Help, TakeFront, WorkerMatches
    <3>4. jobs[k] \in Jobs /\ stack[t] \in Seq(Calls \cup Jobs)
      BY <2>2, <3>1 DEF TypeOK
    <3>5. stack'[t] = Append(stack[t], jobs[k]) /\ pc'[t] = "body"
      BY <2>2, <3>1 DEF Take, TypeOK
    <3>6. Alternates(stack'[t]) /\ stack'[t] # <<>> /\ (Top(t))' = jobs[k]
      BY <1>3, <3>2, <3>3, <3>4, <3>5, PushAlternates, AppendFacts DEF WorkerMatches, Top
    <3> QED
      BY <3>2, <3>4, <3>5, <3>6 DEF WorkerMatches
  <2>9. CASE Collect(t)
    <3>1. stack'[t] = Front(stack[t]) /\ pc[t] = "collect" /\ stack[t] \in Seq(Calls \cup Jobs)
      BY <2>2, <2>9 DEF Collect, TypeOK
    <3>2. CASE t \in Workers
      <4>1. stack[t] # <<>> /\ Top(t) \in Calls /\ Alternates(stack[t])
        BY <1>3, <3>1, <3>2 DEF WorkerMatches
      <4>2. Top(t) \notin Jobs
        BY <4>1, JobFacts
      <4>3. Alternates(stack'[t]) /\ stack'[t] # <<>> /\ (Top(t))' \in Jobs
        BY <3>1, <4>1, <4>2, PopAlternates DEF Top
      <4>4. pc'[t] \in {"body", "finish"}
        BY <2>2, <2>9 DEF Collect
      <4> QED
        BY <1>3, <3>2, <4>3, <4>4 DEF WorkerMatches
    <3>3. CASE t \in Clients
      <4>1. Len(stack[t]) = 1
        BY <1>3, <3>1, <3>3 DEF ClientMatches
      <4>2. stack'[t] = <<>>
        <5>1. stack[t] # <<>>
          BY <4>1
        <5>2. Len(Front(stack[t])) = 0 /\ Front(stack[t]) \in Seq(Calls \cup Jobs)
          BY <3>1, <4>1, <5>1, FrontFacts
        <5> QED
          BY <3>1, <5>2
      <4>3. pc'[t] = "body"
        BY <1>3, <2>2, <2>9, <3>3 DEF Collect
      <4> QED
        BY <1>3, <3>3, <4>2, <4>3 DEF ClientMatches
    <3> QED
      BY <3>2, <3>3
  <2>10. CASE EndTask(t)
    BY <1>3, <2>2, <2>4, <2>10 DEF EndTask, WorkerMatches
  <2>11. ASSUME t \in Workers, pc[t] \in InJob,
                stack'[t] = Front(stack[t]), pc'[t] = AfterJob(t)
         PROVE  WorkerMatches(t)'
    <3>1. stack[t] \in Seq(Calls \cup Jobs) /\ Alternates(stack[t])
      BY <1>3, <2>2, <2>11 DEF TypeOK, WorkerMatches
    <3>2. stack[t] # <<>> /\ Top(t) \in Jobs
      BY <1>3, <2>11 DEF WorkerMatches
    <3> QED
      BY <2>11, <3>1, <3>2, PopAlternates DEF AfterJob, WorkerMatches, Top
  <2>12. CASE Finish(t)
    <3>1. t \in Workers /\ t \notin Clients
      BY <1>3, <2>12, ThreadPoolAssumption DEF Finish, ClientPlaces
    <3>2. CASE remaining[Group(Top(t))] = 1
      BY <1>3, <2>2, <2>4, <2>12, <3>1, <3>2 DEF Finish, WorkerMatches
    <3>3. CASE remaining[Group(Top(t))] # 1
      <4>1. stack'[t] = Front(stack[t]) /\ pc'[t] = AfterJob(t)
        BY <2>2, <2>12, <3>3 DEF Finish, TypeOK
      <4> QED
        BY <2>11, <2>12, <3>1, <4>1 DEF Finish
    <3> QED
      BY <3>2, <3>3
  <2>13. CASE NotifyComplete(t)
    <3>1. t \in Workers /\ t \notin Clients
      BY <1>3, <2>13, ThreadPoolAssumption DEF NotifyComplete, ClientPlaces
    <3>2. pc'[t] = "notifyReady" /\ stack' = stack
      BY <2>2, <2>13 DEF NotifyComplete, allButPc
    <3> QED
      BY <1>3, <2>4, <2>13, <3>1, <3>2 DEF NotifyComplete, WorkerMatches
  <2>14. CASE NotifyReady(t)
    <3>1. t \in Workers /\ t \notin Clients
      BY <1>3, <2>14, ThreadPoolAssumption DEF NotifyReady, ClientPlaces
    <3>2. stack'[t] = Front(stack[t]) /\ pc'[t] = AfterJob(t)
      BY <2>2, <2>14 DEF NotifyReady, WakeReady, TypeOK
    <3> QED
      BY <2>11, <2>14, <3>1, <3>2 DEF NotifyReady
  <2> QED
    BY <1>5, <2>5, <2>6, <2>7, <2>8, <2>9, <2>10, <2>12, <2>13, <2>14 DEF Step
<1>6. ASSUME UNCHANGED vars
      PROVE  StacksMatchPlaces'
  BY <1>6 DEF vars, StacksMatchPlaces, WorkerMatches, ClientMatches, Top
<1> QED
  BY <1>1, <1>2, <1>4, <1>5, <1>6 DEF Next, OwnerStep, Terminated

-----------------------------------------------------------------------------
(* Places: a job is once in the queue, or once on a stack. *)

LEMMA QuietPlaces ==
  ASSUME TypeOK, Places, UNCHANGED <<jobs, call, status, stack>>,
         \A u \in Threads : pc'[u] \in Notifies <=> pc[u] \in Notifies
  PROVE  Places'
  BY DEF Places, StackedAreLive, StackedOnce, QueuedOnce

\* Execute_one() moves a job from the queue, where it was once, to a stack.
LEMMA TakePlaces ==
  ASSUME TypeOK, TypeOK', Places, NEW t \in Workers, NEW k \in DOMAIN jobs,
         Take(t, k), Others(t), UNCHANGED call, pc[t] \notin Notifies
  PROVE  Places'
<1> DEFINE j == jobs[k]
<1>1. /\ jobs \in Seq(Jobs) /\ k \in 1 .. Len(jobs) /\ j \in Jobs
      /\ t \in Threads /\ stack[t] \in Seq(Calls \cup Jobs)
      /\ DOMAIN jobs = 1 .. Len(jobs) /\ Len(jobs) \in Nat
  BY DEF TypeOK, Threads
<1>2. /\ status[j] = "queued"
      /\ \A u \in Threads : \A i \in DOMAIN stack[u] : stack[u][i] # j
  BY <1>1, JobFacts DEF Places, QueuedOnce, StackedAreLive
<1>3. /\ jobs' \in Seq(Jobs) /\ Len(jobs') = Len(jobs) - 1
      /\ \A i \in 1 .. Len(jobs) - 1 : jobs'[i] = jobs[IF i < k THEN i ELSE i + 1]
      /\ DOMAIN jobs' = 1 .. Len(jobs) - 1
  <2>1. /\ Erase(jobs, k) \in Seq(Jobs) /\ Len(Erase(jobs, k)) = Len(jobs) - 1
        /\ \A i \in 1 .. Len(jobs) - 1 : Erase(jobs, k)[i] = jobs[IF i < k THEN i ELSE i + 1]
    BY <1>1, EraseFacts
  <2>2. jobs' = Erase(jobs, k)
    BY DEF Take
  <2>3. DOMAIN Erase(jobs, k) = 1 .. Len(Erase(jobs, k))
    BY <2>1
  <2> QED
    BY <2>1, <2>2, <2>3
<1>4. \A x \in Jobs : status'[x] = IF x = j THEN "running" ELSE status[x]
  BY <1>1 DEF Take, TypeOK
<1>5. QueuedOnce'
  <2> DEFINE old(i) == IF i < k THEN i ELSE i + 1
  <2>1. /\ \A i \in 1 .. Len(jobs) - 1 : old(i) \in 1 .. Len(jobs) /\ old(i) # k
        /\ \A i, m \in 1 .. Len(jobs) - 1 : old(i) = old(m) => i = m
        /\ \A i \in 1 .. Len(jobs) - 1 : jobs'[i] = jobs[old(i)]
    BY <1>1, <1>3
  <2> HIDE DEF old
  <2>2. \A i, m \in 1 .. Len(jobs) : jobs[i] = jobs[m] => i = m
    BY <1>1 DEF Places, QueuedOnce
  <2>3. \A i \in 1 .. Len(jobs) : jobs[i] \in Jobs /\ status[jobs[i]] = "queued"
    BY <1>1 DEF Places, QueuedOnce
  <2>4. \A i \in 1 .. Len(jobs) - 1 : jobs'[i] \in Jobs /\ jobs'[i] # j /\ status[jobs'[i]] = "queued"
    BY <1>1, <2>1, <2>2, <2>3
  <2>5. \A i, m \in 1 .. Len(jobs) - 1 : jobs'[i] = jobs'[m] => i = m
    BY <2>1, <2>2
  <2> QED
    BY <1>3, <1>4, <2>4, <2>5 DEF QueuedOnce
<1>6. /\ stack'[t] = Append(stack[t], j)
      /\ DOMAIN stack[t] = 1 .. Len(stack[t]) /\ Len(stack[t]) \in Nat
      /\ DOMAIN stack'[t] = 1 .. Len(stack[t]) + 1
      /\ Len(stack'[t]) = Len(stack[t]) + 1
      /\ \A i \in 1 .. Len(stack[t]) : stack'[t][i] = stack[t][i]
      /\ stack'[t][Len(stack[t]) + 1] = j
      /\ pc'[t] = "body"
  <2>1. stack'[t] = Append(stack[t], j) /\ pc'[t] = "body"
    BY <1>1 DEF Take, Goto, TypeOK
  <2>2. j \in Calls \cup Jobs
    BY <1>1
  <2> HIDE DEF j
  <2>3. /\ Append(stack[t], j) \in Seq(Calls \cup Jobs)
        /\ Len(Append(stack[t], j)) = Len(stack[t]) + 1
        /\ \A i \in 1 .. Len(stack[t]) : Append(stack[t], j)[i] = stack[t][i]
        /\ Append(stack[t], j)[Len(stack[t]) + 1] = j
    BY <1>1, <2>2, AppendFacts
  <2>4. /\ DOMAIN stack[t] = 1 .. Len(stack[t]) /\ Len(stack[t]) \in Nat
        /\ DOMAIN Append(stack[t], j) = 1 .. Len(Append(stack[t], j))
    BY <1>1, <2>3
  <2> QED
    BY <2>1, <2>3, <2>4
<1> HIDE DEF j
<1>7. StackedOnce'
  <2>1. ASSUME NEW u \in Threads, NEW i \in DOMAIN stack'[u], stack'[u][i] = j
        PROVE  u = t /\ i = Len(stack[t]) + 1
    BY <1>2, <1>6, <2>1 DEF Others
  <2>2. ASSUME NEW u \in Threads, NEW i \in DOMAIN stack'[u], stack'[u][i] # j
        PROVE  i \in DOMAIN stack[u] /\ stack'[u][i] = stack[u][i]
    BY <1>6, <2>2 DEF Others
  <2> QED
    BY <2>1, <2>2 DEF Places, StackedOnce
<1>8. StackedAreLive'
  <2>1. ASSUME NEW u \in Threads, u # t
        PROVE  \A i \in DOMAIN stack'[u] :
                 /\ stack'[u][i] \in Calls => call'[stack'[u][i]] = "open"
                 /\ stack'[u][i] \in Jobs =>
                      IF i = Len(stack'[u]) /\ pc'[u] \in Notifies
                      THEN status'[stack'[u][i]] \in {"ok", "threw"}
                      ELSE status'[stack'[u][i]] = "running"
    BY <1>2, <1>4, <2>1 DEF Places, StackedAreLive, Others, Notifies
  <2>2. ASSUME NEW i \in DOMAIN stack'[t]
        PROVE  /\ stack'[t][i] \in Calls => call'[stack'[t][i]] = "open"
               /\ stack'[t][i] \in Jobs => status'[stack'[t][i]] = "running"
    BY <1>1, <1>2, <1>4, <1>6, JobFacts DEF Places, StackedAreLive
  <2>3. pc'[t] \notin Notifies
    BY <1>6 DEF Notifies
  <2> QED
    BY <2>1, <2>2, <2>3 DEF StackedAreLive
<1> QED
  BY <1>5, <1>7, <1>8 DEF Places

\* The end of a call or of a job takes it off its stack; its fate may change.
LEMMA PopPlaces ==
  ASSUME TypeOK, TypeOK', Places, NEW t \in Threads, stack[t] # <<>>, Others(t),
         stack'[t] = Front(stack[t]), pc'[t] \notin Notifies, UNCHANGED jobs,
         \A c \in Calls \ {Top(t)} : call'[c] = call[c],
         \A j \in Jobs : j # Top(t) \/ status[j] # "running" => status'[j] = status[j],
         Top(t) \in Jobs => status[Top(t)] # "queued"
  PROVE  Places'
<1>1. /\ Len(stack[t]) \in Nat \ {0} /\ DOMAIN stack[t] = 1 .. Len(stack[t])
      /\ stack[t][Len(stack[t])] = Top(t)
      /\ Len(stack'[t]) = Len(stack[t]) - 1
      /\ DOMAIN stack'[t] = 1 .. Len(stack[t]) - 1
      /\ \A i \in 1 .. Len(stack[t]) - 1 : stack'[t][i] = stack[t][i]
  <2>1. stack[t] \in Seq(Calls \cup Jobs)
    BY DEF TypeOK
  <2>2. /\ stack'[t] \in Seq(Calls \cup Jobs) /\ Len(stack'[t]) = Len(stack[t]) - 1
        /\ \A i \in 1 .. Len(stack[t]) - 1 : stack'[t][i] = stack[t][i]
    BY <2>1, FrontFacts
  <2>3. DOMAIN stack'[t] = 1 .. Len(stack'[t])
    BY <2>2
  <2> QED
    BY <2>2, <2>3, TopFacts
<1>2. QueuedOnce'
  <2>1. \A k \in DOMAIN jobs : jobs[k] \in Jobs
    BY DEF TypeOK
  <2> QED
    BY <2>1 DEF Places, QueuedOnce
<1>3. StackedOnce'
  BY SMTT(60), <1>1 DEF Places, StackedOnce, Others
<1>4. StackedAreLive'
  <2>1. \A u \in Threads \ {t} : \A i \in DOMAIN stack[u] : stack[u][i] # Top(t)
    BY <1>1 DEF Places, StackedOnce
  <2>2. \A i \in 1 .. Len(stack[t]) - 1 : stack[t][i] # Top(t)
    BY <1>1 DEF Places, StackedOnce
  <2>3. ASSUME NEW u \in Threads, u # t
        PROVE  \A i \in DOMAIN stack'[u] :
                 /\ stack'[u][i] \in Calls => call'[stack'[u][i]] = "open"
                 /\ stack'[u][i] \in Jobs =>
                      IF i = Len(stack'[u]) /\ pc'[u] \in Notifies
                      THEN status'[stack'[u][i]] \in {"ok", "threw"}
                      ELSE status'[stack'[u][i]] = "running"
    BY <2>1, <2>3 DEF Places, StackedAreLive, Others, Notifies
  <2>4. ASSUME NEW i \in DOMAIN stack'[t]
        PROVE  /\ stack'[t][i] \in Calls => call'[stack'[t][i]] = "open"
               /\ stack'[t][i] \in Jobs => status'[stack'[t][i]] = "running"
    BY <1>1, <2>2 DEF Places, StackedAreLive
  <2> QED
    BY <2>3, <2>4 DEF StackedAreLive
<1> QED
  BY <1>2, <1>3, <1>4 DEF Places

\* A new call's jobs enter the queue behind the others, the call its stack.
LEMMA PostPlaces ==
  ASSUME TypeOK, TypeOK', Places, CallsKnowJobs, NEW t \in Threads, NEW c \in Calls,
         Post(t, c), Others(t)
  PROVE  Places'
<1> DEFINE n   == TaskCount[c]
           new == [i \in 1 .. n |-> <<c, i - 1>>]
<1>1. /\ n \in Nat /\ jobs \in Seq(Jobs) /\ stack[t] \in Seq(Calls \cup Jobs)
      /\ Len(jobs) \in Nat /\ DOMAIN jobs = 1 .. Len(jobs)
      /\ \A i \in 1 .. Len(jobs) : jobs[i] \in Jobs
  <2>1. jobs \in Seq(Jobs) /\ stack[t] \in Seq(Calls \cup Jobs)
    BY DEF TypeOK
  <2> QED
    BY <2>1, ThreadPoolAssumption
<1>2. /\ new \in Seq(Jobs) /\ Len(new) = n
      /\ \A i \in 1 .. n : new[i] \in JobsOf(c)
      /\ \A i, m \in 1 .. n : new[i] = new[m] => i = m
  BY <1>1, JobFacts
<1> HIDE DEF n, new
<1>3. /\ \A j \in JobsOf(c) : j \in Jobs /\ status[j] = "none"
      /\ \A j \in Jobs : status'[j] = IF j \in JobsOf(c) THEN "queued" ELSE status[j]
  <2>1. call[c] = "none"
    BY DEF Post, Begins
  <2>2. \A j \in Jobs : Group(j) = c <=> j \in JobsOf(c)
    BY JobFacts
  <2> QED
    BY <2>1, <2>2, JobFacts DEF Post, CallsKnowJobs
<1>4. /\ Len(jobs') = Len(jobs) + n /\ DOMAIN jobs' = 1 .. Len(jobs) + n
      /\ \A i \in 1 .. Len(jobs) + n :
           jobs'[i] = IF i <= Len(jobs) THEN jobs[i] ELSE new[i - Len(jobs)]
  <2>1. jobs' = jobs \o new
    BY DEF Post, new, n
  <2>2. /\ jobs \o new \in Seq(Jobs) /\ Len(jobs \o new) = Len(jobs) + n
        /\ \A i \in 1 .. Len(jobs) + n :
             (jobs \o new)[i] = IF i <= Len(jobs) THEN jobs[i] ELSE new[i - Len(jobs)]
    <3>1. /\ jobs \o new \in Seq(Jobs) /\ Len(jobs \o new) = Len(jobs) + Len(new)
          /\ \A i \in 1 .. Len(jobs) + Len(new) :
               (jobs \o new)[i] = IF i <= Len(jobs) THEN jobs[i] ELSE new[i - Len(jobs)]
      <4>1. jobs \in Seq(Jobs) /\ new \in Seq(Jobs)
        BY <1>1, <1>2
      <4> QED
        BY <4>1, ConcatFacts
    <3> QED
      BY <1>2, <3>1
  <2>3. DOMAIN (jobs \o new) = 1 .. Len(jobs \o new)
    BY <2>2
  <2> QED
    BY <2>1, <2>2, <2>3
<1>5. QueuedOnce'
  <2>1. \A i \in 1 .. Len(jobs) : status[jobs[i]] = "queued" /\ jobs[i] \notin JobsOf(c)
    BY <1>1, <1>3 DEF Places, QueuedOnce
  <2>2. \A i, m \in 1 .. Len(jobs) : jobs[i] = jobs[m] => i = m
    BY <1>1 DEF Places, QueuedOnce
  <2>3. \A i \in 1 .. Len(jobs) + n : ~ (i <= Len(jobs)) => i - Len(jobs) \in 1 .. n
    BY <1>1
  <2>4. \A i \in 1 .. Len(jobs) + n : i <= Len(jobs) => i \in 1 .. Len(jobs)
    BY <1>1
  <2>5. \A i \in 1 .. Len(jobs) + n : status'[jobs'[i]] = "queued"
    BY <1>1, <1>2, <1>3, <1>4, <2>1, <2>3, <2>4
  <2>6. ASSUME NEW i \in 1 .. Len(jobs) + n, NEW m \in 1 .. Len(jobs) + n, jobs'[i] = jobs'[m]
        PROVE  i = m
    <3>1. CASE i <= Len(jobs) /\ m <= Len(jobs)
      BY <1>4, <2>2, <2>4, <2>6, <3>1
    <3>2. CASE ~(i <= Len(jobs)) /\ ~(m <= Len(jobs))
      <4>1. i - Len(jobs) = m - Len(jobs)
        BY <1>2, <1>4, <2>3, <2>6, <3>2
      <4> QED
        BY <1>1, <4>1
    <3>3. CASE (i <= Len(jobs)) # (m <= Len(jobs))
      BY <1>2, <1>4, <2>1, <2>3, <2>4, <2>6, <3>3
    <3> QED
      BY <3>1, <3>2, <3>3
  <2> QED
    BY <1>4, <2>5, <2>6 DEF QueuedOnce
<1>6. \A u \in Threads : \A i \in DOMAIN stack[u] :
        stack[u][i] # c /\ stack[u][i] \notin JobsOf(c)
  BY <1>3 DEF Places, StackedAreLive, Post, Begins
<1>7. /\ DOMAIN stack[t] = 1 .. Len(stack[t]) /\ Len(stack[t]) \in Nat
      /\ Len(stack'[t]) = Len(stack[t]) + 1
      /\ DOMAIN stack'[t] = 1 .. Len(stack[t]) + 1
      /\ \A i \in 1 .. Len(stack[t]) : stack'[t][i] = stack[t][i]
      /\ stack'[t][Len(stack[t]) + 1] = c
      /\ pc'[t] = "posted" /\ pc[t] = "body"
  <2>1. stack'[t] = Append(stack[t], c) /\ pc'[t] = "posted" /\ pc[t] = "body"
    BY DEF Post, Begins, At, Goto, TypeOK
  <2>2. /\ Append(stack[t], c) \in Seq(Calls \cup Jobs)
        /\ Len(Append(stack[t], c)) = Len(stack[t]) + 1
        /\ \A i \in 1 .. Len(stack[t]) : Append(stack[t], c)[i] = stack[t][i]
        /\ Append(stack[t], c)[Len(stack[t]) + 1] = c
    BY <1>1, AppendFacts
  <2>3. /\ DOMAIN stack[t] = 1 .. Len(stack[t]) /\ Len(stack[t]) \in Nat
        /\ DOMAIN Append(stack[t], c) = 1 .. Len(Append(stack[t], c))
    BY <1>1, <2>2
  <2> QED
    BY <2>1, <2>2, <2>3
<1>8. StackedOnce'
  <2>1. ASSUME NEW u \in Threads, NEW i \in DOMAIN stack'[u], stack'[u][i] = c
        PROVE  u = t /\ i = Len(stack[t]) + 1
    BY <1>6, <1>7, <2>1 DEF Others
  <2>2. ASSUME NEW u \in Threads, NEW i \in DOMAIN stack'[u], stack'[u][i] # c
        PROVE  i \in DOMAIN stack[u] /\ stack'[u][i] = stack[u][i]
    BY <1>7, <2>2 DEF Others
  <2> QED
    BY <2>1, <2>2 DEF Places, StackedOnce
<1>9. StackedAreLive'
  <2>1. \A x \in Calls : call'[x] = IF x = c THEN "open" ELSE call[x]
    BY DEF Post, TypeOK
  <2>2. ASSUME NEW u \in Threads, u # t
        PROVE  \A i \in DOMAIN stack'[u] :
                 /\ stack'[u][i] \in Calls => call'[stack'[u][i]] = "open"
                 /\ stack'[u][i] \in Jobs =>
                      IF i = Len(stack'[u]) /\ pc'[u] \in Notifies
                      THEN status'[stack'[u][i]] \in {"ok", "threw"}
                      ELSE status'[stack'[u][i]] = "running"
    BY <1>3, <1>6, <2>1, <2>2 DEF Places, StackedAreLive, Others, Notifies
  <2>3. ASSUME NEW i \in DOMAIN stack'[t]
        PROVE  /\ stack'[t][i] \in Calls => call'[stack'[t][i]] = "open"
               /\ stack'[t][i] \in Jobs => status'[stack'[t][i]] = "running"
    BY <1>3, <1>6, <1>7, <2>1, JobFacts DEF Places, StackedAreLive, Notifies
  <2>4. pc'[t] \notin Notifies
    BY <1>7 DEF Notifies
  <2> QED
    BY <2>2, <2>3, <2>4 DEF StackedAreLive
<1> QED
  BY <1>5, <1>8, <1>9 DEF Places

LEMMA PlacesStep ==
  ASSUME TypeOK, TypeOK', StacksMatchPlaces, StacksMatchPlaces', StoppingMatchesOwner,
         Places, CallsKnowJobs, [Next]_vars
  PROVE  Places'
<1> USE DEF At, Goto
<1>1. ASSUME NEW w \in Workers, StartWorker(w)
      PROVE  Places'
  <2>1. \A u \in Threads : pc'[u] \in Notifies <=> pc[u] \in Notifies
    BY <1>1, ThreadPoolAssumption DEF StartWorker, TypeOK, Threads, Notifies
  <2> QED
    BY <1>1, <2>1, QuietPlaces DEF StartWorker, allButPc, queueVars, logVars
<1>2. ASSUME StartFails \/ Destroy \/ Announce \/ Join
      PROVE  Places'
  <2>1. Owner \in Threads /\ UNCHANGED <<jobs, call, status, stack, taskError>>
    BY <1>2 DEF StartFails, Destroy, Announce, Join, allButPc, queueVars, logVars, Threads
  <2>2. \E place : Goto(Owner, place) \/ WakeReady(Owner, place)
    BY <1>2 DEF StartFails, Destroy, Announce, Join
  <2>3. Others(Owner)
    BY <2>1, <2>2, GotoOthers DEF Others
  <2>4. pc[Owner] \notin Notifies /\ pc'[Owner] \notin Notifies
    BY <1>2, <2>1 DEF StartFails, Destroy, Announce, Join, WakeReady, TypeOK, Notifies
  <2> QED
    BY <2>1, <2>3, <2>4, QuietPlaces DEF Others, Notifies
<1>3. \A t \in Workers \cup Clients : t \in Threads
  BY DEF Threads
<1>4. ASSUME NEW t \in Workers \cup Clients, NEW c \in Calls, Makes(t, c)
      PROVE  Places'
  <2>1. Others(t)
    BY <1>3, <1>4, MakesOthers
  <2>2. CASE CallEmpty(t, c) \/ CallRejected(t, c)
    <3>1. /\ UNCHANGED <<jobs, status, stack>> /\ call[c] = "none"
          /\ \A x \in Calls \ {c} : call'[x] = call[x]
      BY <2>2 DEF CallEmpty, CallRejected, Begins, queueVars, TypeOK
    <3>2. \A u \in Threads : pc'[u] \in Notifies <=> pc[u] \in Notifies
      BY <1>3, <2>1, <2>2 DEF CallEmpty, CallRejected, Begins, Others, Notifies, TypeOK
    <3> QED
      BY <3>1, <3>2 DEF Places, StackedAreLive, StackedOnce, QueuedOnce
  <2>4. CASE Post(t, c)
    BY <1>3, <2>1, <2>4, PostPlaces
  <2> QED
    BY <1>4, <2>2, <2>4 DEF Makes
<1>5. ASSUME NEW t \in Workers \cup Clients, Step(t) \/ SpuriousWakeup(t)
      PROVE  Places'
  <2>1. Others(t) /\ t \in Threads /\ pc[t] \in PlacesOf(t)
    BY <1>3, <1>5, StepOthers DEF TypeOK
  <2>2. CASE Help(t) \/ TakeFront(t)
    <3>1. t \in Workers
      BY <2>1, <2>2 DEF Help, TakeFront, PlacesOf, ClientPlaces
    <3>2. pc[t] \notin Notifies /\ UNCHANGED call
      BY <2>2 DEF Help, TakeFront, Notifies
    <3> QED
      BY <2>1, <2>2, <3>1, <3>2, TakesOne, TakePlaces
  <2>3. CASE Collect(t)
    <3>1. stack[t] # <<>> /\ Top(t) \in Calls
      BY <2>1, <2>3, TopFacts
      DEF Collect, StacksMatchPlaces, WorkerMatches, ClientMatches, InCall, Top, Last
    <3>2. stack'[t] = Front(stack[t]) /\ pc'[t] \in {"finish", "body"}
      BY <2>1, <2>3 DEF Collect, TypeOK
    <3>3. UNCHANGED <<jobs, status>> /\ \A x \in Calls \ {Top(t)} : call'[x] = call[x]
      BY <2>3, <3>1 DEF Collect, queueVars, TypeOK
    <3> QED
      BY <2>1, <3>1, <3>2, <3>3, PopPlaces, JobFacts DEF Notifies
  <2>4. CASE Finish(t)
    <3>1. stack[t] # <<>> /\ Top(t) \in Jobs /\ t \in Workers
      BY <2>1, <2>4 DEF Finish, StacksMatchPlaces, WorkerMatches, InJob, PlacesOf, ClientPlaces
    <3>2. UNCHANGED <<jobs, call>> /\ \A x \in Jobs \ {Top(t)} : status'[x] = status[x]
      BY <2>4, <3>1 DEF Finish, queueVars, TypeOK
    <3>3. status[Top(t)] = "running" /\ status'[Top(t)] \in {"ok", "threw"}
      <4>1. status[Top(t)] = "running"
        BY <2>1, <2>4, <3>1, TopFacts DEF Finish, Places, StackedAreLive, Notifies
      <4> QED
        BY <2>4, <3>1, <4>1 DEF Finish, TypeOK
    <3>4. CASE remaining[Group(Top(t))] = 1
      <4>1. stack' = stack /\ pc'[t] = "notifyComplete"
        BY <2>1, <2>4, <3>4 DEF Finish, TypeOK
      <4>2. QueuedOnce'
        <5>1. \A k \in DOMAIN jobs : jobs[k] \in Jobs /\ jobs[k] # Top(t)
          BY <3>3 DEF Places, QueuedOnce, TypeOK
        <5> QED
          BY <3>2, <5>1 DEF Places, QueuedOnce
      <4>3. StackedOnce'
        BY <4>1 DEF Places, StackedOnce
      <4>4. StackedAreLive'
        <5>1. \A u \in Threads : \A i \in DOMAIN stack[u] :
                stack[u][i] = Top(t) => u = t /\ i = Len(stack[t])
          BY <2>1, <3>1, TopFacts DEF Places, StackedOnce
        <5>2. ASSUME NEW u \in Threads, NEW i \in DOMAIN stack[u], u # t
              PROVE  /\ stack[u][i] \in Calls => call'[stack[u][i]] = "open"
                     /\ stack[u][i] \in Jobs =>
                          IF i = Len(stack[u]) /\ pc'[u] \in Notifies
                          THEN status'[stack[u][i]] \in {"ok", "threw"}
                          ELSE status'[stack[u][i]] = "running"
          BY <2>1, <3>2, <5>1, <5>2 DEF Places, StackedAreLive, Others, Notifies
        <5>3. ASSUME NEW i \in DOMAIN stack[t]
              PROVE  /\ stack[t][i] \in Calls => call'[stack[t][i]] = "open"
                     /\ stack[t][i] \in Jobs =>
                          IF i = Len(stack[t]) /\ pc'[t] \in Notifies
                          THEN status'[stack[t][i]] \in {"ok", "threw"}
                          ELSE status'[stack[t][i]] = "running"
          <6>1. pc[t] \notin Notifies /\ pc'[t] \in Notifies
            BY <2>4, <4>1 DEF Finish, Notifies
          <6>2. CASE i = Len(stack[t])
            BY <2>1, <3>1, <3>2, <3>3, <6>1, <6>2, TopFacts DEF Places, StackedAreLive
          <6>3. CASE i # Len(stack[t])
            BY <2>1, <3>1, <3>2, <5>1, <6>3 DEF Places, StackedAreLive
          <6> QED
            BY <6>2, <6>3
        <5> QED
          BY <4>1, <5>2, <5>3 DEF StackedAreLive
      <4> QED
        BY <4>2, <4>3, <4>4 DEF Places
    <3>5. CASE remaining[Group(Top(t))] # 1
      <4>1. stack'[t] = Front(stack[t]) /\ pc'[t] \in {"wait", "loop"}
        BY <2>1, <2>4, <3>5 DEF Finish, TypeOK, AfterJob
      <4> QED
        BY <2>1, <3>1, <3>2, <3>3, <4>1, PopPlaces, JobFacts DEF Notifies
    <3> QED
      BY <3>4, <3>5
  <2>5. CASE NotifyReady(t)
    <3>1. stack[t] # <<>> /\ Top(t) \in Jobs /\ t \in Workers
      BY <2>1, <2>5 DEF NotifyReady, StacksMatchPlaces, WorkerMatches, InJob, Notifies, PlacesOf, ClientPlaces
    <3>2. UNCHANGED <<jobs, call, status>>
      BY <2>5 DEF NotifyReady, queueVars, logVars
    <3>3. status[Top(t)] \in {"ok", "threw"}
      BY <2>1, <2>5, <3>1, TopFacts DEF NotifyReady, Places, StackedAreLive, Notifies
    <3>4. stack'[t] = Front(stack[t]) /\ pc'[t] \in {"wait", "loop"}
      BY <2>1, <2>5 DEF NotifyReady, WakeReady, TypeOK, AfterJob
    <3> QED
      BY <2>1, <3>1, <3>2, <3>3, <3>4, PopPlaces DEF Notifies
  <2>6. CASE UNCHANGED <<jobs, call, status, stack>> /\ (pc'[t] \in Notifies <=> pc[t] \in Notifies)
    BY <2>1, <2>6, QuietPlaces DEF Others, Notifies
  <2>7. CASE NotifyPosted(t) \/ NotifyComplete(t)
    <3>1. UNCHANGED <<jobs, call, status, stack>>
      BY <2>7 DEF NotifyPosted, NotifyComplete, allButPc, queueVars, logVars
    <3>2. pc'[t] \in Notifies <=> pc[t] \in Notifies
      BY <2>1, <2>7 DEF NotifyPosted, NotifyComplete, WakeReady, Notifies
    <3> QED
      BY <2>6, <3>1, <3>2
  <2>8. CASE Loop(t) \/ HelpFindsNothing(t) \/ Exit(t) \/ Resume(t) \/ Completed(t)
    <3>1. UNCHANGED <<jobs, call, status, stack>>
      BY <2>8 DEF Loop, HelpFindsNothing, Exit, Resume, Completed, allButPc, queueVars, logVars
    <3>2. pc'[t] \in Notifies <=> pc[t] \in Notifies
      BY <2>1, <2>8 DEF Loop, HelpFindsNothing, Exit, Resume, Completed, Notifies, TypeOK
    <3> QED
      BY <2>6, <3>1, <3>2
  <2>9. CASE Doze(t) \/ Sleep(t) \/ DozeComplete(t) \/ SleepComplete(t) \/ SpuriousWakeup(t) \/ EndTask(t)
    <3>1. UNCHANGED <<jobs, call, status, stack>>
      BY <2>9 DEF Doze, Sleep, DozeComplete, SleepComplete, SpuriousWakeup, EndTask, queueVars, logVars
    <3>2. pc'[t] \in Notifies <=> pc[t] \in Notifies
      BY <2>1, <2>9 DEF Doze, Sleep, DozeComplete, SleepComplete, SpuriousWakeup, EndTask, Notifies, TypeOK
    <3> QED
      BY <2>6, <3>1, <3>2
  <2> QED
    BY <1>5, <2>2, <2>3, <2>4, <2>5, <2>7, <2>8, <2>9 DEF Step
<1>6. ASSUME UNCHANGED vars
      PROVE  Places'
  BY <1>6, QuietPlaces DEF vars
<1> QED
  BY <1>1, <1>2, <1>4, <1>5, <1>6 DEF Next, OwnerStep, Terminated

-----------------------------------------------------------------------------
(* Counting: what a call knows about its jobs. *)

LEMMA QuietCounts ==
  ASSUME Counts, UNCHANGED <<call, status, remaining, error>>
  PROVE  Counts'
  BY DEF Counts, CallsKnowJobs, RemainingCountsUnfinished, Unfinished, ErrorsKept

\* A job on its way from the queue to a thread is unfinished all along.
LEMMA TakeCounts ==
  ASSUME TypeOK, Places, Counts, NEW t, NEW k \in DOMAIN jobs, Take(t, k),
         jobs[k] \in Jobs, UNCHANGED <<call, remaining, error>>
  PROVE  Counts'
<1>1. /\ status[jobs[k]] = "queued"
      /\ \A j \in Jobs : status'[j] = IF j = jobs[k] THEN "running" ELSE status[j]
  BY DEF Take, Places, QueuedOnce, TypeOK
<1>2. \A c \in Calls : Unfinished(c)' = Unfinished(c)
  BY <1>1, JobFacts DEF Unfinished
<1>3. RemainingCountsUnfinished'
  BY <1>2 DEF Counts, RemainingCountsUnfinished
<1>4. CallsKnowJobs' /\ ErrorsKept'
  BY <1>1, JobFacts DEF Counts, CallsKnowJobs, ErrorsKept
<1> QED
  BY <1>3, <1>4 DEF Counts

LEMMA PostCounts ==
  ASSUME TypeOK, Counts, NEW t, NEW c \in Calls, Post(t, c)
  PROVE  Counts'
<1>1. /\ call[c] = "none"
      /\ \A x \in Calls : call'[x] = IF x = c THEN "open" ELSE call[x]
      /\ \A x \in Calls : remaining'[x] = IF x = c THEN TaskCount[c] ELSE remaining[x]
      /\ UNCHANGED error
  BY DEF Post, Begins, TypeOK
<1>2. /\ \A j \in JobsOf(c) : status[j] = "none" /\ status'[j] = "queued"
      /\ \A x \in Calls \ {c} : \A j \in JobsOf(x) : status'[j] = status[j]
  BY <1>1, JobFacts DEF Post, Counts, CallsKnowJobs
<1>3. Unfinished(c)' = JobsOf(c) /\ \A x \in Calls \ {c} : Unfinished(x)' = Unfinished(x)
  BY <1>2 DEF Unfinished
<1>4. RemainingCountsUnfinished'
  BY <1>1, <1>3, JobCount DEF Counts, RemainingCountsUnfinished
<1>5. CallsKnowJobs' /\ ErrorsKept'
  BY <1>1, <1>2 DEF Counts, CallsKnowJobs, ErrorsKept
<1> QED
  BY <1>4, <1>5 DEF Counts

\* Counting off the job at the top of a stack.
LEMMA FinishFacts ==
  ASSUME TypeOK, StacksMatchPlaces, Places, Counts, NEW t \in Threads, Finish(t)
  PROVE  /\ t \in Workers /\ stack[t] # <<>> /\ Top(t) \in Jobs
         /\ Group(Top(t)) \in Calls /\ Top(t) \in JobsOf(Group(Top(t)))
         /\ status[Top(t)] = "running"
         /\ status' = [status EXCEPT ![Top(t)] = IF taskError[t] THEN "threw" ELSE "ok"]
         /\ Top(t) \in Unfinished(Group(Top(t)))
         /\ remaining[Group(Top(t))] \in Nat \ {0}
<1>1. t \in Workers /\ stack[t] # <<>> /\ Top(t) \in Jobs
  BY ThreadPoolAssumption
  DEF Finish, At, TypeOK, StacksMatchPlaces, WorkerMatches, InJob, PlacesOf, ClientPlaces, OwnerPlaces
<1>2. Group(Top(t)) \in Calls /\ Top(t) \in JobsOf(Group(Top(t)))
  BY <1>1, JobFacts
<1>3. status[Top(t)] = "running"
  <2>1. pc[t] \notin Notifies
    BY DEF Finish, At, Notifies
  <2> QED
    BY <1>1, <2>1, TopFacts DEF Places, StackedAreLive
<1>4. Top(t) \in Unfinished(Group(Top(t)))
  BY <1>2, <1>3 DEF Unfinished
<1>5. Cardinality(Unfinished(Group(Top(t)))) # 0
  BY <1>2, <1>4, UnfinishedCount, FS_EmptySet
<1>6. remaining[Group(Top(t))] \in Nat \ {0}
  BY <1>2, <1>5, UnfinishedCount DEF Counts, RemainingCountsUnfinished
<1> QED
  BY <1>1, <1>2, <1>3, <1>4, <1>6 DEF Finish

LEMMA FinishCounts ==
  ASSUME TypeOK, StacksMatchPlaces, Places, Counts, NEW t \in Threads, Finish(t)
  PROVE  Counts'
<1>1. PICK j \in Jobs : j = Top(t)
  BY FinishFacts
<1>2. PICK c \in Calls : c = Group(j)
  BY <1>1, FinishFacts
<1>3. /\ j \in JobsOf(c) /\ status[j] = "running" /\ j \in Unfinished(c)
      /\ \A x \in Jobs : status'[x] = IF x = j THEN IF taskError[t] THEN "threw" ELSE "ok"
                                      ELSE status[x]
  BY <1>1, <1>2, FinishFacts DEF TypeOK
<1>4. /\ \A x \in Calls : remaining'[x] = IF x = c THEN remaining[c] - 1 ELSE remaining[x]
      /\ \A x \in Calls : error'[x] = IF x = c THEN error[c] \/ taskError[t] ELSE error[x]
      /\ UNCHANGED call
  BY <1>1, <1>2 DEF Finish, CountOff, KeepError, TypeOK
<1>5. /\ Unfinished(c)' = Unfinished(c) \ {j}
      /\ \A x \in Calls \ {c} : Unfinished(x)' = Unfinished(x)
  BY <1>2, <1>3, JobFacts DEF Unfinished
<1>6. Cardinality(Unfinished(c)') = Cardinality(Unfinished(c)) - 1
  BY <1>3, <1>5, UnfinishedCount, FS_RemoveElement
<1>7. RemainingCountsUnfinished'
  BY <1>4, <1>5, <1>6 DEF Counts, RemainingCountsUnfinished
<1>8. CallsKnowJobs'
  BY <1>3, <1>4, JobFacts DEF Counts, CallsKnowJobs
<1>9. ErrorsKept'
  <2>1. taskError[t] \in BOOLEAN
    BY DEF TypeOK
  <2>2. error'[c] <=> \E x \in JobsOf(c) : status'[x] = "threw"
    <3>1. error[c] <=> \E x \in JobsOf(c) : status[x] = "threw"
      BY DEF Counts, ErrorsKept
    <3>2. \A x \in JobsOf(c) : x \in Jobs
      BY JobFacts
    <3>3. error'[c] <=> (error[c] \/ taskError[t])
      BY <1>4
    <3>4. CASE taskError[t]
      <4>1. status'[j] = "threw"
        BY <1>3, <3>4
      <4> QED
        BY <1>3, <3>3, <3>4, <4>1
    <3>5. CASE ~taskError[t]
      <4>1. \A x \in JobsOf(c) : status'[x] = "threw" <=> status[x] = "threw"
        BY <1>3, <3>2, <3>5
      <4> QED
        BY <3>1, <3>3, <3>5, <4>1
    <3> QED
      BY <3>4, <3>5
  <2>3. ASSUME NEW d \in Calls, d # c
        PROVE  error'[d] <=> \E x \in JobsOf(d) : status'[x] = "threw"
    <3>1. \A x \in JobsOf(d) : x \in Jobs /\ x # j
      BY <1>2, <2>3, JobFacts
    <3> QED
      BY <1>3, <1>4, <2>3, <3>1 DEF Counts, ErrorsKept
  <2> QED
    BY <2>2, <2>3 DEF ErrorsKept
<1> QED
  BY <1>7, <1>8, <1>9 DEF Counts

\* Collecting changes what the host or the calling task knows, not the counts.
LEMMA CollectFacts ==
  ASSUME TypeOK, StacksMatchPlaces, Places, NEW t \in Threads, Collect(t)
  PROVE  /\ stack[t] # <<>> /\ Top(t) \in Calls /\ call[Top(t)] = "open"
         /\ call' = [call EXCEPT ![Top(t)] = IF error[Top(t)] THEN "threw" ELSE "ok"]
<1>1. stack[t] # <<>> /\ Top(t) \in Calls
  <2>1. pc[t] = "collect" /\ pc[t] \in PlacesOf(t)
    BY DEF Collect, At, TypeOK
  <2>2. CASE t \in Workers
    BY <2>1, <2>2 DEF StacksMatchPlaces, WorkerMatches, InCall
  <2>3. CASE t \in Clients
    BY <2>1, <2>3 DEF StacksMatchPlaces, ClientMatches, At, Top, Last
  <2>4. CASE t \notin Workers /\ t \notin Clients
    BY <2>1, <2>4 DEF PlacesOf, OwnerPlaces
  <2> QED
    BY <2>2, <2>3, <2>4
<1>2. call[Top(t)] = "open"
  BY <1>1, TopFacts DEF Places, StackedAreLive
<1> QED
  BY <1>1, <1>2 DEF Collect

LEMMA CountsStep ==
  ASSUME TypeOK, StacksMatchPlaces, Places, Counts, [Next]_vars
  PROVE  Counts'
<1>1. ASSUME NEW w \in Workers, StartWorker(w)
      PROVE  Counts'
  BY <1>1, QuietCounts DEF StartWorker, allButPc, groupVars, logVars
<1>2. ASSUME StartFails \/ Destroy \/ Announce \/ Join
      PROVE  Counts'
  BY <1>2, QuietCounts DEF StartFails, Destroy, Announce, Join, allButPc, groupVars, logVars
<1>3. \A t \in Workers \cup Clients : t \in Threads
  BY DEF Threads
<1>4. ASSUME NEW t \in Workers \cup Clients, NEW c \in Calls, Makes(t, c)
      PROVE  Counts'
  <2>1. CASE CallEmpty(t, c)
    <3>1. UNCHANGED <<remaining, error, status>> /\ \A x \in Calls \ {c} : call'[x] = call[x]
      BY <2>1 DEF CallEmpty, groupVars, TypeOK
    <3>2. JobsOf(c) = {}
      BY <2>1 DEF CallEmpty, JobsOf
    <3> QED
      BY <3>1, <3>2 DEF Counts, CallsKnowJobs, RemainingCountsUnfinished, ErrorsKept, Unfinished
  <2>2. CASE CallRejected(t, c)
    <3>1. /\ UNCHANGED <<remaining, error, status>> /\ call[c] = "none"
          /\ \A x \in Calls : call'[x] = IF x = c THEN "rejected" ELSE call[x]
      BY <2>2 DEF CallRejected, Begins, groupVars, TypeOK
    <3> QED
      BY <3>1 DEF Counts, CallsKnowJobs, RemainingCountsUnfinished, ErrorsKept, Unfinished
  <2>3. CASE Post(t, c)
    BY <2>3, PostCounts
  <2> QED
    BY <1>4, <2>1, <2>2, <2>3 DEF Makes
<1>5. ASSUME NEW t \in Workers \cup Clients, Step(t) \/ SpuriousWakeup(t)
      PROVE  Counts'
  <2>1. CASE Help(t) \/ TakeFront(t)
    <3>1. UNCHANGED <<call, remaining, error>>
      BY <2>1 DEF Help, TakeFront, groupVars
    <3> QED
      BY <2>1, <3>1, TakesOne, TakeCounts
  <2>2. CASE Collect(t)
    <3>1. PICK c \in Calls :
            /\ call[c] = "open"
            /\ call' = [call EXCEPT ![c] = IF error[c] THEN "threw" ELSE "ok"]
      BY <1>3, <2>2, CollectFacts
    <3>2. /\ UNCHANGED <<remaining, error, status>> /\ call'[c] \in {"ok", "threw"}
          /\ \A x \in Calls \ {c} : call'[x] = call[x]
      BY <2>2, <3>1 DEF Collect, groupVars, TypeOK
    <3> QED
      BY <3>1, <3>2 DEF Counts, CallsKnowJobs, RemainingCountsUnfinished, ErrorsKept, Unfinished
  <2>3. CASE Finish(t)
    BY <1>3, <2>3, FinishCounts
  <2>4. CASE NotifyPosted(t) \/ Loop(t) \/ HelpFindsNothing(t) \/ Exit(t) \/ Resume(t)
             \/ Completed(t) \/ NotifyComplete(t) \/ NotifyReady(t)
    BY <2>4, QuietCounts
    DEF NotifyPosted, Loop, HelpFindsNothing, Exit, Resume, Completed, NotifyComplete, NotifyReady,
        allButPc, groupVars, logVars
  <2>5. CASE Doze(t) \/ Sleep(t) \/ DozeComplete(t) \/ SleepComplete(t) \/ SpuriousWakeup(t)
             \/ EndTask(t)
    BY <2>5, QuietCounts
    DEF Doze, Sleep, DozeComplete, SleepComplete, SpuriousWakeup, EndTask, groupVars, logVars
  <2> QED
    BY <1>5, <2>1, <2>2, <2>3, <2>4, <2>5 DEF Step
<1>6. ASSUME UNCHANGED vars
      PROVE  Counts'
  BY <1>6, QuietCounts DEF vars
<1> QED
  BY <1>1, <1>2, <1>4, <1>5, <1>6 DEF Next, OwnerStep, Terminated

-----------------------------------------------------------------------------
(* Returning: what a call has seen when it is over. *)

\* A step of another thread leaves a place alone or ends a sleep.
LEMMA NoOtherArrives ==
  ASSUME NEW t, Others(t), NEW u \in Threads \ {t}
  PROVE  /\ stack'[u] = stack[u]
         /\ pc'[u] \notin {"wait", "waitComplete"} => pc'[u] = pc[u]
  BY DEF Others

LEMMA StoppingStep ==
  ASSUME TypeOK, TypeOK', StoppingMatchesOwner, [Next]_vars
  PROVE  StoppingMatchesOwner'
<1> USE DEF At, Goto
<1>1. ASSUME NEW w \in Workers, StartWorker(w)
      PROVE  StoppingMatchesOwner'
  <2>1. pc'[Owner] \in {"construct", "alive"} /\ UNCHANGED stopping /\ pc[Owner] = "construct"
    BY <1>1, ThreadPoolAssumption DEF StartWorker, TypeOK, Threads, allButPc, queueVars
  <2> QED
    BY <2>1 DEF StoppingMatchesOwner
<1>2. ASSUME StartFails \/ Destroy \/ Announce \/ Join
      PROVE  StoppingMatchesOwner'
  <2>1. Owner \in Threads
    BY DEF Threads
  <2>2. CASE StartFails \/ Destroy
    <3>1. pc'[Owner] = "announce" /\ stopping' = TRUE
      BY <2>1, <2>2 DEF StartFails, Destroy, TypeOK
    <3> QED
      BY <3>1 DEF StoppingMatchesOwner
  <2>3. CASE Announce \/ Join
    <3>1. /\ pc[Owner] \in {"announce", "join"} /\ pc'[Owner] \in {"join", "gone"}
          /\ UNCHANGED stopping
      BY <2>1, <2>3 DEF Announce, Join, WakeReady, TypeOK, allButPc, queueVars
    <3> QED
      BY <3>1 DEF StoppingMatchesOwner
  <2> QED
    BY <1>2, <2>2, <2>3
<1>3. ASSUME NEW t \in Workers \cup Clients, Others(t), UNCHANGED stopping
      PROVE  StoppingMatchesOwner'
  <2>1. Owner \in Threads \ {t} /\ pc[Owner] \in OwnerPlaces
    BY ThreadPoolAssumption DEF Threads, PlacesOf, TypeOK
  <2>2. pc'[Owner] = pc[Owner]
    BY <1>3, <2>1 DEF Others, OwnerPlaces
  <2> QED
    BY <1>3, <2>2 DEF StoppingMatchesOwner
<1>4. \A t \in Workers \cup Clients : t \in Threads
  BY DEF Threads
<1>5. ASSUME NEW t \in Workers \cup Clients, NEW c \in Calls, Makes(t, c)
      PROVE  StoppingMatchesOwner'
  BY <1>3, <1>4, <1>5, MakesOthers DEF Makes, CallEmpty, CallRejected, Post, queueVars
<1>6. ASSUME NEW t \in Workers \cup Clients, Step(t) \/ SpuriousWakeup(t)
      PROVE  StoppingMatchesOwner'
  <2>1. UNCHANGED stopping
    BY <1>6
    DEF Step, NotifyPosted, Loop, Help, HelpFindsNothing, TakeFront, Exit, Resume, Doze, Sleep,
        Completed, DozeComplete, SleepComplete, Collect, EndTask, Finish, NotifyComplete,
        NotifyReady, SpuriousWakeup, allButPc, queueVars
  <2> QED
    BY <1>3, <1>4, <1>6, <2>1, StepOthers
<1>7. ASSUME UNCHANGED vars
      PROVE  StoppingMatchesOwner'
  BY <1>7 DEF vars, StoppingMatchesOwner
<1> QED
  BY <1>1, <1>2, <1>5, <1>6, <1>7 DEF Next, OwnerStep, Terminated

\* How a step moves a job: into the queue, out of it, or off the count.
JobMoves(j) ==
  \/ status'[j] = status[j]
  \/ status[j] = "none" /\ status'[j] = "queued"
  \/ status[j] = "queued" /\ status'[j] = "running"
  \/ status[j] = "running" /\ status'[j] \in {"ok", "threw"}

LEMMA JobsStep ==
  ASSUME TypeOK, StacksMatchPlaces, Places, Counts, [Next]_vars, NEW j \in Jobs
  PROVE  JobMoves(j)
<1>1. CASE UNCHANGED status
  BY <1>1 DEF JobMoves
<1>2. ASSUME NEW t \in Workers \cup Clients, NEW c \in Calls, Post(t, c)
      PROVE  JobMoves(j)
  <2>1. call[c] = "none" /\ status' = [x \in Jobs |-> IF Group(x) = c THEN "queued" ELSE status[x]]
    BY <1>2 DEF Post, Begins
  <2>2. CASE Group(j) = c
    BY <2>1, <2>2, JobFacts DEF Counts, CallsKnowJobs, JobMoves
  <2>3. CASE Group(j) # c
    BY <2>1, <2>3 DEF JobMoves
  <2> QED
    BY <2>2, <2>3
<1>3. ASSUME NEW t, Help(t) \/ TakeFront(t)
      PROVE  JobMoves(j)
  <2>1. PICK k \in DOMAIN jobs : Take(t, k) /\ jobs[k] \in Jobs
    BY <1>3, TakesOne
  <2>2. status[jobs[k]] = "queued"
    BY DEF Places, QueuedOnce
  <2> QED
    BY <2>1, <2>2 DEF Take, TypeOK, JobMoves
<1>4. ASSUME NEW t \in Threads, Finish(t)
      PROVE  JobMoves(j)
  <2>1. PICK x \in Jobs :
          /\ status[x] = "running"
          /\ status' = [status EXCEPT ![x] = IF taskError[t] THEN "threw" ELSE "ok"]
    BY <1>4, FinishFacts
  <2> QED
    BY <2>1 DEF TypeOK, JobMoves
<1>5. \A t \in Workers \cup Clients : t \in Threads
  BY DEF Threads
<1>6. ASSUME NEW t \in Workers \cup Clients, NEW c \in Calls, Makes(t, c)
      PROVE  JobMoves(j)
  BY <1>1, <1>2, <1>6 DEF Makes, CallEmpty, CallRejected, logVars
<1>7. ASSUME NEW t \in Workers \cup Clients, Step(t) \/ SpuriousWakeup(t)
      PROVE  JobMoves(j)
  <2>1. \/ UNCHANGED status
        \/ Help(t) \/ TakeFront(t)
        \/ Finish(t)
    BY <1>7
    DEF Step, NotifyPosted, Loop, HelpFindsNothing, Exit, Resume, Doze, Sleep, Completed,
        DozeComplete, SleepComplete, Collect, EndTask, NotifyComplete, NotifyReady,
        SpuriousWakeup, allButPc, logVars
  <2> QED
    BY <1>1, <1>3, <1>4, <1>5, <2>1
<1>8. ASSUME \/ \E w \in Workers : StartWorker(w)
             \/ StartFails \/ Destroy \/ OwnerStep \/ Terminated \/ UNCHANGED vars
      PROVE  JobMoves(j)
  BY <1>1, <1>8
  DEF StartWorker, StartFails, Destroy, OwnerStep, Announce, Join, Terminated, vars, allButPc, logVars
<1> QED
  BY <1>6, <1>7, <1>8 DEF Next

\* How a step changes what became of a call.
LEMMA CallsStep ==
  ASSUME TypeOK, StacksMatchPlaces, Places, [Next]_vars, NEW c \in Calls
  PROVE  \/ call'[c] = call[c]
         \/ call[c] = "none" /\ call'[c] = "ok" /\ TaskCount[c] = 0 /\ UNCHANGED status
         \/ call[c] = "none" /\ call'[c] = "rejected" /\ UNCHANGED status
         \/ call[c] = "none" /\ call'[c] = "open"
         \/ /\ call[c] = "open" /\ call'[c] = IF error[c] THEN "threw" ELSE "ok"
            /\ UNCHANGED <<status, remaining>>
            /\ \E t \in Threads : At(t, "collect") /\ Top(t) = c
<1> DEFINE Goal == \/ call'[c] = call[c]
                   \/ call[c] = "none" /\ call'[c] = "ok" /\ TaskCount[c] = 0 /\ UNCHANGED status
                   \/ call[c] = "none" /\ call'[c] = "rejected" /\ UNCHANGED status
                   \/ call[c] = "none" /\ call'[c] = "open"
                   \/ /\ call[c] = "open" /\ call'[c] = IF error[c] THEN "threw" ELSE "ok"
                      /\ UNCHANGED <<status, remaining>>
                      /\ \E t \in Threads : At(t, "collect") /\ Top(t) = c
<1>1. CASE UNCHANGED call
  BY <1>1
<1>2. ASSUME NEW t \in Workers \cup Clients, NEW x \in Calls, Makes(t, x)
      PROVE  Goal
  BY <1>2 DEF Makes, CallEmpty, CallRejected, Post, Begins, TypeOK
<1>3. ASSUME NEW t \in Threads, Collect(t)
      PROVE  Goal
  <2>1. /\ Top(t) \in Calls /\ call[Top(t)] = "open"
        /\ call' = [call EXCEPT ![Top(t)] = IF error[Top(t)] THEN "threw" ELSE "ok"]
    BY <1>3, CollectFacts
  <2>2. At(t, "collect") /\ UNCHANGED <<status, remaining>>
    BY <1>3 DEF Collect, groupVars
  <2> QED
    BY <2>1, <2>2 DEF TypeOK
<1>4. \A t \in Workers \cup Clients : t \in Threads
  BY DEF Threads
<1>5. ASSUME NEW t \in Workers \cup Clients, Step(t) \/ SpuriousWakeup(t)
      PROVE  Goal
  <2>1. UNCHANGED call \/ Collect(t)
    BY <1>5
    DEF Step, NotifyPosted, Loop, Help, HelpFindsNothing, TakeFront, Exit, Resume, Doze, Sleep,
        Completed, DozeComplete, SleepComplete, EndTask, Finish, NotifyComplete, NotifyReady,
        SpuriousWakeup, allButPc, logVars
  <2> QED
    BY <1>1, <1>3, <1>4, <2>1
<1>6. ASSUME \/ \E w \in Workers : StartWorker(w)
             \/ StartFails \/ Destroy \/ OwnerStep \/ Terminated \/ UNCHANGED vars
      PROVE  Goal
  BY <1>1, <1>6
  DEF StartWorker, StartFails, Destroy, OwnerStep, Announce, Join, Terminated, vars, allButPc, logVars
<1> QED
  BY <1>2, <1>5, <1>6 DEF Next

LEMMA ReturnsStep ==
  ASSUME TypeOK, StacksMatchPlaces, Places, Counts, Counts', CollectsComplete,
         ReturnsAfterAllJobs, [Next]_vars
  PROVE  ReturnsAfterAllJobs'
<1> SUFFICES ASSUME NEW c \in Calls
             PROVE  /\ call'[c] \in {"ok", "threw"} =>
                         /\ \A j \in JobsOf(c) : status'[j] \in {"ok", "threw"}
                         /\ call'[c] = "threw" <=> \E j \in JobsOf(c) : status'[j] = "threw"
                    /\ call'[c] = "rejected" => \A j \in JobsOf(c) : status'[j] = "none"
  BY DEF ReturnsAfterAllJobs
<1>1. \A j \in JobsOf(c) : JobMoves(j)
  BY JobsStep, JobFacts
<1>2. CASE call'[c] \in {"none", "open"}
  BY <1>2
<1>3. CASE call'[c] = "rejected"
  BY <1>3 DEF Counts, CallsKnowJobs
<1>4. CASE call'[c] \in {"ok", "threw"} /\ call'[c] = call[c]
  <2>1. /\ \A j \in JobsOf(c) : status[j] \in {"ok", "threw"}
        /\ call[c] = "threw" <=> \E j \in JobsOf(c) : status[j] = "threw"
    BY <1>4 DEF ReturnsAfterAllJobs
  <2>2. \A j \in JobsOf(c) : status'[j] = status[j]
    BY <1>1, <2>1 DEF JobMoves
  <2> QED
    BY <1>4, <2>1, <2>2
<1>5. CASE call[c] = "none" /\ call'[c] = "ok" /\ TaskCount[c] = 0
  <2>1. JobsOf(c) = {}
    BY <1>5 DEF JobsOf
  <2> QED
    BY <1>5, <2>1
<1>6. CASE /\ call[c] = "open" /\ call'[c] = IF error[c] THEN "threw" ELSE "ok"
           /\ UNCHANGED status
           /\ \E t \in Threads : At(t, "collect") /\ Top(t) = c
  <2>1. remaining[c] = 0
    BY <1>6 DEF CollectsComplete
  <2>2. Unfinished(c) = {}
    BY <2>1, UnfinishedCount, FS_EmptySet DEF Counts, RemainingCountsUnfinished
  <2>3. \A j \in JobsOf(c) : status[j] \in {"ok", "threw"}
    <3>1. \A j \in JobsOf(c) : j \in Jobs /\ status[j] # "none"
      BY <1>6, JobFacts DEF Counts, CallsKnowJobs
    <3>2. \A j \in JobsOf(c) : status[j] \notin {"queued", "running"}
      BY <2>2 DEF Unfinished
    <3> QED
      BY <3>1, <3>2 DEF TypeOK
  <2>4. error[c] <=> \E j \in JobsOf(c) : status[j] = "threw"
    BY DEF Counts, ErrorsKept
  <2>5. (call'[c] = "threw" <=> error[c]) /\ call'[c] # "rejected"
    BY <1>6
  <2> QED
    BY <1>6, <2>3, <2>4, <2>5
<1>7. call'[c] \in {"none", "open", "rejected", "ok", "threw"}
  BY CallsStep DEF TypeOK
<1> QED
  BY <1>2, <1>3, <1>4, <1>5, <1>6, <1>7, CallsStep

\* How a step changes the count of a call: Post() sets it, Finish() takes one
\* off, with nobody between a look at it and the sleep on it.
LEMMA RemainingStep ==
  ASSUME TypeOK, StacksMatchPlaces, Places, Counts, [Next]_vars, NEW c \in Calls
  PROVE  \/ remaining'[c] = remaining[c]
         \/ call[c] = "none" /\ remaining'[c] # 0
         \/ /\ remaining[c] # 0 /\ GroupMutexFree(c)
            /\ \E t \in Workers : /\ Finish(t) /\ Group(Top(t)) = c
                                  /\ remaining'[c] = remaining[c] - 1
<1> DEFINE Goal == \/ remaining'[c] = remaining[c]
                   \/ call[c] = "none" /\ remaining'[c] # 0
                   \/ /\ remaining[c] # 0 /\ GroupMutexFree(c)
                      /\ \E t \in Workers : /\ Finish(t) /\ Group(Top(t)) = c
                                            /\ remaining'[c] = remaining[c] - 1
<1>1. CASE UNCHANGED remaining
  BY <1>1
<1>2. ASSUME NEW t \in Workers \cup Clients, NEW x \in Calls, Makes(t, x)
      PROVE  Goal
  BY <1>2 DEF Makes, CallEmpty, CallRejected, Post, Begins, TypeOK, groupVars
<1>3. ASSUME NEW t \in Threads, Finish(t)
      PROVE  Goal
  <2>1. PICK x \in Calls : x = Group(Top(t)) /\ remaining[x] \in Nat \ {0} /\ t \in Workers
    BY <1>3, FinishFacts
  <2>2. remaining' = [remaining EXCEPT ![x] = remaining[x] - 1] /\ GroupMutexFree(x)
    BY <1>3, <2>1 DEF Finish, CountOff, CanCountOff
  <2> QED
    BY <1>3, <2>1, <2>2 DEF TypeOK
<1>4. \A t \in Workers \cup Clients : t \in Threads
  BY DEF Threads
<1>5. ASSUME NEW t \in Workers \cup Clients, Step(t) \/ SpuriousWakeup(t)
      PROVE  Goal
  <2>1. UNCHANGED remaining \/ Finish(t)
    BY <1>5
    DEF Step, NotifyPosted, Loop, Help, HelpFindsNothing, TakeFront, Exit, Resume, Doze, Sleep,
        Completed, DozeComplete, SleepComplete, EndTask, Collect, NotifyComplete, NotifyReady,
        SpuriousWakeup, allButPc, groupVars
  <2> QED
    BY <1>1, <1>3, <1>4, <2>1
<1>6. ASSUME \/ \E w \in Workers : StartWorker(w)
             \/ StartFails \/ Destroy \/ OwnerStep \/ Terminated \/ UNCHANGED vars
      PROVE  Goal
  BY <1>1, <1>6
  DEF StartWorker, StartFails, Destroy, OwnerStep, Announce, Join, Terminated, vars, allButPc, groupVars
<1> QED
  BY <1>2, <1>5, <1>6 DEF Next

LEMMA OpenTop ==
  ASSUME TypeOK, StacksMatchPlaces, Places, NEW t \in Threads, stack[t] # <<>>, Top(t) \in Calls
  PROVE  call[Top(t)] = "open"
  BY TopFacts DEF Places, StackedAreLive

\* The threads that look at the count of a call: the call is the top of their
\* stack.
CallPlaces == {"collect", "waitComplete", "dozingComplete", "asleepComplete", "loop"}

LEMMA TopIsCall ==
  ASSUME TypeOK, StacksMatchPlaces, NEW t \in Threads, pc[t] \in CallPlaces
  PROVE  stack[t] # <<>> /\ Top(t) \in Calls /\ t \in Workers \cup Clients
<1>1. pc[t] \in PlacesOf(t)
  BY DEF TypeOK
<1>2. CASE t \in Workers
  <2>1. pc[t] \in InCall
    BY <1>1, <1>2 DEF PlacesOf, WorkerPlaces, CallPlaces, InCall
  <2> QED
    BY <1>2, <2>1 DEF StacksMatchPlaces, WorkerMatches
<1>3. CASE t \in Clients
  <2>1. Len(stack[t]) = 1 /\ stack[t][1] \in Calls
    BY <1>3 DEF StacksMatchPlaces, ClientMatches, At, CallPlaces
  <2> QED
    BY <1>3, <2>1 DEF Top, Last
<1>4. CASE t \notin Workers /\ t \notin Clients
  BY <1>1, <1>4 DEF PlacesOf, OwnerPlaces, CallPlaces
<1> QED
  BY <1>2, <1>3, <1>4

LEMMA CollectsStep ==
  ASSUME TypeOK, TypeOK', StacksMatchPlaces, Places, Counts, CollectsComplete, [Next]_vars
  PROVE  CollectsComplete'
<1> USE DEF At, Goto
\* A thread that collects goes on collecting a complete call.
<1>1. ASSUME NEW u \in Threads, pc[u] = "collect", stack'[u] = stack[u]
      PROVE  remaining'[Top(u)'] = 0
  <2>1. PICK c \in Calls : c = Top(u) /\ remaining[c] = 0 /\ call[c] = "open"
    BY <1>1, TopIsCall, OpenTop DEF CollectsComplete, CallPlaces
  <2>2. remaining'[c] = 0
    BY <2>1, RemainingStep
  <2> QED
    BY <1>1, <2>1, <2>2 DEF Top
\* A thread begins to collect when it has seen the count at zero.
<1>2. ASSUME NEW t \in Threads, Loop(t) \/ Completed(t), pc'[t] = "collect"
      PROVE  remaining'[Top(t)'] = 0
  <2>1. UNCHANGED <<remaining, stack>>
    BY <1>2 DEF Loop, Completed, allButPc, groupVars
  <2>2. remaining[Top(t)] = 0
    BY <1>2 DEF Loop, Completed, TypeOK
  <2> QED
    BY <2>1, <2>2 DEF Top
<1>3. \A t \in Workers \cup Clients : t \in Threads
  BY DEF Threads
<1>4. ASSUME NEW t \in Workers \cup Clients, Others(t),
             \/ pc'[t] # "collect"
             \/ Loop(t) \/ Completed(t)
             \/ pc[t] = "collect" /\ stack'[t] = stack[t]
      PROVE  CollectsComplete'
  <2>1. ASSUME NEW u \in Threads, pc'[u] = "collect"
        PROVE  remaining'[Top(u)'] = 0
    BY <1>1, <1>2, <1>3, <1>4, <2>1 DEF Others
  <2> QED
    BY <2>1 DEF CollectsComplete
<1>5. ASSUME NEW t \in Workers \cup Clients, NEW c \in Calls, Makes(t, c)
      PROVE  CollectsComplete'
  <2>1. pc'[t] # "collect"
    BY <1>3, <1>5 DEF Makes, CallEmpty, CallRejected, Post, Begins, TypeOK
  <2> QED
    BY <1>3, <1>4, <1>5, <2>1, MakesOthers
<1>6. ASSUME NEW t \in Workers \cup Clients, Step(t) \/ SpuriousWakeup(t)
      PROVE  CollectsComplete'
  <2>1. Others(t) /\ t \in Threads
    BY <1>3, <1>6, StepOthers
  <2>2. CASE Loop(t) \/ Completed(t)
    BY <1>4, <2>1, <2>2
  <2>3. CASE NotifyPosted(t) \/ NotifyComplete(t) \/ NotifyReady(t)
    BY <1>4, <2>1, <2>3 DEF NotifyPosted, NotifyComplete, NotifyReady, WakeReady, AfterJob
  <2>4. CASE Help(t) \/ TakeFront(t)
    <3>1. \E k \in DOMAIN jobs : Take(t, k)
      BY <2>4, TakesOne
    <3>2. pc'[t] # "collect"
      BY <2>1, <3>1 DEF Take, TypeOK
    <3> QED
      BY <1>4, <2>1, <3>2
  <2>5. CASE HelpFindsNothing(t) \/ Exit(t) \/ Resume(t) \/ Doze(t) \/ Sleep(t)
             \/ DozeComplete(t) \/ SleepComplete(t) \/ SpuriousWakeup(t)
    <3>1. pc'[t] # "collect"
      BY <2>1, <2>5
      DEF HelpFindsNothing, Exit, Resume, Doze, Sleep, DozeComplete, SleepComplete, SpuriousWakeup, TypeOK
    <3> QED
      BY <1>4, <2>1, <3>1
  <2>6. CASE Collect(t) \/ EndTask(t)
    <3>1. pc'[t] # "collect"
      BY <2>1, <2>6 DEF Collect, EndTask, TypeOK
    <3> QED
      BY <1>4, <2>1, <3>1
  <2>7. CASE Finish(t)
    <3>1. pc'[t] # "collect"
      BY ZenonT(60), <2>1, <2>7 DEF Finish, AfterJob, TypeOK
    <3> QED
      BY <1>4, <2>1, <3>1
  <2> QED
    BY <1>6, <2>2, <2>3, <2>4, <2>5, <2>6, <2>7 DEF Step
<1>7. ASSUME \/ \E w \in Workers : StartWorker(w)
             \/ StartFails \/ Destroy \/ Announce \/ Join \/ Terminated \/ UNCHANGED vars
      PROVE  CollectsComplete'
  <2>1. UNCHANGED <<stack, remaining>>
    BY <1>7 DEF StartWorker, StartFails, Destroy, Announce, Join, Terminated, vars, allButPc, groupVars
  <2>2. \A u \in Threads : pc'[u] = "collect" => pc[u] = "collect"
    BY ZenonT(60), <1>7
    DEF StartWorker, StartFails, Destroy, Announce, Join, WakeReady, Terminated, vars, TypeOK
  <2> QED
    BY <1>1, <2>1, <2>2 DEF CollectsComplete
<1> QED
  BY <1>5, <1>6, <1>7 DEF Next, OwnerStep

-----------------------------------------------------------------------------
(* The mutexes: who falls asleep holds one until it sleeps. *)

LEMMA QuietMutexes ==
  ASSUME TypeOK, TypeOK', StacksMatchPlaces, Places, Counts, MutexesHeld, [Next]_vars,
         UNCHANGED <<queueMutex, groupMutex>>,
         QueueMutexFree \/ UNCHANGED <<stopping, jobs>>,
         \A u \in Threads :
           /\ pc'[u] = "dozing" <=> pc[u] = "dozing"
           /\ pc'[u] = "dozingComplete" <=> pc[u] = "dozingComplete"
           /\ pc[u] = "dozingComplete" => stack'[u] = stack[u]
  PROVE  MutexesHeld'
<1> USE DEF At
<1>1. ASSUME NEW u \in Threads
      PROVE  pc'[u] = "dozing" <=> queueMutex' = u
  BY DEF MutexesHeld
<1>2. ASSUME NEW c \in Calls, NEW u \in Threads
      PROVE  groupMutex'[c] = u <=> pc'[u] = "dozingComplete" /\ Top(u)' = c
  BY DEF MutexesHeld, Top
<1>3. ASSUME NEW u \in Threads, pc'[u] = "dozing"
      PROVE  ~stopping' /\ jobs' = <<>>
  <2>1. queueMutex = u /\ ~stopping /\ jobs = <<>>
    BY <1>3 DEF MutexesHeld
  <2>2. ~QueueMutexFree
    BY <2>1, ThreadPoolAssumption DEF QueueMutexFree
  <2> QED
    BY <2>1, <2>2
<1>4. ASSUME NEW u \in Threads, pc'[u] = "dozingComplete"
      PROVE  remaining'[Top(u)'] # 0
  <2>1. PICK c \in Calls : c = Top(u) /\ remaining[c] # 0 /\ groupMutex[c] = u
    BY <1>4, TopIsCall DEF MutexesHeld, CallPlaces
  <2>2. ~GroupMutexFree(c)
    BY <2>1, ThreadPoolAssumption DEF GroupMutexFree
  <2>3. remaining'[c] # 0
    BY <2>1, <2>2, RemainingStep
  <2> QED
    BY <1>4, <2>1, <2>3 DEF Top
<1> QED
  BY <1>1, <1>2, <1>3, <1>4 DEF MutexesHeld

\* The steps into and out of a sleep, which take and release a mutex.
LEMMA DozeMutexes ==
  ASSUME TypeOK, TypeOK', StacksMatchPlaces, MutexesHeld, NEW t \in Threads, Others(t),
         \/ Doze(t) \/ Sleep(t) \/ DozeComplete(t) \/ SleepComplete(t)
  PROVE  MutexesHeld'
<1> USE DEF At, Goto
<1>1. \A u \in Threads \ {t} :
         /\ stack'[u] = stack[u]
         /\ pc'[u] = "dozing" <=> pc[u] = "dozing"
         /\ pc'[u] = "dozingComplete" <=> pc[u] = "dozingComplete"
  BY DEF Others
<1>2. UNCHANGED <<stopping, jobs, remaining, stack>> /\ t # NoThread /\ NoThread \notin Threads
  BY ThreadPoolAssumption
  DEF Doze, Sleep, DozeComplete, SleepComplete, queueVars, groupVars
<1>3. CASE Doze(t) \/ Sleep(t)
  <2>1. /\ UNCHANGED groupMutex
        /\ pc[t] # "dozingComplete" /\ pc'[t] # "dozingComplete"
    BY <1>3 DEF Doze, Sleep, groupVars, TypeOK
  <2>2. \A u \in Threads : pc'[u] = "dozing" <=> queueMutex' = u
    <3>1. CASE Doze(t)
      <4>1. queueMutex = NoThread /\ queueMutex' = t /\ pc'[t] = "dozing"
        BY <3>1 DEF Doze, QueueMutexFree, TypeOK
      <4> QED
        BY <1>1, <1>2, <4>1 DEF MutexesHeld
    <3>2. CASE Sleep(t)
      <4>1. queueMutex = t /\ queueMutex' = NoThread /\ pc'[t] = "asleep"
        BY <3>2 DEF Sleep, MutexesHeld, TypeOK
      <4> QED
        BY <1>1, <1>2, <4>1 DEF MutexesHeld
    <3> QED
      BY <1>3, <3>1, <3>2
  <2>3. \A u \in Threads : pc'[u] = "dozing" => ~stopping' /\ jobs' = <<>>
    <3>1. pc'[t] = "dozing" => ~stopping /\ jobs = <<>>
      BY <1>3 DEF Doze, Sleep, Ready, TypeOK
    <3> QED
      BY <1>1, <1>2, <3>1 DEF MutexesHeld
  <2>4. \A u \in Threads : pc'[u] = "dozingComplete" <=> pc[u] = "dozingComplete"
    BY <1>1, <2>1
  <2>5. /\ \A c \in Calls, u \in Threads :
             groupMutex'[c] = u <=> pc'[u] = "dozingComplete" /\ Top(u)' = c
        /\ \A u \in Threads : pc'[u] = "dozingComplete" => remaining'[Top(u)'] # 0
    BY <1>2, <2>1, <2>4 DEF MutexesHeld, Top
  <2> QED
    BY <2>2, <2>3, <2>5 DEF MutexesHeld
<1>4. CASE DozeComplete(t) \/ SleepComplete(t)
  <2>1. /\ UNCHANGED queueMutex
        /\ pc[t] # "dozing" /\ pc'[t] # "dozing"
    BY <1>4 DEF DozeComplete, SleepComplete, TypeOK
  <2>2. /\ \A u \in Threads : pc'[u] = "dozing" <=> queueMutex' = u
        /\ \A u \in Threads : pc'[u] = "dozing" => ~stopping' /\ jobs' = <<>>
    BY <1>1, <1>2, <2>1 DEF MutexesHeld
  <2>3. PICK c \in Calls : c = Top(t)
    BY <1>4, TopIsCall DEF DozeComplete, SleepComplete, CallPlaces
  <2>4. \A u \in Threads : Top(u)' = Top(u)
    BY <1>2 DEF Top
  <2>5. CASE DozeComplete(t)
    <3>1. /\ pc[t] = "waitComplete" /\ pc'[t] = "dozingComplete"
          /\ groupMutex[c] = NoThread /\ remaining[c] # 0
          /\ \A x \in Calls : groupMutex'[x] = IF x = c THEN t ELSE groupMutex[x]
      BY <2>3, <2>5 DEF DozeComplete, GroupMutexFree, TypeOK
    <3>2. \A x \in Calls, u \in Threads :
             groupMutex'[x] = u <=> pc'[u] = "dozingComplete" /\ Top(u)' = x
      BY <1>1, <1>2, <2>3, <2>4, <3>1 DEF MutexesHeld
    <3>3. \A u \in Threads : pc'[u] = "dozingComplete" => remaining'[Top(u)'] # 0
      BY <1>1, <1>2, <2>3, <2>4, <3>1 DEF MutexesHeld
    <3> QED
      BY <2>2, <3>2, <3>3 DEF MutexesHeld
  <2>6. CASE SleepComplete(t)
    <3>1. /\ pc[t] = "dozingComplete" /\ pc'[t] = "asleepComplete"
          /\ \A x \in Calls : groupMutex'[x] = IF x = c THEN NoThread ELSE groupMutex[x]
      BY <2>3, <2>6 DEF SleepComplete, TypeOK
    <3>2. \A x \in Calls, u \in Threads :
             groupMutex'[x] = u <=> pc'[u] = "dozingComplete" /\ Top(u)' = x
      BY <1>1, <1>2, <2>3, <2>4, <3>1 DEF MutexesHeld
    <3>3. \A u \in Threads : pc'[u] = "dozingComplete" => remaining'[Top(u)'] # 0
      BY <1>1, <1>2, <2>3, <2>4, <3>1 DEF MutexesHeld
    <3> QED
      BY <2>2, <3>2, <3>3 DEF MutexesHeld
  <2> QED
    BY <1>4, <2>5, <2>6
<1> QED
  BY <1>3, <1>4

LEMMA MutexesStep ==
  ASSUME TypeOK, TypeOK', StacksMatchPlaces, Places, Counts, MutexesHeld, [Next]_vars
  PROVE  MutexesHeld'
<1> USE DEF At, Goto
<1>1. \A t \in Workers \cup Clients : t \in Threads
  BY DEF Threads
<1>2. ASSUME NEW t \in Threads, Others(t), UNCHANGED <<queueMutex, groupMutex>>,
             QueueMutexFree \/ UNCHANGED <<stopping, jobs>>,
             pc[t] \notin {"dozing", "dozingComplete"},
             pc'[t] \notin {"dozing", "dozingComplete"}
      PROVE  MutexesHeld'
  BY <1>2, QuietMutexes DEF Others
<1>3. ASSUME NEW w \in Workers, StartWorker(w)
      PROVE  MutexesHeld'
  BY <1>3, QuietMutexes DEF StartWorker, allButPc, queueVars, groupVars, TypeOK
<1>4. ASSUME StartFails \/ Destroy \/ Announce \/ Join
      PROVE  MutexesHeld'
  <2>1. UNCHANGED <<queueMutex, groupMutex, stack>>
    BY <1>4 DEF StartFails, Destroy, Announce, Join, allButPc, groupVars
  <2>2. QueueMutexFree \/ UNCHANGED <<stopping, jobs>>
    BY <1>4 DEF StartFails, Destroy, Announce, Join, allButPc, queueVars
  <2>3. \A u \in Threads : /\ pc'[u] = "dozing" <=> pc[u] = "dozing"
                           /\ pc'[u] = "dozingComplete" <=> pc[u] = "dozingComplete"
    BY ZenonT(60), <1>4 DEF StartFails, Destroy, Announce, Join, WakeReady, TypeOK
  <2> QED
    BY <2>1, <2>2, <2>3, QuietMutexes
<1>5. ASSUME NEW t \in Workers \cup Clients, NEW c \in Calls, Makes(t, c)
      PROVE  MutexesHeld'
  <2>1. UNCHANGED <<queueMutex, groupMutex>>
    BY <1>5 DEF Makes, CallEmpty, CallRejected, Post, groupVars
  <2>2. QueueMutexFree \/ UNCHANGED <<stopping, jobs>>
    BY <1>5 DEF Makes, CallEmpty, CallRejected, Post, queueVars
  <2>3. /\ pc[t] \notin {"dozing", "dozingComplete"}
        /\ pc'[t] \notin {"dozing", "dozingComplete"}
    BY <1>1, <1>5 DEF Makes, CallEmpty, CallRejected, Post, Begins, TypeOK
  <2> QED
    BY <1>1, <1>2, <1>5, <2>1, <2>2, <2>3, MakesOthers
<1>6. ASSUME NEW t \in Workers \cup Clients, Step(t) \/ SpuriousWakeup(t)
      PROVE  MutexesHeld'
  <2>1. Others(t) /\ t \in Threads
    BY <1>1, <1>6, StepOthers
  <2>2. CASE Doze(t) \/ Sleep(t) \/ DozeComplete(t) \/ SleepComplete(t)
    BY <2>1, <2>2, DozeMutexes
  <2>3. CASE Help(t) \/ TakeFront(t)
    <3>1. \E k \in DOMAIN jobs : Take(t, k)
      BY <2>3, TakesOne
    <3>2. /\ pc[t] \notin {"dozing", "dozingComplete"}
          /\ pc'[t] \notin {"dozing", "dozingComplete"}
      BY SMTT(60), <2>1, <2>3, <3>1 DEF Help, TakeFront, Take, TypeOK
    <3> QED
      BY <1>2, <2>1, <2>3, <3>2 DEF Help, TakeFront, groupVars
  <2>4. CASE \/ NotifyPosted(t) \/ NotifyComplete(t) \/ NotifyReady(t) \/ Loop(t)
             \/ HelpFindsNothing(t) \/ Exit(t) \/ Resume(t) \/ Completed(t) \/ SpuriousWakeup(t)
    <3>1. UNCHANGED <<queueMutex, groupMutex, stopping, jobs>>
      BY <2>4
      DEF NotifyPosted, NotifyComplete, NotifyReady, Loop, HelpFindsNothing, Exit, Resume,
          Completed, SpuriousWakeup, allButPc, queueVars, groupVars
    <3>2. /\ pc[t] \notin {"dozing", "dozingComplete"}
          /\ pc'[t] \notin {"dozing", "dozingComplete"}
      BY <2>1, <2>4
      DEF NotifyPosted, NotifyComplete, NotifyReady, WakeReady, AfterJob, Loop, HelpFindsNothing,
          Exit, Resume, Completed, SpuriousWakeup, TypeOK
    <3> QED
      BY <1>2, <2>1, <3>1, <3>2
  <2>5. CASE Collect(t) \/ EndTask(t) \/ Finish(t)
    <3>1. UNCHANGED <<queueMutex, groupMutex, stopping, jobs>>
      BY <2>5 DEF Collect, EndTask, Finish, queueVars, groupVars
    <3>2. pc[t] \notin {"dozing", "dozingComplete"}
      BY <2>5 DEF Collect, EndTask, Finish
    <3>3. pc'[t] \notin {"dozing", "dozingComplete"}
      <4>1. CASE Collect(t) \/ EndTask(t)
        BY <2>1, <4>1 DEF Collect, EndTask, TypeOK
      <4>2. CASE Finish(t)
        <5>1. \E place \in {"notifyComplete", "wait", "loop"} : Goto(t, place)
          BY <4>2 DEF Finish, AfterJob
        <5> QED
          BY <2>1, <5>1 DEF TypeOK
      <4> QED
        BY <2>5, <4>1, <4>2
    <3> QED
      BY <1>2, <2>1, <3>1, <3>2, <3>3
  <2> QED
    BY <1>6, <2>2, <2>3, <2>4, <2>5 DEF Step
<1>7. ASSUME UNCHANGED vars
      PROVE  MutexesHeld'
  BY <1>7, QuietMutexes DEF vars
<1> QED
  BY <1>3, <1>4, <1>5, <1>6, <1>7 DEF Next, OwnerStep, Terminated

-----------------------------------------------------------------------------
(* The notifications: who sleeps is about to be told. *)

LEMMA PendingTop ==
  ASSUME TypeOK, StacksMatchPlaces, NEW u \in Workers, pc[u] \in Waiting, stack[u] # <<>>
  PROVE  Top(u) \in Calls
  BY DEF StacksMatchPlaces, WorkerMatches

\* A count that a step brings to zero is one a worker goes on to notify.
LEMMA ZeroStep ==
  ASSUME TypeOK, TypeOK', StacksMatchPlaces, Places, Counts, [Next]_vars,
         NEW c \in Calls, call[c] = "open", remaining[c] # 0, remaining'[c] = 0
  PROVE  \E w \in Workers : pc'[w] = "notifyComplete" /\ Group(Top(w)') = c
<1>1. PICK w \in Workers : /\ Finish(w) /\ Group(Top(w)) = c
                           /\ remaining'[c] = remaining[c] - 1
  BY RemainingStep
<1>2. remaining[c] = 1
  <2>1. remaining[c] \in Nat
    BY DEF TypeOK
  <2> QED
    BY <1>1, <2>1
<1>3. pc'[w] = "notifyComplete" /\ UNCHANGED stack
  <2>1. w \in Threads /\ Goto(w, "notifyComplete") /\ UNCHANGED stack
    BY <1>1, <1>2 DEF Finish, Threads
  <2> QED
    BY <2>1 DEF Goto, TypeOK
<1> QED
  BY <1>1, <1>3 DEF Top

\* A step that ends no notification, tells of what it changes, and leaves to
\* fall asleep only who has nothing to wait for.
LEMMA QuietWakeups ==
  ASSUME TypeOK, TypeOK', StacksMatchPlaces, Places, Counts, MutexesHeld, WakeupsPending,
         NoLostCompletion, [Next]_vars,
         stopping' => stopping \/ pc'[Owner] = "announce",
         jobs' # <<>> => jobs # <<>> \/ \E u \in Threads : pc'[u] = "posted",
         \A u \in Threads :
           /\ pc[u] = "posted" => pc'[u] = "posted"
           /\ pc[u] = "announce" => pc'[u] = "announce"
           /\ pc[u] \in Notifies => pc'[u] \in Notifies /\ stack'[u] = stack[u]
           /\ pc[u] = "notifyComplete" =>
                \/ pc'[u] = "notifyComplete"
                \/ \A s \in Threads : pc'[s] = "asleepComplete" => Top(s) # Group(Top(u))
           /\ pc'[u] = "asleep" => pc[u] = "asleep" \/ (~stopping' /\ jobs' = <<>>)
           /\ pc'[u] \in {"dozing", "asleep"} =>
                /\ stack'[u] = stack[u]
                /\ \/ pc[u] \in {"dozing", "asleep"}
                   \/ stack'[u] # <<>> => remaining'[Top(u)'] # 0
           /\ pc'[u] = "asleepComplete" =>
                /\ stack'[u] = stack[u]
                /\ pc[u] = "asleepComplete" \/ remaining'[Top(u)'] # 0
  PROVE  WakeupsPending' /\ NoLostCompletion'
<1> USE DEF At
<1>1. Workers \subseteq Threads /\ Clients \subseteq Threads /\ Owner \in Threads
  BY DEF Threads
<1>2. ASSUME NEW t \in Workers, pc'[t] = "asleep", jobs' # <<>>
      PROVE  \E u \in Threads : pc'[u] = "posted"
  BY <1>1, <1>2 DEF WakeupsPending
<1>3. ASSUME NEW t \in Workers, pc'[t] = "asleep", stopping'
      PROVE  pc'[Owner] = "announce"
  BY <1>1, <1>3 DEF WakeupsPending
<1>4. ASSUME NEW t \in Workers, pc'[t] \in {"dozing", "asleep"}, stack'[t] # <<>>,
             remaining'[Top(t)'] = 0
      PROVE  \E u \in Workers : pc'[u] \in Notifies /\ Group(Top(u)') = Top(t)'
  <2>1. /\ pc[t] \in {"dozing", "asleep"} /\ stack'[t] = stack[t] /\ Top(t)' = Top(t)
        /\ stack[t] # <<>>
    BY <1>1, <1>4 DEF Top
  <2>2. PICK c \in Calls : c = Top(t) /\ call[c] = "open"
    BY <1>1, <2>1, PendingTop, OpenTop DEF Waiting
  <2>3. CASE remaining[c] = 0
    <3>1. PICK u \in Workers : pc[u] \in Notifies /\ Group(Top(u)) = c
      BY <2>1, <2>2, <2>3 DEF WakeupsPending
    <3>2. pc'[u] \in Notifies /\ Top(u)' = Top(u)
      BY <1>1, <3>1 DEF Top
    <3> QED
      BY <2>1, <2>2, <3>1, <3>2
  <2>4. CASE remaining[c] # 0
    BY <1>4, <2>1, <2>2, <2>4, ZeroStep DEF Notifies
  <2> QED
    BY <2>3, <2>4
<1>5. ASSUME NEW t \in Clients, pc'[t] = "asleepComplete", remaining'[Top(t)'] = 0
      PROVE  \E w \in Workers : pc'[w] = "notifyComplete" /\ Group(Top(w)') = Top(t)'
  <2>1. pc[t] = "asleepComplete" /\ Top(t)' = Top(t)
    BY <1>1, <1>5 DEF Top
  <2>2. PICK c \in Calls : c = Top(t) /\ call[c] = "open"
    BY <1>1, <2>1, TopIsCall, OpenTop DEF CallPlaces
  <2>3. CASE remaining[c] = 0
    <3>1. PICK u \in Workers : pc[u] = "notifyComplete" /\ Group(Top(u)) = c
      BY <2>1, <2>2, <2>3 DEF NoLostCompletion
    <3>2. pc'[u] = "notifyComplete" /\ Top(u)' = Top(u)
      BY <1>1, <1>5, <2>1, <2>2, <3>1 DEF Top, Notifies
    <3> QED
      BY <2>1, <2>2, <3>1, <3>2
  <2>4. CASE remaining[c] # 0
    BY <1>5, <2>1, <2>2, <2>4, ZeroStep
  <2> QED
    BY <2>3, <2>4
<1>6. WakeupsPending'
  BY <1>2, <1>3, <1>4 DEF WakeupsPending
<1> QED
  BY <1>5, <1>6 DEF NoLostCompletion

\* ready.notify_all(): nobody sleeps on ready afterwards.  It needs nothing to
\* be pending but for those who are between the predicate and the sleep.
LEMMA NotifyWakeups ==
  ASSUME TypeOK, TypeOK', StacksMatchPlaces, Places, Counts, MutexesHeld, WakeupsPending,
         NoLostCompletion, [Next]_vars,
         NEW t \in Threads, NEW place, WakeReady(t, place),
         place \notin {"dozing", "asleep", "asleepComplete"},
         pc[t] \notin Notifies \/ QueueMutexFree, pc[t] # "notifyComplete",
         \A u \in Threads \ {t} : stack'[u] = stack[u]
  PROVE  WakeupsPending' /\ NoLostCompletion'
<1> USE DEF At
<1>1. Workers \subseteq Threads /\ Clients \subseteq Threads
  BY DEF Threads
<1>2. \A u \in Threads : pc'[u] = IF u = t THEN place
                                  ELSE IF pc[u] = "asleep" THEN "wait" ELSE pc[u]
  BY DEF WakeReady
<1>3. \A u \in Threads : pc'[u] # "asleep"
  BY <1>2
<1>4. ASSUME NEW w \in Workers, pc'[w] = "dozing", stack'[w] # <<>>, remaining'[Top(w)'] = 0
      PROVE  \E u \in Workers : pc'[u] \in Notifies /\ Group(Top(u)') = Top(w)'
  <2>1. pc[w] = "dozing" /\ Top(w)' = Top(w) /\ w # t /\ stack[w] # <<>>
    BY <1>1, <1>2, <1>4 DEF Top
  <2>2. PICK c \in Calls : c = Top(w) /\ call[c] = "open"
    BY <1>1, <2>1, PendingTop, OpenTop DEF Waiting
  <2>3. CASE remaining[c] = 0
    <3>1. PICK u \in Workers : pc[u] \in Notifies /\ Group(Top(u)) = c
      BY <2>1, <2>2, <2>3 DEF WakeupsPending
    <3>2. ~QueueMutexFree
      BY <1>1, <2>1, ThreadPoolAssumption DEF MutexesHeld, QueueMutexFree
    <3>3. pc'[u] = pc[u] /\ Top(u)' = Top(u)
      BY <1>1, <1>2, <3>1, <3>2 DEF Top, Notifies
    <3> QED
      BY <2>1, <2>2, <3>1, <3>3
  <2>4. CASE remaining[c] # 0
    BY <1>4, <2>1, <2>2, <2>4, ZeroStep DEF Notifies
  <2> QED
    BY <2>3, <2>4
<1>5. ASSUME NEW s \in Clients, pc'[s] = "asleepComplete", remaining'[Top(s)'] = 0
      PROVE  \E w \in Workers : pc'[w] = "notifyComplete" /\ Group(Top(w)') = Top(s)'
  <2>1. pc[s] = "asleepComplete" /\ Top(s)' = Top(s)
    BY <1>1, <1>2, <1>5 DEF Top
  <2>2. PICK c \in Calls : c = Top(s) /\ call[c] = "open"
    BY <1>1, <2>1, TopIsCall, OpenTop DEF CallPlaces
  <2>3. CASE remaining[c] = 0
    <3>1. PICK u \in Workers : pc[u] = "notifyComplete" /\ Group(Top(u)) = c
      BY <2>1, <2>2, <2>3 DEF NoLostCompletion
    <3>2. pc'[u] = pc[u] /\ Top(u)' = Top(u)
      BY <1>1, <1>2, <3>1 DEF Top
    <3> QED
      BY <2>1, <2>2, <3>1, <3>2
  <2>4. CASE remaining[c] # 0
    BY <1>5, <2>1, <2>2, <2>4, ZeroStep
  <2> QED
    BY <2>3, <2>4
<1>6. WakeupsPending'
  BY <1>1, <1>3, <1>4 DEF WakeupsPending
<1> QED
  BY <1>5, <1>6 DEF NoLostCompletion

LEMMA WakeupsStep ==
  ASSUME TypeOK, TypeOK', StacksMatchPlaces, StacksMatchPlaces', Places, Counts, MutexesHeld,
         WakeupsPending, NoLostCompletion, [Next]_vars
  PROVE  WakeupsPending' /\ NoLostCompletion'
<1> USE DEF At, Goto
<1> DEFINE Goal == WakeupsPending' /\ NoLostCompletion'
<1>1. \A t \in Workers \cup Clients : t \in Threads
  BY DEF Threads
<1>2. /\ Owner \in Threads
      /\ \A u \in Threads : pc[u] \in {"posted", "announce"} \cup Notifies => pc[u] # "wait"
  BY DEF Threads, Notifies
\* A thread that does not sleep before the step or after it.
<1>3. ASSUME NEW t \in Threads, Others(t), UNCHANGED stopping,
             jobs' # <<>> => jobs # <<>> \/ pc'[t] = "posted",
             pc[t] \notin {"posted", "announce"} \cup Notifies,
             pc'[t] \notin {"dozing", "asleep", "asleepComplete"}
      PROVE  Goal
  BY <1>3, QuietWakeups DEF Others, Notifies
<1>4. ASSUME NEW w \in Workers, StartWorker(w)
      PROVE  Goal
  <2>1. UNCHANGED <<stopping, jobs, stack>>
    BY <1>4 DEF StartWorker, allButPc, queueVars
  <2>2. /\ pc[w] = "unborn" /\ pc[Owner] = "construct"
        /\ pc'[w] = "wait" /\ pc'[Owner] \in {"construct", "alive"}
        /\ \A u \in Threads : u # w /\ u # Owner => pc'[u] = pc[u]
    BY <1>2, <1>4, ThreadPoolAssumption DEF StartWorker, TypeOK, Threads
  <2>3. \A u \in Threads :
          \/ pc'[u] = pc[u]
          \/ pc[u] \in {"unborn", "construct"} /\ pc'[u] \in {"wait", "construct", "alive"}
    BY <2>2
  <2> QED
    BY <2>1, <2>3, QuietWakeups DEF Notifies
<1>5. ASSUME StartFails \/ Destroy \/ Join
      PROVE  Goal
  <2>1. UNCHANGED <<jobs, stack>>
    BY <1>5 DEF StartFails, Destroy, Join, allButPc, queueVars
  <2>2. /\ pc[Owner] \in {"construct", "alive", "join"}
        /\ pc'[Owner] \in {"announce", "gone"}
        /\ \A u \in Threads \ {Owner} : pc'[u] = pc[u]
        /\ stopping' => stopping \/ pc'[Owner] = "announce"
    BY <1>2, <1>5 DEF StartFails, Destroy, Join, allButPc, queueVars, TypeOK
  <2>3. \A u \in Threads :
          \/ pc'[u] = pc[u]
          \/ pc[u] \in {"construct", "alive", "join"} /\ pc'[u] \in {"announce", "gone"}
    BY <2>2
  <2> QED
    BY <2>1, <2>2, <2>3, QuietWakeups DEF Notifies
<1>6. ASSUME Announce
      PROVE  Goal
  <2>1. WakeReady(Owner, "join") /\ UNCHANGED stack
    BY <1>6 DEF Announce, allButPc
  <2>2. pc[Owner] \notin Notifies
    BY <1>6 DEF Announce, Notifies
  <2> QED
    BY <1>2, <2>1, <2>2, NotifyWakeups DEF Notifies
<1>7. ASSUME NEW t \in Workers \cup Clients, NEW c \in Calls, Makes(t, c)
      PROVE  Goal
  <2>1. Others(t) /\ t \in Threads
    BY <1>1, <1>7, MakesOthers
  <2>2. UNCHANGED stopping /\ (jobs' # <<>> => jobs # <<>> \/ pc'[t] = "posted")
    BY ZenonT(60), <2>1, <1>7 DEF Makes, CallEmpty, CallRejected, Post, queueVars, TypeOK
  <2>3. /\ pc[t] \notin {"posted", "announce"} \cup Notifies
        /\ pc'[t] \notin {"dozing", "asleep", "asleepComplete"}
    BY ZenonT(60), <2>1, <1>7 DEF Makes, CallEmpty, CallRejected, Post, Begins, Notifies, TypeOK
  <2> QED
    BY <1>3, <2>1, <2>2, <2>3
<1>8. ASSUME NEW t \in Workers \cup Clients, Step(t) \/ SpuriousWakeup(t)
      PROVE  Goal
  <2>1. Others(t) /\ t \in Threads
    BY <1>1, <1>8, StepOthers
  <2>2. CASE NotifyPosted(t)
    <3>1. \E place \in {"loop", "waitComplete"} : WakeReady(t, place)
      BY <2>2 DEF NotifyPosted
    <3>2. pc[t] = "posted" /\ UNCHANGED stack
      BY <2>2 DEF NotifyPosted, allButPc
    <3> QED
      BY <2>1, <3>1, <3>2, NotifyWakeups DEF Notifies
  <2>3. CASE NotifyReady(t)
    <3>1. \E place \in {"wait", "loop"} : WakeReady(t, place)
      BY <2>3 DEF NotifyReady, AfterJob
    <3>2. pc[t] = "notifyReady" /\ QueueMutexFree /\ \A u \in Threads \ {t} : stack'[u] = stack[u]
      BY <2>1, <2>3 DEF NotifyReady, Others
    <3> QED
      BY <2>1, <3>1, <3>2, NotifyWakeups
  <2>4. CASE NotifyComplete(t)
    <3>1. /\ UNCHANGED <<stopping, jobs, stack>> /\ pc[t] = "notifyComplete"
          /\ \A u \in Threads : pc'[u] =
                IF u = t THEN "notifyReady"
                ELSE IF pc[u] = "asleepComplete" /\ Top(u) = Group(Top(t))
                     THEN "waitComplete" ELSE pc[u]
      BY <2>4 DEF NotifyComplete, allButPc, queueVars
    <3>2. \A u \in Threads : pc'[u] = "asleepComplete" => Top(u) # Group(Top(t))
      BY <3>1
    <3>3. \A u \in Threads \ {t} : pc'[u] = pc[u] \/ (pc[u] = "asleepComplete" /\ pc'[u] = "waitComplete")
      BY <3>1
    <3> QED
      BY <2>1, <3>1, <3>2, <3>3, QuietWakeups DEF Notifies
  <2>5. CASE Doze(t) \/ Sleep(t)
    <3>1. UNCHANGED <<stopping, jobs, stack, remaining>>
      BY <2>5 DEF Doze, Sleep, queueVars, groupVars
    <3>2. \A u \in Threads \ {t} : pc'[u] = pc[u]
      BY <2>5 DEF Doze, Sleep, TypeOK
    <3>3. CASE Doze(t)
      <4>1. pc[t] = "wait" /\ pc'[t] = "dozing" /\ (stack[t] # <<>> => remaining[Top(t)] # 0)
        BY <2>1, <3>3 DEF Doze, Ready, TypeOK
      <4> QED
        BY <2>1, <3>1, <3>2, <4>1, QuietWakeups DEF Notifies, Top
    <3>4. CASE Sleep(t)
      <4>1. pc[t] = "dozing" /\ pc'[t] = "asleep" /\ ~stopping /\ jobs = <<>>
        BY <2>1, <3>4 DEF Sleep, MutexesHeld, TypeOK
      <4> QED
        BY <2>1, <3>1, <3>2, <4>1, QuietWakeups DEF Notifies
    <3> QED
      BY <2>5, <3>3, <3>4
  <2>6. CASE SleepComplete(t)
    <3>1. UNCHANGED <<stopping, jobs, stack, remaining>>
      BY <2>6 DEF SleepComplete, queueVars
    <3>2. /\ pc[t] = "dozingComplete" /\ pc'[t] = "asleepComplete" /\ remaining[Top(t)] # 0
          /\ \A u \in Threads \ {t} : pc'[u] = pc[u]
      BY <2>1, <2>6 DEF SleepComplete, MutexesHeld, TypeOK
    <3> QED
      BY <2>1, <3>1, <3>2, QuietWakeups DEF Notifies, Top
  <2>7. CASE Help(t) \/ TakeFront(t)
    <3>1. PICK k \in DOMAIN jobs : Take(t, k)
      BY <2>7, TakesOne
    <3>2. UNCHANGED stopping /\ jobs # <<>>
      BY <2>7, <3>1 DEF Help, TakeFront
    <3>3. pc[t] \in {"help", "wait"} /\ pc'[t] = "body"
      BY <2>1, <2>7, <3>1 DEF Help, TakeFront, Take, TypeOK
    <3> QED
      BY <1>3, <2>1, <3>2, <3>3 DEF Notifies
  <2>8. CASE \/ Loop(t) \/ HelpFindsNothing(t) \/ Exit(t) \/ Resume(t) \/ Completed(t)
             \/ DozeComplete(t) \/ SpuriousWakeup(t)
    <3>1. UNCHANGED <<stopping, jobs>>
      BY <2>8
      DEF Loop, HelpFindsNothing, Exit, Resume, Completed, DozeComplete, SpuriousWakeup,
          allButPc, queueVars
    <3>2. /\ pc[t] \notin {"posted", "announce"} \cup Notifies
          /\ pc'[t] \notin {"dozing", "asleep", "asleepComplete"}
      BY ZenonT(60), <2>1, <2>8
      DEF Loop, HelpFindsNothing, Exit, Resume, Completed, DozeComplete, SpuriousWakeup,
          Notifies, TypeOK
    <3> QED
      BY <1>3, <2>1, <3>1, <3>2
  <2>9. CASE Collect(t) \/ EndTask(t) \/ Finish(t)
    <3>1. UNCHANGED <<stopping, jobs>>
      BY <2>9 DEF Collect, EndTask, Finish, queueVars
    <3>2. pc[t] \notin {"posted", "announce"} \cup Notifies
      BY <2>9 DEF Collect, EndTask, Finish, Notifies
    <3>3. \E place \in {"finish", "body", "notifyComplete", "wait", "loop"} : Goto(t, place)
      <4>1. CASE Collect(t) \/ EndTask(t)
        BY <4>1 DEF Collect, EndTask
      <4>2. CASE Finish(t)
        BY <4>2 DEF Finish, AfterJob
      <4> QED
        BY <2>9, <4>1, <4>2
    <3>4. pc'[t] \notin {"dozing", "asleep", "asleepComplete"}
      BY <2>1, <3>3 DEF TypeOK
    <3> QED
      BY <1>3, <2>1, <3>1, <3>2, <3>4
  <2> QED
    BY <1>8, <2>2, <2>3, <2>4, <2>5, <2>6, <2>7, <2>8, <2>9 DEF Step
<1>9. ASSUME UNCHANGED vars
      PROVE  Goal
  BY <1>9, QuietWakeups DEF vars, Notifies
<1> QED
  BY <1>4, <1>5, <1>6, <1>7, <1>8, <1>9 DEF Next, OwnerStep, Terminated

-----------------------------------------------------------------------------
(* Where jobs are: pushing and popping, and the steps that do it. *)

LEMMA PushStack ==
  ASSUME TypeOK, NEW t \in Threads, NEW x \in Calls \cup Jobs,
         stack' = [stack EXCEPT ![t] = Append(@, x)]
  PROVE  /\ Len(stack[t]) \in Nat /\ DOMAIN stack[t] = 1 .. Len(stack[t])
         /\ Len(stack'[t]) = Len(stack[t]) + 1
         /\ DOMAIN stack'[t] = 1 .. Len(stack[t]) + 1
         /\ \A i \in 1 .. Len(stack[t]) : stack'[t][i] = stack[t][i]
         /\ stack'[t][Len(stack[t]) + 1] = x
         /\ stack'[t] # <<>> /\ Top(t)' = x
         /\ \A u \in Threads \ {t} : stack'[u] = stack[u] /\ Top(u)' = Top(u)
<1>1. stack[t] \in Seq(Calls \cup Jobs) /\ stack'[t] = Append(stack[t], x)
  BY DEF TypeOK
<1>2. \A u \in Threads \ {t} : stack'[u] = stack[u] /\ Top(u)' = Top(u)
  BY DEF TypeOK, Top
<1>3. /\ stack'[t] \in Seq(Calls \cup Jobs) /\ stack'[t] # <<>>
      /\ Len(stack'[t]) = Len(stack[t]) + 1
      /\ \A i \in 1 .. Len(stack[t]) : stack'[t][i] = stack[t][i]
      /\ stack'[t][Len(stack[t]) + 1] = x
      /\ Last(stack'[t]) = x
  BY <1>1, AppendFacts
<1>4. /\ Len(stack[t]) \in Nat /\ DOMAIN stack[t] = 1 .. Len(stack[t])
      /\ DOMAIN stack'[t] = 1 .. Len(stack'[t])
  BY <1>1, <1>3
<1> QED
  BY <1>2, <1>3, <1>4 DEF Top

LEMMA PopStack ==
  ASSUME TypeOK, NEW t \in Threads, stack[t] # <<>>,
         stack' = [stack EXCEPT ![t] = Front(@)]
  PROVE  /\ Len(stack[t]) \in Nat \ {0} /\ DOMAIN stack[t] = 1 .. Len(stack[t])
         /\ Len(stack'[t]) = Len(stack[t]) - 1
         /\ DOMAIN stack'[t] = 1 .. Len(stack[t]) - 1
         /\ \A i \in 1 .. Len(stack[t]) - 1 : stack'[t][i] = stack[t][i]
         /\ stack[t][Len(stack[t])] = Top(t)
         /\ \A u \in Threads \ {t} : stack'[u] = stack[u] /\ Top(u)' = Top(u)
<1>1. stack[t] \in Seq(Calls \cup Jobs) /\ stack'[t] = Front(stack[t])
  BY DEF TypeOK
<1>2. \A u \in Threads \ {t} : stack'[u] = stack[u] /\ Top(u)' = Top(u)
  BY DEF TypeOK, Top
<1>3. /\ stack'[t] \in Seq(Calls \cup Jobs) /\ Len(stack[t]) \in Nat \ {0}
      /\ Len(stack'[t]) = Len(stack[t]) - 1
      /\ \A i \in 1 .. Len(stack[t]) - 1 : stack'[t][i] = stack[t][i]
      /\ Last(stack[t]) = stack[t][Len(stack[t])]
  BY <1>1, FrontFacts
<1>4. DOMAIN stack[t] = 1 .. Len(stack[t]) /\ DOMAIN stack'[t] = 1 .. Len(stack'[t])
  BY <1>1, <1>3
<1> QED
  BY <1>2, <1>3, <1>4 DEF Top

LEMMA PushKeeps ==
  ASSUME TypeOK, NEW t \in Threads, NEW x \in Calls \cup Jobs,
         stack' = [stack EXCEPT ![t] = Append(@, x)],
         NEW u \in Threads, NEW y, OnStack(y, u)
  PROVE  OnStack(y, u)'
<1>1. PICK i \in DOMAIN stack[u] : stack[u][i] = y
  BY DEF OnStack
<1>2. i \in DOMAIN stack'[u] /\ stack'[u][i] = y
  <2>1. CASE u = t
    BY <1>1, <2>1, PushStack
  <2>2. CASE u # t
    BY <1>1, <2>2, PushStack
  <2> QED
    BY <2>1, <2>2
<1> QED
  BY <1>2 DEF OnStack

LEMMA PopKeeps ==
  ASSUME TypeOK, NEW t \in Threads, stack[t] # <<>>,
         stack' = [stack EXCEPT ![t] = Front(@)],
         NEW u \in Threads, NEW y, OnStack(y, u), y # Top(t)
  PROVE  OnStack(y, u)'
<1>1. PICK i \in DOMAIN stack[u] : stack[u][i] = y
  BY DEF OnStack
<1>2. i \in DOMAIN stack'[u] /\ stack'[u][i] = y
  <2>1. CASE u = t
    <3>1. i # Len(stack[t]) /\ i \in 1 .. Len(stack[t]) /\ Len(stack[t]) \in Nat \ {0}
      BY <1>1, <2>1, PopStack
    <3>2. i \in 1 .. Len(stack[t]) - 1
      BY <3>1
    <3> QED
      BY <1>1, <2>1, <3>2, PopStack
  <2>2. CASE u # t
    BY <1>1, <2>2, PopStack
  <2> QED
    BY <2>1, <2>2
<1> QED
  BY <1>2 DEF OnStack

\* The end of a job or of a call: the top of a stack goes.
Pops(t) == Collect(t) \/ NotifyReady(t) \/ (Finish(t) /\ remaining[Group(Top(t))] # 1)

\* The steps that move a job or a call.
LEMMA MovingSteps ==
  ASSUME TypeOK, [Next]_vars
  PROVE  \/ UNCHANGED <<jobs, status, stack>>
         \/ \E t \in Workers \cup Clients, c \in Calls : Post(t, c)
         \/ \E t \in Workers : /\ Help(t) \/ TakeFront(t)
                               /\ \E k \in DOMAIN jobs : Take(t, k) /\ jobs[k] \in Jobs
         \/ \E t \in Workers \cup Clients : Pops(t) /\ UNCHANGED jobs
         \/ \E t \in Workers : Finish(t) /\ UNCHANGED stack /\ UNCHANGED jobs
<1> DEFINE Goal == \/ UNCHANGED <<jobs, status, stack>>
                   \/ \E t \in Workers \cup Clients, c \in Calls : Post(t, c)
                   \/ \E t \in Workers : /\ Help(t) \/ TakeFront(t)
                                         /\ \E k \in DOMAIN jobs : Take(t, k) /\ jobs[k] \in Jobs
                   \/ \E t \in Workers \cup Clients : Pops(t) /\ UNCHANGED jobs
                   \/ \E t \in Workers : Finish(t) /\ UNCHANGED stack /\ UNCHANGED jobs
<1>1. ASSUME \/ \E w \in Workers : StartWorker(w)
             \/ StartFails \/ Destroy \/ OwnerStep \/ Terminated \/ UNCHANGED vars
      PROVE  Goal
  BY <1>1 DEF StartWorker, StartFails, Destroy, OwnerStep, Announce, Join, Terminated,
              allButPc, queueVars, logVars, vars
<1>2. ASSUME NEW t \in Workers \cup Clients, NEW c \in Calls, Makes(t, c)
      PROVE  Goal
  BY <1>2 DEF Makes, CallEmpty, CallRejected, queueVars
<1>3. ASSUME NEW t \in Workers \cup Clients, Step(t) \/ SpuriousWakeup(t)
      PROVE  Goal
  <2>1. t \in Threads /\ t \notin Workers => pc[t] \in ClientPlaces
    BY DEF TypeOK, Threads, PlacesOf
  <2>2. CASE Help(t) \/ TakeFront(t)
    <3>1. t \in Workers
      BY <2>1, <2>2 DEF Help, TakeFront, At, ClientPlaces, Threads
    <3> QED
      BY <2>2, <3>1, TakesOne
  <2>3. CASE Collect(t) \/ NotifyReady(t)
    BY <2>3 DEF Pops, Collect, NotifyReady, queueVars
  <2>4. CASE Finish(t)
    <3>1. t \in Workers
      BY <2>1, <2>4 DEF Finish, At, ClientPlaces, Threads
    <3>2. UNCHANGED jobs
      BY <2>4 DEF Finish, queueVars
    <3>3. CASE remaining[Group(Top(t))] = 1
      BY <2>4, <3>1, <3>2, <3>3 DEF Finish
    <3>4. CASE remaining[Group(Top(t))] # 1
      BY <2>4, <3>1, <3>2, <3>4 DEF Pops
    <3> QED
      BY <3>3, <3>4
  <2>5. CASE \/ NotifyPosted(t) \/ Loop(t) \/ HelpFindsNothing(t) \/ Exit(t) \/ Resume(t)
             \/ Doze(t) \/ Sleep(t) \/ Completed(t) \/ DozeComplete(t) \/ SleepComplete(t)
             \/ EndTask(t) \/ NotifyComplete(t) \/ SpuriousWakeup(t)
    BY <2>5
    DEF NotifyPosted, Loop, HelpFindsNothing, Exit, Resume, Doze, Sleep, Completed, DozeComplete,
        SleepComplete, EndTask, NotifyComplete, SpuriousWakeup, allButPc, queueVars, logVars
  <2> QED
    BY <1>3, <2>2, <2>3, <2>4, <2>5 DEF Step
<1> QED
  BY <1>1, <1>2, <1>3 DEF Next

\* What goes off a stack: a call that is over, or a job that has been counted off.
LEMMA PopsTop ==
  ASSUME TypeOK, TypeOK', StacksMatchPlaces, Places, Counts, NEW t \in Workers \cup Clients, Pops(t)
  PROVE  /\ t \in Threads /\ stack[t] # <<>>
         /\ stack' = [stack EXCEPT ![t] = Front(@)]
         /\ Top(t) \in Jobs => status'[Top(t)] \in {"ok", "threw"}
         /\ \A j \in Jobs \ {Top(t)} : status'[j] = status[j]
<1>1. t \in Threads
  BY DEF Threads
<1>2. CASE Collect(t)
  <2>1. stack[t] # <<>> /\ Top(t) \in Calls
    BY <1>1, <1>2, CollectFacts
  <2> QED
    BY <1>1, <1>2, <2>1, JobFacts DEF Collect
<1>3. CASE NotifyReady(t)
  <2>1. pc[t] \in Notifies /\ pc[t] \in PlacesOf(t)
    BY <1>1, <1>3 DEF NotifyReady, At, Notifies, TypeOK
  <2>2. t \in Workers
    BY <1>3, <2>1 DEF NotifyReady, At, PlacesOf, ClientPlaces
  <2>3. stack[t] # <<>> /\ Top(t) \in Jobs
    BY <2>1, <2>2 DEF StacksMatchPlaces, WorkerMatches, InJob
  <2>4. status[Top(t)] \in {"ok", "threw"}
    BY <1>1, <2>1, <2>3, TopFacts DEF Places, StackedAreLive
  <2> QED
    BY <1>1, <1>3, <2>3, <2>4 DEF NotifyReady, logVars
<1>4. CASE Finish(t) /\ remaining[Group(Top(t))] # 1
  <2>1. /\ stack[t] # <<>> /\ Top(t) \in Jobs
        /\ status' = [status EXCEPT ![Top(t)] = IF taskError[t] THEN "threw" ELSE "ok"]
    BY <1>1, <1>4, FinishFacts
  <2>2. stack' = [stack EXCEPT ![t] = Front(@)]
    BY <1>4 DEF Finish
  <2>3. status'[Top(t)] \in {"ok", "threw"} /\ \A j \in Jobs \ {Top(t)} : status'[j] = status[j]
    BY <2>1 DEF TypeOK
  <2> QED
    BY <1>1, <2>1, <2>2, <2>3
<1> QED
  BY <1>2, <1>3, <1>4 DEF Pops

LEMMA LocatedStep ==
  ASSUME TypeOK, TypeOK', StacksMatchPlaces, Places, Counts, Located, [Next]_vars
  PROVE  Located'
<1>1. Workers \subseteq Threads
  BY DEF Threads
<1>2. CASE UNCHANGED <<jobs, status, stack>>
  BY <1>2 DEF Located, OnStack
<1>3. ASSUME NEW t \in Workers \cup Clients, NEW c \in Calls, Post(t, c)
      PROVE  Located'
  <2>1. t \in Threads /\ c \in Calls \cup Jobs
    BY DEF Threads
  <2>2. stack' = [stack EXCEPT ![t] = Append(@, c)]
    BY <1>3 DEF Post
  <2> DEFINE n   == TaskCount[c]
             new == [i \in 1 .. n |-> <<c, i - 1>>]
  <2>3. n \in Nat /\ new \in Seq(Jobs) /\ jobs \in Seq(Jobs)
    <3>1. n \in Nat
      BY ThreadPoolAssumption
    <3>2. new \in Seq(Jobs)
      BY <3>1, JobFacts
    <3> QED
      BY <3>1, <3>2 DEF TypeOK
  <2>4. Len(new) = n /\ \A i \in 1 .. n : new[i] = <<c, i - 1>>
    BY <2>3
  <2>5. jobs' = jobs \o new
    BY <1>3 DEF Post
  <2> HIDE DEF n, new
  <2>6. /\ Len(jobs) \in Nat /\ DOMAIN jobs = 1 .. Len(jobs)
        /\ DOMAIN jobs' = 1 .. Len(jobs) + n
        /\ \A i \in 1 .. Len(jobs) + n :
             jobs'[i] = IF i <= Len(jobs) THEN jobs[i] ELSE new[i - Len(jobs)]
    <3>1. /\ jobs' \in Seq(Jobs) /\ Len(jobs') = Len(jobs) + Len(new)
          /\ \A i \in 1 .. Len(jobs) + Len(new) :
               jobs'[i] = IF i <= Len(jobs) THEN jobs[i] ELSE new[i - Len(jobs)]
      BY <2>3, <2>5, ConcatFacts
    <3>2. DOMAIN jobs' = 1 .. Len(jobs') /\ Len(jobs) \in Nat /\ DOMAIN jobs = 1 .. Len(jobs)
      BY <2>3, <3>1
    <3> QED
      BY <2>4, <3>1, <3>2
  <2>7. ASSUME NEW j \in Jobs, status'[j] = "queued"
        PROVE  \E k \in DOMAIN jobs' : jobs'[k] = j
    <3>1. CASE Group(j) = c
      <4>1. j \in JobsOf(c)
        BY <3>1, JobFacts
      <4>2. PICK i \in 0 .. n - 1 : j = <<c, i>>
        BY <4>1 DEF JobsOf, n
      <4>3. PICK m \in 1 .. n : m = i + 1
        BY <2>3
      <4>4. new[m] = j
        BY <2>3, <2>4, <4>2, <4>3
      <4>5. PICK k \in 1 .. Len(jobs) + n : k = Len(jobs) + m
        BY <2>3, <2>6
      <4>6. ~(k <= Len(jobs)) /\ k - Len(jobs) = m
        BY <2>3, <2>6, <4>5
      <4> QED
        BY <2>6, <4>4, <4>6
    <3>2. CASE Group(j) # c
      <4>1. status[j] = "queued"
        BY <1>3, <2>7, <3>2 DEF Post
      <4>2. PICK k \in 1 .. Len(jobs) : jobs[k] = j
        BY <2>6, <4>1 DEF Located
      <4>3. k \in 1 .. Len(jobs) + n /\ k <= Len(jobs)
        BY <2>3, <2>6
      <4> QED
        BY <2>6, <4>2, <4>3
    <3> QED
      BY <3>1, <3>2
  <2>8. ASSUME NEW j \in Jobs, status'[j] = "running"
        PROVE  \E u \in Workers : OnStack(j, u)'
    <3>1. status[j] = "running"
      BY <1>3, <2>8 DEF Post
    <3>2. PICK u \in Workers : OnStack(j, u)
      BY <3>1 DEF Located
    <3> QED
      BY <1>1, <2>1, <2>2, <3>2, PushKeeps
  <2> QED
    BY <2>7, <2>8 DEF Located
<1>4. ASSUME NEW t \in Workers, NEW k \in DOMAIN jobs, Take(t, k), jobs[k] \in Jobs
      PROVE  Located'
  <2>1. PICK j \in Jobs : j = jobs[k]
    BY <1>4
  <2>2. t \in Threads /\ j \in Calls \cup Jobs /\ stack' = [stack EXCEPT ![t] = Append(@, j)]
    BY <1>1, <1>4, <2>1 DEF Take
  <2>3. \A x \in Jobs : status'[x] = IF x = j THEN "running" ELSE status[x]
    BY <1>4, <2>1 DEF Take, TypeOK
  <2>4. /\ jobs \in Seq(Jobs) /\ Len(jobs) \in Nat /\ k \in 1 .. Len(jobs)
        /\ DOMAIN jobs = 1 .. Len(jobs) /\ DOMAIN jobs' = 1 .. Len(jobs) - 1
        /\ \A i \in 1 .. Len(jobs) - 1 : jobs'[i] = jobs[IF i < k THEN i ELSE i + 1]
    <3>1. jobs \in Seq(Jobs)
      BY DEF TypeOK
    <3>2. k \in 1 .. Len(jobs) /\ DOMAIN jobs = 1 .. Len(jobs) /\ Len(jobs) \in Nat
      BY <3>1
    <3>3. jobs' = Erase(jobs, k)
      BY <1>4 DEF Take
    <3>4. /\ jobs' \in Seq(Jobs) /\ Len(jobs') = Len(jobs) - 1
          /\ \A i \in 1 .. Len(jobs) - 1 : jobs'[i] = jobs[IF i < k THEN i ELSE i + 1]
      BY <3>1, <3>2, <3>3, EraseFacts
    <3>5. DOMAIN jobs' = 1 .. Len(jobs')
      BY <3>4
    <3> QED
      BY <3>1, <3>2, <3>4, <3>5
  <2>5. ASSUME NEW x \in Jobs, status'[x] = "queued"
        PROVE  \E i \in DOMAIN jobs' : jobs'[i] = x
    <3>1. status[x] = "queued" /\ x # j
      BY <2>3, <2>5
    <3>2. PICK m \in 1 .. Len(jobs) : jobs[m] = x
      BY <2>4, <3>1 DEF Located
    <3>3. m # k
      BY <2>1, <3>1, <3>2
    <3>4. PICK i \in 1 .. Len(jobs) - 1 : m = IF i < k THEN i ELSE i + 1
      <4>1. CASE m < k
        BY <2>4, <4>1
      <4>2. CASE m > k
        <5>1. m - 1 \in 1 .. Len(jobs) - 1 /\ ~(m - 1 < k) /\ m = (m - 1) + 1
          BY <2>4, <4>2
        <5> QED
          BY <5>1
      <4> QED
        BY <2>4, <3>3, <4>1, <4>2
    <3> QED
      BY <2>4, <3>2, <3>4
  <2>6. ASSUME NEW x \in Jobs, status'[x] = "running"
        PROVE  \E u \in Workers : OnStack(x, u)'
    <3>1. CASE x = j
      <4>1. /\ Len(stack[t]) \in Nat /\ DOMAIN stack'[t] = 1 .. Len(stack[t]) + 1
            /\ stack'[t][Len(stack[t]) + 1] = x
        BY <2>2, <3>1, PushStack
      <4>2. Len(stack[t]) + 1 \in DOMAIN stack'[t]
        BY <4>1
      <4> QED
        BY <4>1, <4>2 DEF OnStack
    <3>2. CASE x # j
      <4>1. status[x] = "running"
        BY <2>3, <2>6, <3>2
      <4>2. PICK u \in Workers : OnStack(x, u)
        BY <4>1 DEF Located
      <4> QED
        BY <1>1, <2>2, <4>2, PushKeeps
    <3> QED
      BY <3>1, <3>2
  <2> QED
    BY <2>5, <2>6 DEF Located
<1>5. ASSUME NEW t \in Workers \cup Clients, Pops(t), UNCHANGED jobs
      PROVE  Located'
  <2>1. /\ t \in Threads /\ stack[t] # <<>>
        /\ stack' = [stack EXCEPT ![t] = Front(@)]
        /\ Top(t) \in Jobs => status'[Top(t)] \in {"ok", "threw"}
        /\ \A j \in Jobs \ {Top(t)} : status'[j] = status[j]
    BY <1>5, PopsTop
  <2>2. ASSUME NEW x \in Jobs, status'[x] = "running"
        PROVE  \E u \in Workers : OnStack(x, u)'
    <3>1. x # Top(t) /\ status[x] = "running"
      BY <2>1, <2>2
    <3>2. PICK u \in Workers : OnStack(x, u)
      BY <3>1 DEF Located
    <3> QED
      BY <1>1, <2>1, <3>1, <3>2, PopKeeps
  <2>3. \A x \in Jobs : status'[x] = "queued" => status[x] = "queued"
    BY <2>1
  <2> QED
    BY <1>5, <2>2, <2>3 DEF Located
<1>6. ASSUME NEW t \in Workers, Finish(t), UNCHANGED stack, UNCHANGED jobs
      PROVE  Located'
  <2>1. status' = [status EXCEPT ![Top(t)] = IF taskError[t] THEN "threw" ELSE "ok"]
    BY <1>1, <1>6, FinishFacts
  <2>2. \A x \in Jobs : status'[x] \in {"queued", "running"} => status'[x] = status[x]
    BY <2>1 DEF TypeOK
  <2> QED
    BY <1>6, <2>2 DEF Located, OnStack
<1> QED
  BY <1>2, <1>3, <1>4, <1>5, <1>6, MovingSteps

-----------------------------------------------------------------------------
(* The life of the pool, exceptions in flight, and what is buried under what. *)

LEMMA LifetimeStep ==
  ASSUME TypeOK, TypeOK', StacksMatchPlaces, StoppingMatchesOwner, Places, Counts, Lifetime,
         [Next]_vars
  PROVE  Lifetime'
<1> USE DEF At, Goto
<1>1. /\ Owner \in Threads /\ Workers \subseteq Threads /\ Clients \subseteq Threads
      /\ Owner \notin Workers \cup Clients /\ Workers \cap Clients = {}
      /\ pc[Owner] \in OwnerPlaces
  BY ThreadPoolAssumption DEF Threads, TypeOK, PlacesOf
<1>2. ASSUME NEW t \in Threads, NEW i \in DOMAIN stack[t]
      PROVE  \E c \in Calls : call[c] # "none"
  <2>1. stack[t][i] \in Calls \cup Jobs
    BY DEF TypeOK
  <2>2. CASE stack[t][i] \in Calls
    BY <2>2 DEF Places, StackedAreLive
  <2>3. CASE stack[t][i] \in Jobs
    <3>1. PICK j \in Jobs : j = stack[t][i]
      BY <2>3
    <3>2. status[j] \in {"ok", "threw", "running"}
      BY <3>1 DEF Places, StackedAreLive
    <3>3. Group(j) \in Calls /\ j \in JobsOf(Group(j))
      BY JobFacts
    <3> QED
      BY <3>2, <3>3 DEF Counts, CallsKnowJobs
  <2> QED
    BY <2>1, <2>2, <2>3
<1>3. ASSUME NEW t \in Threads, stack[t] # <<>>
      PROVE  \A w \in Workers : pc[w] # "unborn"
  BY <1>2, <1>3, TopFacts DEF Lifetime
<1>4. ASSUME NEW w \in Workers, StartWorker(w)
      PROVE  Lifetime'
  <2>1. UNCHANGED <<call, stopping, jobs>> /\ pc[Owner] = "construct"
    BY <1>4 DEF StartWorker, allButPc, queueVars, logVars
  <2>2. /\ pc'[w] = "wait"
        /\ pc'[Owner] = IF \E u \in Workers \ {w} : pc[u] = "unborn" THEN "construct" ELSE "alive"
        /\ \A u \in Threads \ {w, Owner} : pc'[u] = pc[u]
    BY <1>1, <1>4 DEF StartWorker, TypeOK
  <2> QED
    BY <1>1, <2>1, <2>2 DEF Lifetime
<1>5. ASSUME StartFails \/ Destroy
      PROVE  Lifetime'
  <2>1. UNCHANGED <<call, jobs>> /\ stopping' = TRUE /\ pc[Owner] \in {"construct", "alive"}
    BY <1>5 DEF StartFails, Destroy, logVars
  <2>2. pc'[Owner] = "announce" /\ \A u \in Threads \ {Owner} : pc'[u] = pc[u]
    BY <1>1, <1>5 DEF StartFails, Destroy, TypeOK
  <2>3. \A t \in Clients : pc[t] # "posted"
    <3>1. CASE Destroy
      BY <3>1 DEF Destroy
    <3>2. CASE StartFails
      <4>1. \E w \in Workers : pc[w] = "unborn"
        BY <3>2 DEF StartFails, Lifetime
      <4>2. \A t \in Threads : stack[t] = <<>>
        BY <1>3, <4>1
      <4> QED
        BY <1>1, <4>2 DEF StacksMatchPlaces, ClientMatches
    <3> QED
      BY <1>5, <3>1, <3>2
  <2> QED
    BY <1>1, <2>1, <2>2, <2>3 DEF Lifetime
<1>6. CASE Announce
  <2>1. UNCHANGED <<call, stopping, jobs>>
    BY <1>6 DEF Announce, allButPc, queueVars, logVars
  <2>2. /\ pc'[Owner] = "join"
        /\ \A u \in Threads \ {Owner} : pc'[u] = IF pc[u] = "asleep" THEN "wait" ELSE pc[u]
    BY <1>1, <1>6 DEF Announce, WakeReady
  <2> QED
    BY <1>1, <2>1, <2>2 DEF Lifetime
<1>7. CASE Join
  <2>1. UNCHANGED <<call, stopping, jobs>>
    BY <1>7 DEF Join, allButPc, queueVars, logVars
  <2>2. /\ pc'[Owner] = "gone" /\ \A u \in Threads \ {Owner} : pc'[u] = pc[u]
        /\ \A w \in Workers : pc[w] \in {"unborn", "exited"}
    BY <1>1, <1>7 DEF Join, TypeOK
  <2> QED
    BY <1>1, <2>1, <2>2 DEF Lifetime
<1>8. ASSUME NEW t \in Workers \cup Clients, NEW c \in Calls, Makes(t, c)
      PROVE  Lifetime'
  <2>1. Others(t) /\ t \in Threads /\ Begins(t, c)
    BY <1>1, <1>8, MakesOthers DEF Makes, CallEmpty, CallRejected, Post
  <2>2. \A w \in Workers : pc[w] # "unborn"
    <3>1. CASE t \in Clients
      BY <2>1, <3>1 DEF Begins, Lifetime
    <3>2. CASE t \in Workers
      BY <1>3, <2>1, <3>2 DEF Begins, StacksMatchPlaces, WorkerMatches, InJob
    <3> QED
      BY <3>1, <3>2
  <2>3. /\ UNCHANGED stopping /\ pc[t] = "body" /\ pc'[t] \in {"body", "finish", "posted"}
        /\ pc'[t] = "posted" => ~stopping
        /\ UNCHANGED jobs \/ ~stopping
    BY ZenonT(30), <1>8, <2>1 DEF Makes, CallEmpty, CallRejected, Post, Begins, Accepting, queueVars, TypeOK
  <2>4. /\ pc'[Owner] = pc[Owner]
        /\ \A u \in Threads : pc'[u] \in {"unborn", "exited"} <=> pc[u] \in {"unborn", "exited"}
        /\ \A u \in Threads : pc'[u] = "unborn" <=> pc[u] = "unborn"
        /\ \A u \in Threads : pc'[u] = "posted" => pc[u] = "posted" \/ ~stopping
    BY <1>1, <2>1, <2>3 DEF Others, OwnerPlaces
  <2>5. stopping => \A u \in Clients : pc'[u] # "posted"
    BY <1>1, <2>4 DEF Lifetime
  <2>6. \A w \in Workers : pc'[w] = "exited" => stopping /\ jobs = <<>>
    BY <1>1, <2>2, <2>4 DEF Lifetime
  <2> QED
    BY <1>1, <2>2, <2>3, <2>4, <2>5, <2>6 DEF Lifetime
<1>9. ASSUME NEW t \in Workers \cup Clients, Step(t) \/ SpuriousWakeup(t)
      PROVE  Lifetime'
  <2>1. Others(t) /\ t \in Threads /\ t # Owner
    BY <1>1, <1>9, StepOthers
  <2>2. /\ pc[t] \notin {"unborn", "exited"}
        /\ pc'[t] \notin {"unborn", "posted"}
        /\ pc'[t] = "exited" => stopping /\ jobs = <<>>
    <3>1. CASE NotifyPosted(t)
      BY <2>1, <3>1 DEF NotifyPosted, WakeReady
    <3>2. CASE NotifyReady(t)
      BY <2>1, <3>2 DEF NotifyReady, WakeReady, AfterJob
    <3>3. CASE NotifyComplete(t)
      BY <2>1, <3>3 DEF NotifyComplete
    <3>4. CASE Exit(t)
      BY <2>1, <3>4 DEF Exit, TypeOK
    <3>5. CASE Loop(t) \/ HelpFindsNothing(t) \/ Resume(t) \/ Completed(t)
      BY <2>1, <3>5 DEF Loop, HelpFindsNothing, Resume, Completed, TypeOK
    <3>6. CASE Help(t) \/ TakeFront(t)
      BY <2>1, <3>6 DEF Help, TakeFront, Take, TypeOK
    <3>7. CASE Doze(t) \/ Sleep(t) \/ DozeComplete(t) \/ SleepComplete(t) \/ SpuriousWakeup(t)
      BY <2>1, <3>7 DEF Doze, Sleep, DozeComplete, SleepComplete, SpuriousWakeup, TypeOK
    <3>8. CASE Collect(t) \/ EndTask(t) \/ Finish(t)
      <4>1. pc[t] \in {"collect", "body", "finish"}
        BY <3>8 DEF Collect, EndTask, Finish
      <4>2. \E place \in {"finish", "body", "notifyComplete", "wait", "loop"} : Goto(t, place)
        <5>1. CASE Collect(t) \/ EndTask(t)
          BY <5>1 DEF Collect, EndTask
        <5>2. CASE Finish(t)
          BY <5>2 DEF Finish, AfterJob
        <5> QED
          BY <3>8, <5>1, <5>2
      <4> QED
        BY <2>1, <4>1, <4>2 DEF TypeOK
    <3> QED
      BY <1>9, <3>1, <3>2, <3>3, <3>4, <3>5, <3>6, <3>7, <3>8 DEF Step
  <2>3. UNCHANGED stopping /\ (UNCHANGED jobs \/ jobs # <<>>)
    <3>1. CASE Help(t) \/ TakeFront(t)
      BY <3>1, TakesOne DEF Help, TakeFront
    <3>2. CASE ~(Help(t) \/ TakeFront(t))
      BY <1>9, <3>2
      DEF Step, NotifyPosted, Loop, HelpFindsNothing, Exit, Resume, Doze, Sleep, Completed,
          DozeComplete, SleepComplete, Collect, EndTask, Finish, NotifyComplete, NotifyReady,
          SpuriousWakeup, allButPc, queueVars
    <3> QED
      BY <3>1, <3>2
  <2>4. UNCHANGED call \/ \A w \in Workers : pc[w] # "unborn"
    <3>1. CASE Collect(t)
      BY <1>3, <2>1, <3>1, CollectFacts
    <3>2. CASE ~Collect(t)
      BY <1>9, <3>2
      DEF Step, NotifyPosted, Loop, Help, HelpFindsNothing, TakeFront, Exit, Resume, Doze, Sleep,
          Completed, DozeComplete, SleepComplete, EndTask, Finish, NotifyComplete, NotifyReady,
          SpuriousWakeup, allButPc, logVars
    <3> QED
      BY <3>1, <3>2
  <2>5. /\ pc'[Owner] = pc[Owner]
        /\ \A u \in Threads : pc'[u] = "unborn" <=> pc[u] = "unborn"
        /\ \A u \in Threads : pc[u] = "exited" => pc'[u] = "exited"
        /\ \A u \in Threads : pc'[u] = "exited" => pc[u] = "exited" \/ (stopping /\ jobs = <<>>)
        /\ \A u \in Threads : pc'[u] = "posted" => pc[u] = "posted"
    BY <1>1, <2>1, <2>2 DEF Others, OwnerPlaces
  <2>6. \A w \in Workers : pc'[w] = "exited" => stopping /\ jobs = <<>>
    BY <1>1, <2>5 DEF Lifetime
  <2> QED
    BY <1>1, <2>3, <2>4, <2>5, <2>6 DEF Lifetime
<1>10. CASE UNCHANGED vars
  BY <1>10 DEF vars, Lifetime
<1> QED
  BY <1>4, <1>5, <1>6, <1>7, <1>8, <1>9, <1>10 DEF Next, OwnerStep, Terminated

LEMMA ErrorsStep ==
  ASSUME TypeOK, TypeOK', StacksMatchPlaces, StoppingMatchesOwner, ErrorsInFlight, [Next]_vars
  PROVE  ErrorsInFlight'
<1> USE DEF At, Goto
<1>1. /\ Owner \in Threads /\ Workers \subseteq Threads /\ Clients \subseteq Threads
      /\ Owner \notin Workers /\ Workers \cap Clients = {}
  BY ThreadPoolAssumption DEF Threads
<1>2. ASSUME NEW t \in Threads, Others(t),
             taskError'[t] => t \in Workers /\ pc'[t] = "finish"
      PROVE  ErrorsInFlight'
  BY <1>2 DEF Others, ErrorsInFlight
<1>3. ASSUME NEW w \in Workers, StartWorker(w)
      PROVE  ErrorsInFlight'
  BY <1>1, <1>3 DEF StartWorker, allButPc, ErrorsInFlight, TypeOK
<1>4. ASSUME StartFails \/ Destroy \/ Announce \/ Join
      PROVE  ErrorsInFlight'
  <2>1. UNCHANGED <<taskError, stack>> /\ ~taskError[Owner]
    BY <1>1, <1>4 DEF StartFails, Destroy, Announce, Join, allButPc, ErrorsInFlight
  <2>2. \E place : Goto(Owner, place) \/ WakeReady(Owner, place)
    BY <1>4 DEF StartFails, Destroy, Announce, Join
  <2>3. Others(Owner)
    BY <1>1, <2>1, <2>2, GotoOthers DEF Others
  <2> QED
    BY <1>1, <1>2, <2>1, <2>3
<1>5. ASSUME NEW t \in Workers \cup Clients, NEW c \in Calls, Makes(t, c)
      PROVE  ErrorsInFlight'
  <2>1. Others(t) /\ t \in Threads /\ pc[t] = "body"
    BY <1>1, <1>5, MakesOthers DEF Makes, CallEmpty, CallRejected, Post, Begins
  <2>2. CASE CallRejected(t, c)
    <3>1. t \in Workers
      BY <2>2 DEF CallRejected, Begins, Accepting, StoppingMatchesOwner
    <3>2. pc'[t] = "finish"
      BY <2>1, <2>2 DEF CallRejected, TypeOK
    <3> QED
      BY <1>2, <2>1, <3>1, <3>2
  <2>3. CASE CallEmpty(t, c) \/ Post(t, c)
    <3>1. ~taskError'[t]
      BY <2>1, <2>3 DEF CallEmpty, Post, ErrorsInFlight
    <3> QED
      BY <1>2, <2>1, <3>1
  <2> QED
    BY <1>5, <2>2, <2>3 DEF Makes
<1>6. ASSUME NEW t \in Workers \cup Clients, Step(t) \/ SpuriousWakeup(t)
      PROVE  ErrorsInFlight'
  <2>1. Others(t) /\ t \in Threads
    BY <1>1, <1>6, StepOthers
  <2>2. CASE Collect(t)
    <3>1. taskError'[t] => t \in Workers /\ pc'[t] = "finish"
      BY <2>1, <2>2 DEF Collect, TypeOK
    <3> QED
      BY <1>2, <2>1, <3>1
  <2>3. CASE EndTask(t)
    <3>1. t \in Workers /\ pc'[t] = "finish"
      BY <2>1, <2>3 DEF EndTask, TypeOK
    <3> QED
      BY <1>2, <2>1, <3>1
  <2>4. CASE Finish(t)
    <3>1. ~taskError'[t]
      BY <2>1, <2>4 DEF Finish, TypeOK
    <3> QED
      BY <1>2, <2>1, <3>1
  <2>5. CASE ~(Collect(t) \/ EndTask(t) \/ Finish(t))
    <3>1. UNCHANGED taskError /\ pc[t] # "finish"
      BY <1>6, <2>5
      DEF Step, NotifyPosted, Loop, Help, HelpFindsNothing, TakeFront, Exit, Resume, Doze, Sleep,
          Completed, DozeComplete, SleepComplete, NotifyComplete, NotifyReady, SpuriousWakeup,
          allButPc
    <3>2. ~taskError'[t]
      BY <2>1, <3>1 DEF ErrorsInFlight
    <3> QED
      BY <1>2, <2>1, <3>2
  <2> QED
    BY <2>2, <2>3, <2>4, <2>5
<1>7. CASE UNCHANGED vars
  BY <1>7 DEF vars, ErrorsInFlight
<1> QED
  BY <1>3, <1>4, <1>5, <1>6, <1>7 DEF Next, OwnerStep, Terminated

\* A call that has just been made buries the jobs of others, but none of its
\* own jobs is running yet: in any set of calls that has it, it is the one.
LEMMA BuriedStep ==
  ASSUME TypeOK, TypeOK', StacksMatchPlaces, Places, Counts, BuriedInOrder, [Next]_vars
  PROVE  BuriedInOrder'
<1>1. Workers \subseteq Threads /\ Clients \subseteq Threads
  BY DEF Threads
<1>2. ASSUME \A c, d \in Calls : Buries(d, c)' => Buries(d, c)
      PROVE  BuriedInOrder'
  BY <1>2 DEF BuriedInOrder
<1>3. ASSUME UNCHANGED stack
      PROVE  BuriedInOrder'
  BY <1>2, <1>3 DEF Buries
<1>4. ASSUME NEW t \in Workers \cup Clients, NEW e \in Calls, Post(t, e)
      PROVE  BuriedInOrder'
  <2>1. t \in Threads /\ e \in Calls \cup Jobs /\ stack' = [stack EXCEPT ![t] = Append(@, e)]
    BY <1>1, <1>4 DEF Post
  <2>2. \A u \in Threads : \A i \in DOMAIN stack[u] : stack[u][i] \notin JobsOf(e)
    BY <1>4, JobFacts DEF Post, Begins, Counts, CallsKnowJobs, Places, StackedAreLive
  <2>3. ASSUME NEW c \in Calls, NEW d \in Calls, Buries(d, c)'
        PROVE  c # e /\ (d = e \/ Buries(d, c))
    <3>1. PICK u \in Workers : \E i, k \in DOMAIN stack'[u] :
            i < k /\ stack'[u][i] \in JobsOf(c) /\ stack'[u][k] = d
      BY <2>3 DEF Buries
    <3>2. PICK i \in DOMAIN stack'[u], k \in DOMAIN stack'[u] :
            i < k /\ stack'[u][i] \in JobsOf(c) /\ stack'[u][k] = d
      BY <3>1
    <3>3. CASE u = t
      <4>1. /\ Len(stack[t]) \in Nat /\ DOMAIN stack[t] = 1 .. Len(stack[t])
            /\ DOMAIN stack'[t] = 1 .. Len(stack[t]) + 1
            /\ \A m \in 1 .. Len(stack[t]) : stack'[t][m] = stack[t][m]
            /\ stack'[t][Len(stack[t]) + 1] = e
        BY <2>1, PushStack
      <4>2. /\ i \in 1 .. Len(stack[t])
            /\ k \in 1 .. Len(stack[t]) \/ k = Len(stack[t]) + 1
        BY <3>2, <3>3, <4>1
      <4>3. stack[t][i] \in JobsOf(c) /\ i \in DOMAIN stack[t]
        BY <3>2, <3>3, <4>1, <4>2
      <4>4. c # e
        BY <2>1, <2>2, <4>3
      <4>5. CASE k \in 1 .. Len(stack[t])
        <5>1. k \in DOMAIN stack[t] /\ stack[t][k] = d
          BY <3>2, <3>3, <4>1, <4>5
        <5> QED
          BY <3>2, <3>3, <4>3, <4>4, <5>1 DEF Buries
      <4>6. CASE k = Len(stack[t]) + 1
        BY <3>2, <3>3, <4>1, <4>4, <4>6
      <4> QED
        BY <4>2, <4>5, <4>6
    <3>4. CASE u # t
      <4>1. stack'[u] = stack[u]
        BY <1>1, <2>1, <3>4, PushStack
      <4>2. c # e
        BY <1>1, <2>2, <3>2, <4>1
      <4> QED
        BY <3>2, <4>1, <4>2 DEF Buries
    <3> QED
      BY <3>3, <3>4
  <2>4. ASSUME NEW X \in (SUBSET Calls) \ {{}}
        PROVE  \E c \in X : \A d \in X : ~Buries(d, c)'
    <3>1. CASE e \in X
      BY <2>3, <3>1
    <3>2. CASE e \notin X
      <4>1. PICK c \in X : \A d \in X : ~Buries(d, c)
        BY DEF BuriedInOrder
      <4> QED
        BY <2>3, <3>2, <4>1
    <3> QED
      BY <3>1, <3>2
  <2> QED
    BY <2>4 DEF BuriedInOrder
<1>5. ASSUME NEW t \in Workers, NEW k \in DOMAIN jobs, Take(t, k), jobs[k] \in Jobs
      PROVE  BuriedInOrder'
  <2>1. /\ t \in Threads /\ jobs[k] \in Calls \cup Jobs
        /\ stack' = [stack EXCEPT ![t] = Append(@, jobs[k])]
    BY <1>1, <1>5 DEF Take
  <2>2. PICK j \in Jobs : j = jobs[k]
    BY <1>5
  <2>3. ASSUME NEW c \in Calls, NEW d \in Calls, Buries(d, c)'
        PROVE  Buries(d, c)
    <3>1. PICK u \in Workers : \E i, m \in DOMAIN stack'[u] :
            i < m /\ stack'[u][i] \in JobsOf(c) /\ stack'[u][m] = d
      BY <2>3 DEF Buries
    <3>2. PICK i \in DOMAIN stack'[u], m \in DOMAIN stack'[u] :
            i < m /\ stack'[u][i] \in JobsOf(c) /\ stack'[u][m] = d
      BY <3>1
    <3>3. CASE u = t
      <4>1. /\ Len(stack[t]) \in Nat /\ DOMAIN stack[t] = 1 .. Len(stack[t])
            /\ DOMAIN stack'[t] = 1 .. Len(stack[t]) + 1
            /\ \A n \in 1 .. Len(stack[t]) : stack'[t][n] = stack[t][n]
            /\ stack'[t][Len(stack[t]) + 1] = j
        BY <2>1, <2>2, PushStack
      <4>2. m # Len(stack[t]) + 1
        BY <3>2, <3>3, <4>1, JobFacts
      <4>3. i \in 1 .. Len(stack[t]) /\ m \in 1 .. Len(stack[t])
        BY <3>2, <3>3, <4>1, <4>2
      <4> QED
        BY <3>2, <3>3, <4>1, <4>3 DEF Buries
    <3>4. CASE u # t
      <4>1. stack'[u] = stack[u]
        BY <1>1, <2>1, <3>4, PushStack
      <4> QED
        BY <3>2, <4>1 DEF Buries
    <3> QED
      BY <3>3, <3>4
  <2> QED
    BY <1>2, <2>3
<1>6. ASSUME NEW t \in Workers \cup Clients, Pops(t)
      PROVE  BuriedInOrder'
  <2>1. t \in Threads /\ stack[t] # <<>> /\ stack' = [stack EXCEPT ![t] = Front(@)]
    BY <1>6, PopsTop
  <2>2. ASSUME NEW u \in Threads
        PROVE  \A i \in DOMAIN stack'[u] : i \in DOMAIN stack[u] /\ stack'[u][i] = stack[u][i]
    <3>1. CASE u = t
      <4>1. /\ Len(stack[t]) \in Nat \ {0} /\ DOMAIN stack[t] = 1 .. Len(stack[t])
            /\ DOMAIN stack'[t] = 1 .. Len(stack[t]) - 1
            /\ \A i \in 1 .. Len(stack[t]) - 1 : stack'[t][i] = stack[t][i]
        BY <2>1, PopStack
      <4> QED
        BY <3>1, <4>1
    <3>2. CASE u # t
      BY <2>1, <3>2, PopStack
    <3> QED
      BY <3>1, <3>2
  <2>3. ASSUME NEW c \in Calls, NEW d \in Calls, Buries(d, c)'
        PROVE  Buries(d, c)
    BY <1>1, <2>2, <2>3 DEF Buries
  <2> QED
    BY <1>2, <2>3
<1> QED
  BY <1>3, <1>4, <1>5, <1>6, MovingSteps

-----------------------------------------------------------------------------
(* The theorems *)

LEMMA InitIInv == Init => IInv
<1> SUFFICES ASSUME Init PROVE IInv
  OBVIOUS
<1> USE DEF At
<1>1. /\ jobs = <<>> /\ stopping = FALSE /\ queueMutex = NoThread /\ spurious = 0
      /\ \A t \in Threads : stack[t] = <<>> /\ taskError[t] = FALSE
      /\ \A t \in Threads : pc[t] = IF t = Owner THEN "construct"
                                    ELSE IF t \in Workers THEN "unborn" ELSE "body"
      /\ \A c \in Calls : /\ groupMutex[c] = NoThread /\ remaining[c] = 0
                          /\ error[c] = FALSE /\ call[c] = "none"
      /\ \A j \in Jobs : status[j] = "none"
  BY DEF Init
<1>2. TypeOK
  <2>1. \A t \in Threads : pc[t] \in PlacesOf(t)
    BY <1>1, ThreadPoolAssumption
    DEF Threads, PlacesOf, WorkerPlaces, ClientPlaces, OwnerPlaces
  <2>2. pc \in [Threads -> UNION {PlacesOf(t) : t \in Threads}]
    <3>1. pc = [t \in Threads |-> pc[t]]
      BY DEF Init
    <3>2. \A t \in Threads : pc[t] \in UNION {PlacesOf(u) : u \in Threads}
      BY <2>1
    <3> QED
      BY <3>1, <3>2
  <2>3. stack \in [Threads -> Seq(Calls \cup Jobs)] /\ jobs \in Seq(Jobs)
    BY DEF Init
  <2>4. spurious \in 0 .. MaxSpurious
    BY <1>1, ThreadPoolAssumption
  <2> QED
    BY <2>1, <2>2, <2>3, <2>4 DEF Init, TypeOK
<1>3. StacksMatchPlaces /\ StoppingMatchesOwner
  <2>1. Workers \subseteq Threads /\ Clients \subseteq Threads /\ Owner \in Threads
    BY DEF Threads
  <2>2. \A t \in Workers : WorkerMatches(t)
    BY <1>1, <2>1, ThreadPoolAssumption
    DEF WorkerMatches, Alternates, Waiting, InCall, InJob, Notifies
  <2>3. \A t \in Clients : ClientMatches(t)
    BY <1>1, <2>1, ThreadPoolAssumption DEF ClientMatches
  <2> QED
    BY <1>1, <2>1, <2>2, <2>3 DEF StacksMatchPlaces, StoppingMatchesOwner
<1>4. Places
  BY <1>1 DEF Places, StackedAreLive, StackedOnce, QueuedOnce
<1>5. Counts /\ ReturnsAfterAllJobs
  <2>1. \A c \in Calls : Unfinished(c) = {}
    BY <1>1, JobFacts DEF Unfinished
  <2> QED
    BY <1>1, <2>1, JobFacts, FS_EmptySet
    DEF Counts, CallsKnowJobs, RemainingCountsUnfinished, ErrorsKept, ReturnsAfterAllJobs
<1>6. CollectsComplete /\ MutexesHeld /\ WakeupsPending /\ NoLostCompletion
  <2>1. NoThread \notin Threads /\ Workers \subseteq Threads /\ Clients \subseteq Threads
    BY ThreadPoolAssumption DEF Threads
  <2>2. \A t \in Threads : pc[t] \in {"construct", "unborn", "body"}
    BY <1>1
  <2> QED
    BY <1>1, <2>1, <2>2 DEF CollectsComplete, MutexesHeld, WakeupsPending, NoLostCompletion
<1>7. Located /\ Lifetime /\ ErrorsInFlight /\ BuriedInOrder
  <2>1. Workers \subseteq Threads /\ Clients \subseteq Threads /\ Owner \in Threads
    BY DEF Threads
  <2>2. Located /\ ErrorsInFlight
    BY <1>1 DEF Located, ErrorsInFlight
  <2>3. Lifetime
    BY <1>1, <2>1, ThreadPoolAssumption DEF Lifetime
  <2>4. \A c, d \in Calls : ~Buries(d, c)
    BY <1>1, <2>1 DEF Buries
  <2> QED
    BY <2>2, <2>3, <2>4 DEF BuriedInOrder
<1> QED
  BY <1>2, <1>3, <1>4, <1>5, <1>6, <1>7 DEF IInv

LEMMA NextIInv == IInv /\ [Next]_vars => IInv'
<1> SUFFICES ASSUME IInv, [Next]_vars PROVE IInv'
  OBVIOUS
<1> USE DEF IInv
<1>1. TypeOK'
  BY TypeStep DEF Counts
<1>2. StacksMatchPlaces' /\ StoppingMatchesOwner'
  BY <1>1, MatchStep, StoppingStep
<1>3. Places'
  BY <1>1, <1>2, PlacesStep DEF Counts
<1>4. Counts'
  BY CountsStep
<1>5. CollectsComplete' /\ ReturnsAfterAllJobs'
  BY <1>1, <1>4, CollectsStep, ReturnsStep
<1>6. MutexesHeld'
  BY <1>1, MutexesStep
<1>7. WakeupsPending' /\ NoLostCompletion'
  BY <1>1, <1>2, WakeupsStep
<1>8. Located' /\ BuriedInOrder'
  BY <1>1, LocatedStep, BuriedStep
<1>9. Lifetime' /\ ErrorsInFlight'
  BY <1>1, LifetimeStep, ErrorsStep
<1> QED
  BY <1>1, <1>2, <1>3, <1>4, <1>5, <1>6, <1>7, <1>8, <1>9

\* The inductive invariant holds in every reachable state of the pool.
THEOREM InductiveInvariant == Spec => []IInv
  BY InitIInv, NextIInv, PTL DEF Spec

\* Queue, counters, stacks and places keep their types for any number of
\* threads and calls; remaining, a size_t, is never decremented at zero
\* (Finish, lines 146-147).
THEOREM TypeCorrect == Spec => []TypeOK
<1>1. IInv => TypeOK
  BY DEF IInv
<1> QED
  BY <1>1, InductiveInvariant, PTL

\* Group::remaining counts the jobs that are queued or running, whatever the
\* workers help with and whichever tasks throw.
THEOREM CountIsExact == Spec => []RemainingCountsUnfinished
<1>1. IInv => RemainingCountsUnfinished
  BY DEF IInv, Counts
<1> QED
  BY <1>1, InductiveInvariant, PTL

\* parallel_for() returns after all its tasks have ended, and throws exactly
\* when one of them threw (lines 176-187).
THEOREM ReturnsComplete == Spec => []ReturnsAfterAllJobs
<1>1. IInv => ReturnsAfterAllJobs
  BY DEF IInv
<1> QED
  BY <1>1, InductiveInvariant, PTL

\* No worker sleeps through what it waits for: the claim of the comment at
\* lines 149-151, for any number of workers, clients and nested calls.
THEOREM NoWakeupIsLost == Spec => []NoLostWakeup
<1>1. IInv => NoLostWakeup
  <2> SUFFICES ASSUME IInv, NEW t \in Workers, pc[t] = "asleep", Ready(t)
               PROVE  \E u \in Threads : pc[u] \in {"posted", "notifyComplete", "notifyReady", "announce"}
    BY DEF NoLostWakeup, At
  <2>1. Workers \subseteq Threads /\ Owner \in Threads
    BY DEF Threads
  <2>2. WakeupsPending
    BY DEF IInv
  <2>3. CASE stopping
    BY <2>1, <2>2, <2>3 DEF WakeupsPending, At
  <2>4. CASE jobs # <<>>
    BY <2>2, <2>4 DEF WakeupsPending, At
  <2>5. CASE stack[t] # <<>> /\ remaining[Top(t)] = 0
    BY <2>1, <2>2, <2>5 DEF WakeupsPending, At, Notifies
  <2> QED
    BY <2>3, <2>4, <2>5 DEF Ready
<1> QED
  BY <1>1, InductiveInvariant, PTL

\* No client sleeps through the end of its last job: the claim of the comment
\* at lines 136-139.
THEOREM NoCompletionIsLost == Spec => []NoLostCompletion
<1>1. IInv => NoLostCompletion
  BY DEF IInv
<1> QED
  BY <1>1, InductiveInvariant, PTL

\* A job is queued once, taken once and counted off once.
THEOREM JobsAdvance == Spec => JobsOnlyAdvance
<1> DEFINE Advances(j) ==
      <<status[j], status'[j]>> \in
         {<<"none", "none">>, <<"none", "queued">>, <<"queued", "queued">>,
          <<"queued", "running">>, <<"running", "running">>,
          <<"running", "ok">>, <<"running", "threw">>,
          <<"ok", "ok">>, <<"threw", "threw">>}
<1>1. IInv /\ [Next]_vars => [\A j \in Jobs : Advances(j)]_vars
  <2> SUFFICES ASSUME IInv, [Next]_vars, NEW j \in Jobs
               PROVE  Advances(j)
    OBVIOUS
  <2>1. JobMoves(j)
    BY JobsStep DEF IInv
  <2>2. status[j] \in {"none", "queued", "running", "ok", "threw"}
    BY DEF IInv, TypeOK
  <2> QED
    BY <2>1, <2>2 DEF JobMoves
<1> QED
  BY <1>1, InductiveInvariant, PTL DEF Spec, JobsOnlyAdvance

LEMMA Drained ==
  ASSUME IInv
  PROVE  DestroyedMeansDrained
<1> USE DEF At
<1> SUFFICES ASSUME pc[Owner] = "gone"
             PROVE  /\ jobs = <<>>
                    /\ QueueMutexFree
                    /\ \A j \in Jobs : status[j] \in {"none", "ok", "threw"}
                    /\ \A t \in Workers : stack[t] = <<>>
                    /\ \A t \in Clients : pc[t] # "posted"
  BY DEF DestroyedMeansDrained
<1>1. /\ \A w \in Workers : pc[w] \in {"unborn", "exited"}
      /\ stopping
      /\ \A t \in Clients : pc[t] # "posted"
  BY DEF IInv, Lifetime, StoppingMatchesOwner
<1>2. \A w \in Workers : stack[w] = <<>>
  BY <1>1 DEF IInv, StacksMatchPlaces, WorkerMatches
<1>3. jobs = <<>>
  <2>1. CASE \E w \in Workers : pc[w] = "exited"
    BY <2>1 DEF IInv, Lifetime
  <2>2. CASE \A w \in Workers : pc[w] = "unborn"
    <3>1. \A c \in Calls : call[c] = "none"
      BY <2>2, ThreadPoolAssumption DEF IInv, Lifetime
    <3>2. \A j \in Jobs : status[j] = "none"
      BY <3>1, JobFacts DEF IInv, Counts, CallsKnowJobs
    <3>3. jobs \in Seq(Jobs) /\ \A k \in DOMAIN jobs : status[jobs[k]] = "queued"
      BY DEF IInv, TypeOK, Places, QueuedOnce
    <3>4. \A k \in 1 .. Len(jobs) : jobs[k] \in Jobs /\ status[jobs[k]] = "queued"
      BY <3>3
    <3> QED
      BY <3>2, <3>3, <3>4
  <2> QED
    BY <1>1, <2>1, <2>2
<1>4. QueueMutexFree
  <2>1. \A t \in Threads : pc[t] # "dozing"
    <3>1. \A t \in Threads : pc[t] \in PlacesOf(t)
      BY DEF IInv, TypeOK
    <3> QED
      BY <1>1, <3>1 DEF PlacesOf, ClientPlaces, OwnerPlaces
  <2>2. queueMutex \in Threads \cup {NoThread}
    BY DEF IInv, TypeOK
  <2> QED
    BY <2>1, <2>2 DEF IInv, MutexesHeld, QueueMutexFree
<1>5. \A j \in Jobs : status[j] \in {"none", "ok", "threw"}
  <2>1. \A j \in Jobs : status[j] \in {"none", "queued", "running", "ok", "threw"}
    BY DEF IInv, TypeOK
  <2>2. \A j \in Jobs : status[j] \notin {"queued", "running"}
    BY <1>2, <1>3 DEF IInv, Located, OnStack
  <2> QED
    BY <2>1, <2>2
<1> QED
  BY <1>1, <1>2, <1>3, <1>4, <1>5

LEMMA Acyclic ==
  ASSUME IInv
  PROVE  NoCircularWait
<1>1. Workers \subseteq Threads
  BY DEF Threads
<1> SUFFICES ASSUME NEW S \in (SUBSET Workers) \ {{}},
                    \A t \in S : /\ WaitsNested(t)
                                 /\ remaining[Top(t)] # 0
                                 /\ \A j \in Unfinished(Top(t)) : \E u \in S : OnStack(j, u)
             PROVE  FALSE
  BY DEF NoCircularWait
<1>2. \A t \in S : stack[t] # <<>> /\ Top(t) \in Calls
  BY DEF WaitsNested, IInv, StacksMatchPlaces, WorkerMatches, Waiting
<1> DEFINE X == {Top(t) : t \in S}
<1>3. X \in (SUBSET Calls) \ {{}}
  <2>1. X \subseteq Calls
    BY <1>2
  <2>2. PICK t \in S : TRUE
    OBVIOUS
  <2>3. Top(t) \in X
    OBVIOUS
  <2> QED
    BY <2>1, <2>3
<1>4. PICK c \in X : \A d \in X : ~Buries(d, c)
  BY <1>3 DEF IInv, BuriedInOrder
<1>5. PICK t \in S : c = Top(t)
  BY <1>4
<1>6. PICK j \in Unfinished(c) : TRUE
  <2>1. c \in Calls /\ remaining[c] # 0
    BY <1>2, <1>5
  <2>2. Cardinality(Unfinished(c)) # 0
    BY <2>1 DEF IInv, Counts, RemainingCountsUnfinished
  <2> QED
    BY <2>2, FS_EmptySet
<1>7. PICK u \in S : OnStack(j, u)
  BY <1>5
<1>8. PICK i \in DOMAIN stack[u] : stack[u][i] = j
  BY <1>7 DEF OnStack
<1>9. PICK k \in DOMAIN stack[u] : k = Len(stack[u]) /\ stack[u][k] = Top(u)
  BY <1>1, <1>2, TopFacts DEF IInv
<1>10. i < k
  <2>1. i # k
    <3>1. j \in Jobs
      BY <1>2, <1>5, JobFacts DEF Unfinished
    <3> QED
      BY <1>2, <1>8, <1>9, <3>1, JobFacts
  <2>2. i \in 1 .. Len(stack[u]) /\ k = Len(stack[u]) /\ Len(stack[u]) \in Nat
    BY <1>1, <1>2, <1>8, <1>9, TopFacts DEF IInv
  <2> QED
    BY <2>1, <2>2
<1>11. Buries(Top(u), c)
  BY <1>8, <1>9, <1>10 DEF Buries, Unfinished
<1> QED
  BY <1>4, <1>11

\* ~ThreadPool() returns when every accepted job has run, with the queue, the
\* stacks of the workers and the mutex as they were before the first call
\* (lines 72-79), whichever workers could be started and whoever called.
THEOREM DestroyedDrained == Spec => []DestroyedMeansDrained
<1>1. IInv => DestroyedMeansDrained
  BY Drained
<1> QED
  BY <1>1, InductiveInvariant, PTL

\* Helping with the jobs of other calls (lines 162-174) never makes workers
\* wait for one another, however deep the calls are nested.
THEOREM NoDeadlockAmongWorkers == Spec => []NoCircularWait
<1>1. IInv => NoCircularWait
  BY Acyclic
<1> QED
  BY <1>1, InductiveInvariant, PTL

-----------------------------------------------------------------------------
(* The refinement mapping: the call a body waits for, the jobs that fail. *)

LEMMA OneAwaited ==
  ASSUME IInv, NEW b \in Bodies, NEW c, NEW d, Awaits(b, c), Awaits(b, d)
  PROVE  c = d
<1>1. CASE b \in Clients
  BY <1>1 DEF Awaits
<1>2. CASE b \notin Clients
  <2>1. PICK t \in Workers : \E i \in 1 .. Len(stack[t]) - 1 : stack[t][i] = b /\ stack[t][i + 1] = c
    BY <1>2 DEF Awaits
  <2>2. PICK u \in Workers : \E k \in 1 .. Len(stack[u]) - 1 : stack[u][k] = b /\ stack[u][k + 1] = d
    BY <1>2 DEF Awaits
  <2>3. PICK i \in 1 .. Len(stack[t]) - 1 : stack[t][i] = b /\ stack[t][i + 1] = c
    BY <2>1
  <2>4. PICK k \in 1 .. Len(stack[u]) - 1 : stack[u][k] = b /\ stack[u][k + 1] = d
    BY <2>2
  <2>5. i \in DOMAIN stack[t] /\ k \in DOMAIN stack[u] /\ t \in Threads /\ u \in Threads
    BY DEF IInv, TypeOK, Threads
  <2>6. t = u /\ i = k
    BY <2>3, <2>4, <2>5 DEF IInv, Places, StackedOnce
  <2> QED
    BY <2>3, <2>4, <2>6
<1> QED
  BY <1>1, <1>2

\* A call is waited for by the body that made it.
LEMMA AwaitedOnce ==
  ASSUME IInv, NEW b \in Bodies, NEW d \in Bodies, NEW c \in Calls, Awaits(b, c), Awaits(d, c)
  PROVE  b = d
<1>1. ASSUME NEW x \in Bodies, Awaits(x, c)
      PROVE  \E t \in Threads, k \in Nat :
               /\ k \in DOMAIN stack[t] /\ stack[t][k] = c
               /\ IF x \in Clients THEN x = t ELSE t \in Workers /\ stack[t][k - 1] = x
  <2>1. CASE x \in Clients
    <3>1. /\ x \in Threads /\ Len(stack[x]) \in DOMAIN stack[x] /\ Len(stack[x]) \in Nat
          /\ stack[x][Len(stack[x])] = c
      BY <1>1, <2>1, TopFacts DEF Awaits, Threads, IInv
    <3> QED
      BY <2>1, <3>1
  <2>2. CASE x \notin Clients
    <3>1. PICK t \in Workers : \E i \in 1 .. Len(stack[t]) - 1 : stack[t][i] = x /\ stack[t][i + 1] = c
      BY <1>1, <2>2 DEF Awaits
    <3>2. PICK i \in 1 .. Len(stack[t]) - 1 : stack[t][i] = x /\ stack[t][i + 1] = c
      BY <3>1
    <3>3. t \in Threads /\ stack[t] \in Seq(Calls \cup Jobs)
      BY DEF Threads, IInv, TypeOK
    <3>4. PICK k \in Nat : k = i + 1 /\ k \in DOMAIN stack[t] /\ k - 1 = i
      BY <3>2, <3>3
    <3> QED
      BY <2>2, <3>2, <3>3, <3>4
  <2> QED
    BY <2>1, <2>2
<1>2. PICK t \in Threads, k \in Nat :
        /\ k \in DOMAIN stack[t] /\ stack[t][k] = c
        /\ IF b \in Clients THEN b = t ELSE t \in Workers /\ stack[t][k - 1] = b
  BY <1>1
<1>3. PICK u \in Threads, m \in Nat :
        /\ m \in DOMAIN stack[u] /\ stack[u][m] = c
        /\ IF d \in Clients THEN d = u ELSE u \in Workers /\ stack[u][m - 1] = d
  BY <1>1
<1>4. t = u /\ k = m
  BY <1>2, <1>3 DEF IInv, Places, StackedOnce
<1> QED
  BY <1>2, <1>3, <1>4, ThreadPoolAssumption

InnerFits ==
  \A b \in Bodies :
    /\ \A c \in Calls : Awaits(b, c) => Inner(b) = c
    /\ (\A c \in Calls : ~Awaits(b, c)) => Inner(b) = NoThread

LEMMA InnerIs == IInv => InnerFits
  BY OneAwaited, ThreadPoolAssumption DEF Inner, InnerFits

\* What a body waits for changes with the calls it awaits only.
LEMMA InnerSame ==
  ASSUME IInv, IInv', NEW b \in Bodies,
         \A c \in Calls : Awaits(b, c)' <=> Awaits(b, c)
  PROVE  Inner(b)' = Inner(b)
<1>1. CASE \E c \in Calls : Awaits(b, c)
  <2>1. PICK c \in Calls : Awaits(b, c)
    BY <1>1
  <2>2. Inner(b) = c
    BY <2>1, InnerIs DEF InnerFits
  <2>3. Awaits(b, c)'
    BY <2>1
  <2>4. InnerFits'
    BY InnerIs, PTL
  <2> QED
    BY <2>2, <2>3, <2>4 DEF InnerFits
<1>2. CASE \A c \in Calls : ~Awaits(b, c)
  <2>1. Inner(b) = NoThread
    BY <1>2, InnerIs DEF InnerFits
  <2>2. (\A c \in Calls : ~Awaits(b, c))'
    BY <1>2
  <2>3. InnerFits'
    BY InnerIs, PTL
  <2> QED
    BY <2>1, <2>2, <2>3 DEF InnerFits
<1> QED
  BY <1>1, <1>2

LEMMA InnerCallsSame ==
  ASSUME IInv, IInv', \A b \in Bodies, c \in Calls : Awaits(b, c)' <=> Awaits(b, c)
  PROVE  InnerCalls' = InnerCalls
<1>1. \A b \in Bodies : Inner(b)' = Inner(b)
  BY InnerSame
<1> QED
  BY <1>1 DEF InnerCalls

\* A body that has not made a call it waits for waits for none.
LEMMA TopIsFree ==
  ASSUME IInv, NEW t \in Workers \cup Clients,
         IF t \in Workers THEN stack[t] # <<>> /\ Top(t) \in Jobs ELSE stack[t] = <<>>
  PROVE  /\ Body(t) \in Bodies
         /\ \A c \in Calls : ~Awaits(Body(t), c)
         /\ Inner(Body(t)) = NoThread
<1>1. CASE t \in Workers
  <2>1. Body(t) = Top(t) /\ Top(t) \in Jobs /\ Top(t) \notin Clients
    BY <1>1, ThreadPoolAssumption DEF Body
  <2>2. ASSUME NEW c \in Calls, Awaits(Top(t), c)
        PROVE  FALSE
    <3>1. PICK u \in Workers : \E i \in 1 .. Len(stack[u]) - 1 :
                                 stack[u][i] = Top(t) /\ stack[u][i + 1] = c
      BY <2>1, <2>2 DEF Awaits
    <3>2. PICK i \in 1 .. Len(stack[u]) - 1 : stack[u][i] = Top(t)
      BY <3>1
    <3>3. /\ i \in DOMAIN stack[u] /\ u \in Threads /\ t \in Threads
          /\ Len(stack[t]) \in DOMAIN stack[t] /\ stack[t][Len(stack[t])] = Top(t)
      BY <1>1, TopFacts DEF IInv, TypeOK, Threads
    <3>4. u = t /\ i = Len(stack[t])
      BY <3>2, <3>3 DEF IInv, Places, StackedOnce
    <3>5. Len(stack[t]) \in Nat
      BY <3>3 DEF IInv, TypeOK
    <3> QED
      BY <3>2, <3>4, <3>5
  <2> QED
    BY <2>1, <2>2, InnerIs DEF Bodies, InnerFits
<1>2. CASE t \notin Workers
  <2>1. Body(t) = t /\ t \in Clients /\ stack[t] = <<>>
    BY <1>2 DEF Body
  <2> QED
    BY <2>1, InnerIs DEF Awaits, Bodies, InnerFits
<1> QED
  BY <1>1, <1>2

\* Making a call, or starting a job, is on top of the body that does it.
LEMMA AwaitsPush ==
  ASSUME IInv, NEW t \in Workers \cup Clients, NEW x \in Calls \cup Jobs,
         stack' = [stack EXCEPT ![t] = Append(@, x)],
         t \in Workers => x \in Jobs \/ (stack[t] # <<>> /\ Top(t) \in Jobs),
         t \in Clients => stack[t] = <<>>,
         NEW b \in Bodies, NEW c \in Calls
  PROVE  Awaits(b, c)' <=> Awaits(b, c) \/ (b = Body(t) /\ c = x)
<1>1. /\ t \in Threads /\ Workers \cap Clients = {} /\ Workers \subseteq Threads
      /\ Clients \subseteq Threads /\ Clients \cap Jobs = {} /\ TypeOK
      /\ c \notin Jobs
  BY ThreadPoolAssumption, JobFacts DEF Threads, IInv
<1>2. /\ Len(stack[t]) \in Nat /\ Len(stack'[t]) = Len(stack[t]) + 1
      /\ \A i \in 1 .. Len(stack[t]) : stack'[t][i] = stack[t][i]
      /\ stack'[t][Len(stack[t]) + 1] = x
      /\ stack'[t] # <<>> /\ Top(t)' = x
      /\ \A u \in Threads \ {t} : stack'[u] = stack[u] /\ Top(u)' = Top(u)
  BY <1>1, PushStack
<1>3. CASE b \in Clients
  <2>1. CASE b = t
    BY <1>2, <1>3, <2>1 DEF Awaits, Body
  <2>2. CASE b # t
    <3>1. stack'[b] = stack[b] /\ Top(b)' = Top(b)
      BY <1>1, <1>2, <1>3, <2>2
    <3>2. ~(b = Body(t) /\ c = x)
      BY <1>1, <1>3, <2>2 DEF Body
    <3> QED
      BY <1>3, <3>1, <3>2 DEF Awaits
  <2> QED
    BY <2>1, <2>2
<1>4. CASE b \notin Clients
  <2>1. ASSUME NEW u \in Workers, u # t
        PROVE  stack'[u] = stack[u]
    BY <1>1, <1>2, <2>1
  <2>2. CASE t \in Clients
    <3>1. \A u \in Workers : stack'[u] = stack[u]
      BY <1>1, <2>1, <2>2
    <3>2. b # Body(t)
      BY <1>4, <2>2 DEF Body
    <3> QED
      BY ZenonT(30), <1>4, <3>1, <3>2 DEF Awaits
  <2>3. CASE t \in Workers
    <3>1. stack[t] # <<>> => Len(stack[t]) # 0 /\ stack[t][Len(stack[t])] = Body(t)
      BY <1>1, TopFacts DEF Body
    <3>2. ASSUME Awaits(b, c)
          PROVE  Awaits(b, c)'
      <4>1. PICK u \in Workers : \E i \in 1 .. Len(stack[u]) - 1 : stack[u][i] = b /\ stack[u][i + 1] = c
        BY <1>4, <3>2 DEF Awaits
      <4>2. PICK i \in 1 .. Len(stack[u]) - 1 : stack[u][i] = b /\ stack[u][i + 1] = c
        BY <4>1
      <4>3. CASE u = t
        <5>1. i \in 1 .. Len(stack[t]) /\ i + 1 \in 1 .. Len(stack[t]) /\ i \in 1 .. Len(stack'[t]) - 1
          BY <1>2, <4>2, <4>3
        <5> QED
          BY <1>2, <1>4, <4>2, <4>3, <5>1 DEF Awaits
      <4>4. CASE u # t
        BY <1>4, <2>1, <4>2, <4>4 DEF Awaits
      <4> QED
        BY <4>3, <4>4
    <3>3. ASSUME b = Body(t), c = x
          PROVE  Awaits(b, c)'
      <4>1. PICK n \in Nat : n = Len(stack[t]) /\ n # 0 /\ stack[t][n] = b
        BY <1>1, <1>2, <2>3, <3>1, <3>3
      <4>2. n \in 1 .. Len(stack[t]) /\ n \in 1 .. Len(stack'[t]) - 1
        BY <1>2, <4>1
      <4>3. stack'[t][n] = b /\ stack'[t][n + 1] = c
        BY <1>2, <3>3, <4>1, <4>2
      <4> QED
        BY <1>4, <2>3, <4>2, <4>3 DEF Awaits
    <3>4. ASSUME Awaits(b, c)'
          PROVE  Awaits(b, c) \/ (b = Body(t) /\ c = x)
      <4>1. PICK u \in Workers : \E i \in 1 .. Len(stack'[u]) - 1 : stack'[u][i] = b /\ stack'[u][i + 1] = c
        BY <1>4, <3>4 DEF Awaits
      <4>2. PICK i \in 1 .. Len(stack'[u]) - 1 : stack'[u][i] = b /\ stack'[u][i + 1] = c
        BY <4>1
      <4>3. CASE u = t
        <5>1. i \in 1 .. Len(stack[t]) /\ stack[t][i] = b
          BY <1>2, <4>2, <4>3
        <5>2. CASE i = Len(stack[t])
          <6>1. stack[t] # <<>>
            BY <5>1, <5>2
          <6> QED
            BY <1>2, <3>1, <4>2, <4>3, <5>1, <5>2, <6>1
        <5>3. CASE i # Len(stack[t])
          <6>1. i \in 1 .. Len(stack[t]) - 1 /\ i + 1 \in 1 .. Len(stack[t])
            BY <1>2, <5>1, <5>3
          <6>2. stack[t][i + 1] = c
            BY <1>2, <4>2, <4>3, <6>1
          <6> QED
            BY <1>4, <2>3, <5>1, <6>1, <6>2 DEF Awaits
        <5> QED
          BY <5>2, <5>3
      <4>4. CASE u # t
        BY <1>4, <2>1, <4>2, <4>4 DEF Awaits
      <4> QED
        BY <4>3, <4>4
    <3> QED
      BY <3>2, <3>3, <3>4
  <2> QED
    BY <2>2, <2>3
<1> QED
  BY <1>3, <1>4

\* The end of the top of a stack ends the wait for it and no other.
LEMMA AwaitsPop ==
  ASSUME IInv, NEW t \in Workers \cup Clients, stack[t] # <<>>,
         stack' = [stack EXCEPT ![t] = Front(@)],
         NEW b \in Bodies, NEW c \in Calls
  PROVE  Awaits(b, c)' <=> Awaits(b, c) /\ c # Top(t)
<1>1. /\ t \in Threads /\ Workers \cap Clients = {} /\ Workers \subseteq Threads
      /\ Clients \subseteq Threads /\ TypeOK
  BY ThreadPoolAssumption DEF Threads, IInv
<1>2. /\ Len(stack[t]) \in Nat \ {0} /\ DOMAIN stack[t] = 1 .. Len(stack[t])
      /\ Len(stack'[t]) = Len(stack[t]) - 1
      /\ DOMAIN stack'[t] = 1 .. Len(stack[t]) - 1
      /\ \A i \in 1 .. Len(stack[t]) - 1 : stack'[t][i] = stack[t][i]
      /\ stack[t][Len(stack[t])] = Top(t)
      /\ \A u \in Threads \ {t} : stack'[u] = stack[u] /\ Top(u)' = Top(u)
  BY <1>1, PopStack
<1>3. Len(stack[t]) \in DOMAIN stack[t]
  BY <1>2
<1>4. CASE b \in Clients
  <2>1. CASE b = t
    <3>1. Len(stack[t]) = 1
      BY <1>1, <1>4, <2>1 DEF IInv, StacksMatchPlaces, ClientMatches
    <3>2. stack'[t] = <<>>
      <4>1. stack[t] \in Seq(Calls \cup Jobs) /\ stack'[t] = Front(stack[t])
        BY <1>1 DEF TypeOK
      <4>2. Len(Front(stack[t])) = 0 /\ Front(stack[t]) \in Seq(Calls \cup Jobs)
        BY <3>1, <4>1, FrontFacts
      <4> QED
        BY <4>1, <4>2
    <3> QED
      BY <1>4, <2>1, <3>2 DEF Awaits
  <2>2. CASE b # t
    <3>1. stack'[b] = stack[b] /\ Top(b)' = Top(b) /\ b \in Threads
      BY <1>1, <1>2, <1>4, <2>2
    <3>2. stack[b] # <<>> => Top(b) # Top(t)
      BY <1>1, <1>2, <1>3, <2>2, <3>1, TopFacts DEF IInv, Places, StackedOnce
    <3> QED
      BY <1>4, <3>1, <3>2 DEF Awaits
  <2> QED
    BY <2>1, <2>2
<1>5. CASE b \notin Clients
  <2>1. ASSUME NEW u \in Workers, u # t
        PROVE  stack'[u] = stack[u]
    BY <1>1, <1>2, <2>1
  <2>2. ASSUME Awaits(b, c), c # Top(t)
        PROVE  Awaits(b, c)'
    <3>1. PICK u \in Workers : \E i \in 1 .. Len(stack[u]) - 1 : stack[u][i] = b /\ stack[u][i + 1] = c
      BY <1>5, <2>2 DEF Awaits
    <3>2. PICK i \in 1 .. Len(stack[u]) - 1 : stack[u][i] = b /\ stack[u][i + 1] = c
      BY <3>1
    <3>3. CASE u = t
      <4>1. i + 1 # Len(stack[t])
        BY <1>2, <2>2, <3>2, <3>3
      <4>2. i \in 1 .. Len(stack[t]) - 1 /\ i + 1 \in 1 .. Len(stack[t]) - 1 /\ i \in 1 .. Len(stack'[t]) - 1
        BY <1>2, <3>2, <3>3, <4>1
      <4> QED
        BY <1>2, <1>5, <3>2, <3>3, <4>2 DEF Awaits
    <3>4. CASE u # t
      BY <1>5, <2>1, <3>2, <3>4 DEF Awaits
    <3> QED
      BY <3>3, <3>4
  <2>3. ASSUME Awaits(b, c)'
        PROVE  Awaits(b, c) /\ c # Top(t)
    <3>1. PICK u \in Workers : \E i \in 1 .. Len(stack'[u]) - 1 : stack'[u][i] = b /\ stack'[u][i + 1] = c
      BY <1>5, <2>3 DEF Awaits
    <3>2. PICK i \in 1 .. Len(stack'[u]) - 1 : stack'[u][i] = b /\ stack'[u][i + 1] = c
      BY <3>1
    <3>3. /\ i \in 1 .. Len(stack[u]) - 1 /\ i + 1 \in DOMAIN stack[u]
          /\ stack[u][i] = b /\ stack[u][i + 1] = c
          /\ u = t => i + 1 # Len(stack[t])
      <4>1. CASE u = t
        <5>1. i \in 1 .. Len(stack[t]) - 1 /\ i + 1 \in 1 .. Len(stack[t]) - 1
          BY <1>2, <3>2, <4>1
        <5>2. i + 1 \in 1 .. Len(stack[t]) /\ i + 1 # Len(stack[t])
          BY <1>2, <5>1
        <5> QED
          BY <1>2, <3>2, <4>1, <5>1, <5>2
      <4>2. CASE u # t
        <5>1. stack'[u] = stack[u] /\ stack[u] \in Seq(Calls \cup Jobs)
          BY <1>1, <2>1, <4>2 DEF TypeOK
        <5>2. i + 1 \in DOMAIN stack[u]
          BY <3>2, <5>1
        <5> QED
          BY <3>2, <4>2, <5>1, <5>2
      <4> QED
        BY <4>1, <4>2
    <3>4. c # Top(t)
      BY <1>1, <1>2, <1>3, <3>3 DEF IInv, Places, StackedOnce
    <3> QED
      BY <1>5, <3>3, <3>4 DEF Awaits
  <2> QED
    BY <2>2, <2>3
<1> QED
  BY <1>4, <1>5

LEMMA AbstractSets ==
  /\ Abstract!Jobs = Jobs /\ Abstract!Bodies = Bodies
  /\ \A c \in Calls : Abstract!JobsOf(c) = JobsOf(c)
  BY DEF Abstract!Jobs, Abstract!Bodies, Abstract!JobsOf, Jobs, Bodies, JobsOf

\* The jobs that fail are those at the top of the stacks of the threads that
\* have an exception in flight: a step of t changes its own only.
LEMMA FailingStep ==
  ASSUME IInv, NEW t \in Threads, Others(t)
  PROVE  Failing' = {j \in Jobs :
                       \/ \E u \in Workers \ {t} : taskError[u] /\ Top(u) = j
                       \/ t \in Workers /\ taskError'[t] /\ Top(t)' = j}
<1>1. Workers \subseteq Threads
  BY DEF Threads
<1>2. \A u \in Workers \ {t} : taskError'[u] = taskError[u] /\ Top(u)' = Top(u)
  BY <1>1 DEF Others, Top
<1> QED
  BY <1>2 DEF Failing

LEMMA QuietFailing ==
  ASSUME IInv, NEW t \in Threads, Others(t), ~taskError[t], ~taskError'[t]
  PROVE  Failing' = Failing
  BY FailingStep DEF Failing

LEMMA RaisedFailing ==
  ASSUME IInv, NEW t \in Workers, Others(t), ~taskError[t], taskError'[t], Top(t)' \in Jobs
  PROVE  Failing' = Failing \cup {Top(t)'}
<1>1. t \in Threads
  BY DEF Threads
<1> QED
  BY <1>1, FailingStep DEF Failing

LEMMA TopFails ==
  ASSUME IInv, NEW t \in Workers, stack[t] # <<>>, Top(t) \in Jobs
  PROVE  /\ \A u \in Workers \ {t} : taskError[u] => Top(u) # Top(t)
         /\ Top(t) \in Failing <=> taskError[t]
<1>1. ASSUME NEW u \in Workers \ {t}, taskError[u]
      PROVE  Top(u) # Top(t)
  <2>1. u \in Threads /\ t \in Threads
    BY DEF Threads
  <2>2. pc[u] \in InJob
    BY <1>1, <2>1 DEF IInv, ErrorsInFlight, InJob, At
  <2>3. stack[u] # <<>>
    BY <2>2 DEF IInv, StacksMatchPlaces, WorkerMatches
  <2>4. /\ Len(stack[u]) \in DOMAIN stack[u] /\ stack[u][Len(stack[u])] = Top(u)
        /\ Len(stack[t]) \in DOMAIN stack[t] /\ stack[t][Len(stack[t])] = Top(t)
    BY <2>1, <2>3, TopFacts DEF IInv
  <2> QED
    BY <1>1, <2>1, <2>4 DEF IInv, Places, StackedOnce
<1> QED
  BY <1>1 DEF Failing

\* The code that makes a call is code the contract lets make it.
LEMMA CallerIsFree ==
  ASSUME IInv, NEW t \in Workers \cup Clients, NEW c \in Calls, Begins(t, c)
  PROVE  /\ Body(t) \in Bodies /\ Abstract!Free(Body(t), c)
         /\ t \in Threads /\ ~taskError[t]
         /\ IF t \in Workers THEN stack[t] # <<>> /\ Top(t) \in Jobs ELSE stack[t] = <<>>
         /\ \A d \in Calls : ~Awaits(Body(t), d)
<1>1. t \in Threads /\ pc[t] = "body" /\ call[c] = "none" /\ Body(t) \in MayCall[c]
  BY DEF Threads, Begins, At
<1>2. IF t \in Workers THEN stack[t] # <<>> /\ Top(t) \in Jobs ELSE stack[t] = <<>>
  BY <1>1, ThreadPoolAssumption
  DEF IInv, StacksMatchPlaces, WorkerMatches, ClientMatches, InJob, At
<1>3. Body(t) \in Bodies /\ Inner(Body(t)) = NoThread /\ \A d \in Calls : ~Awaits(Body(t), d)
  BY <1>2, TopIsFree
<1>4. InnerCalls[Body(t)] = NoThread
  BY <1>3 DEF InnerCalls
<1>5. ~taskError[t]
  BY <1>1 DEF IInv, ErrorsInFlight, At
<1>6. Body(t) \in Jobs => status[Body(t)] = "running" /\ Body(t) \notin Failing
  <2>1. CASE t \in Workers
    <3>1. Body(t) = Top(t)
      BY <1>2, <2>1 DEF Body
    <3>2. status[Top(t)] = "running"
      BY <1>1, <1>2, <2>1, TopFacts DEF IInv, Places, StackedAreLive, Notifies
    <3>3. Top(t) \notin Failing
      BY <1>2, <1>5, <2>1, TopFails
    <3> QED
      BY <3>1, <3>2, <3>3
  <2>2. CASE t \notin Workers
    BY <1>2, <2>2, ThreadPoolAssumption DEF Body
  <2> QED
    BY <2>1, <2>2
<1>7. Abstract!Free(Body(t), c)
  BY <1>1, <1>4, <1>6, AbstractSets DEF Abstract!Free
<1> QED
  BY <1>1, <1>2, <1>3, <1>5, <1>7

Mapped == [Abstract!Next]_(Abstract!vars)

LEMMA MakesImplements ==
  ASSUME IInv, IInv', NEW t \in Workers \cup Clients, NEW c \in Calls, Makes(t, c)
  PROVE  Mapped
<1>1. Begins(t, c)
  BY DEF Makes, CallEmpty, CallRejected, Post
<1>2. Others(t) /\ t \in Threads
  BY <1>1, CallerIsFree, MakesOthers DEF IInv
<1>3. /\ Body(t) \in Bodies /\ Abstract!Free(Body(t), c) /\ ~taskError[t]
      /\ IF t \in Workers THEN stack[t] # <<>> /\ Top(t) \in Jobs ELSE stack[t] = <<>>
      /\ \A d \in Calls : ~Awaits(Body(t), d)
  BY <1>1, CallerIsFree
<1>4. ASSUME UNCHANGED stack
      PROVE  InnerCalls' = InnerCalls
  <2>1. \A b \in Bodies, d \in Calls : Awaits(b, d)' <=> Awaits(b, d)
    BY <1>4 DEF Awaits, Top
  <2> QED
    BY <2>1, InnerCallsSame
<1>5. CASE CallEmpty(t, c)
  <2>1. /\ TaskCount[c] = 0 /\ call' = [call EXCEPT ![c] = "ok"]
        /\ UNCHANGED <<stopping, status, stack, taskError>>
    BY <1>5 DEF CallEmpty, queueVars
  <2>2. Failing' = Failing
    BY <1>2, <1>3, <2>1, QuietFailing
  <2>3. Abstract!Empty(Body(t), c)
    BY <1>3, <1>4, <2>1, <2>2 DEF Abstract!Empty
  <2> QED
    BY <1>3, <2>3, AbstractSets DEF Mapped, Abstract!Next
<1>6. CASE CallRejected(t, c)
  <2>1. /\ stopping /\ call' = [call EXCEPT ![c] = "rejected"]
        /\ UNCHANGED <<stopping, status, stack>> /\ taskError'[t]
    BY <1>2, <1>6 DEF CallRejected, Accepting, queueVars, IInv, TypeOK
  <2>2. t \in Workers
    BY <1>1, <2>1 DEF Begins, IInv, StoppingMatchesOwner, At
  <2>3. Body(t) = Top(t) /\ Top(t) \in Jobs /\ Top(t)' = Top(t)
    BY <1>3, <2>1, <2>2 DEF Body, Top
  <2>4. Failing' = Failing \cup {Body(t)}
    BY <1>2, <1>3, <2>1, <2>2, <2>3, RaisedFailing
  <2>5. Abstract!Reject(Body(t), c)
    BY <1>3, <1>4, <2>1, <2>3, <2>4, AbstractSets DEF Abstract!Reject
  <2> QED
    BY <1>3, <2>5, AbstractSets DEF Mapped, Abstract!Next
<1>7. CASE Post(t, c)
  <2>1. /\ ~stopping /\ TaskCount[c] # 0 /\ call' = [call EXCEPT ![c] = "open"]
        /\ status' = [j \in Jobs |-> IF Group(j) = c THEN "queued" ELSE status[j]]
        /\ stack' = [stack EXCEPT ![t] = Append(@, c)]
        /\ UNCHANGED <<stopping, taskError>>
    BY <1>7 DEF Post, Accepting
  <2>2. status' = [j \in Abstract!Jobs |-> IF j \in Abstract!JobsOf(c) THEN "queued" ELSE status[j]]
    <3>1. \A j \in Jobs : Group(j) = c <=> j \in JobsOf(c)
      BY JobFacts
    <3> QED
      BY <2>1, <3>1, AbstractSets
  <2>3. Failing' = Failing
    BY <1>2, <1>3, <2>1, QuietFailing
  <2>4. \A b \in Bodies, d \in Calls : Awaits(b, d)' <=> Awaits(b, d) \/ (b = Body(t) /\ d = c)
    <3>1. t \in Clients => t \notin Workers
      BY ThreadPoolAssumption
    <3> QED
      BY <1>3, <2>1, <3>1, AwaitsPush
  <2>5. \A b \in Bodies : Inner(b)' = IF b = Body(t) THEN c ELSE Inner(b)
    <3>1. \A b \in Bodies \ {Body(t)} : Inner(b)' = Inner(b)
      BY <2>4, InnerSame
    <3>2. PICK b \in Bodies : b = Body(t)
      BY <1>3
    <3>3. Awaits(b, c)'
      BY <2>4, <3>2
    <3>4. InnerFits'
      BY InnerIs, PTL
    <3> QED
      BY <3>1, <3>2, <3>3, <3>4 DEF InnerFits
  <2>6. InnerCalls' = [InnerCalls EXCEPT ![Body(t)] = c]
    BY <2>5 DEF InnerCalls
  <2>7. Abstract!Accept(Body(t), c)
    BY <1>3, <2>1, <2>2, <2>3, <2>6 DEF Abstract!Accept
  <2> QED
    BY <1>3, <2>7, AbstractSets DEF Mapped, Abstract!Next
<1> QED
  BY <1>5, <1>6, <1>7 DEF Makes

LEMMA TakeImplements ==
  ASSUME IInv, IInv', NEW t \in Workers, Help(t) \/ TakeFront(t),
         NEW k \in DOMAIN jobs, Take(t, k), jobs[k] \in Jobs
  PROVE  Mapped
<1>1. PICK j \in Jobs : j = jobs[k]
  OBVIOUS
<1>2. t \in Threads /\ Others(t)
  BY StepOthers DEF Threads, IInv, Step
<1>3. /\ status' = [status EXCEPT ![j] = "running"] /\ stack' = [stack EXCEPT ![t] = Append(@, j)]
      /\ UNCHANGED <<stopping, call, taskError>> /\ pc[t] # "finish"
  BY <1>1 DEF Help, TakeFront, Take, At
<1>4. status[j] = "queued"
  BY <1>1 DEF IInv, Places, QueuedOnce
<1>5. Failing' = Failing
  BY <1>2, <1>3, QuietFailing DEF IInv, ErrorsInFlight, At
<1>6. InnerCalls' = InnerCalls
  <2>1. t \notin Clients /\ j \notin Calls
    BY ThreadPoolAssumption, JobFacts
  <2>2. \A b \in Bodies, d \in Calls : Awaits(b, d)' <=> Awaits(b, d)
    BY <1>3, <2>1, AwaitsPush
  <2> QED
    BY <2>2, InnerCallsSame
<1>7. Abstract!Start(j)
  BY <1>3, <1>4, <1>5, <1>6 DEF Abstract!Start
<1> QED
  BY <1>7, AbstractSets DEF Mapped, Abstract!Next

\* The job at the top of a stack waits for no call.
LEMMA TopInner ==
  ASSUME IInv, NEW t \in Workers, stack[t] # <<>>, Top(t) \in Jobs
  PROVE  InnerCalls[Top(t)] = NoThread
<1>1. Body(t) = Top(t) /\ Top(t) \in Bodies
  BY DEF Body, Bodies
<1>2. Inner(Body(t)) = NoThread
  BY TopIsFree
<1> QED
  BY <1>1, <1>2 DEF InnerCalls

LEMMA EndTaskImplements ==
  ASSUME IInv, IInv', NEW t \in Workers, EndTask(t)
  PROVE  Mapped
<1>1. t \in Threads /\ Others(t)
  BY StepOthers DEF Threads, IInv, Step
<1>2. /\ UNCHANGED <<stopping, call, status, stack>> /\ pc[t] = "body"
      /\ taskError'[t] => Top(t) \in MayThrow
  BY <1>1 DEF EndTask, At, queueVars, logVars, IInv, TypeOK
<1>3. /\ stack[t] # <<>> /\ Top(t) \in Jobs /\ Top(t)' = Top(t) /\ ~taskError[t]
      /\ status[Top(t)] = "running"
  <2>1. stack[t] # <<>> /\ Top(t) \in Jobs
    BY <1>2 DEF IInv, StacksMatchPlaces, WorkerMatches, InJob
  <2>2. Top(t)' = Top(t) /\ ~taskError[t]
    BY <1>1, <1>2 DEF Top, IInv, ErrorsInFlight, At
  <2>3. status[Top(t)] = "running"
    BY <1>1, <1>2, <2>1, TopFacts DEF IInv, Places, StackedAreLive, Notifies
  <2> QED
    BY <2>1, <2>2, <2>3
<1>4. InnerCalls' = InnerCalls
  <2>1. \A b \in Bodies, d \in Calls : Awaits(b, d)' <=> Awaits(b, d)
    BY <1>2 DEF Awaits, Top
  <2> QED
    BY <2>1, InnerCallsSame
<1>5. CASE taskError'[t]
  <2>1. Failing' = Failing \cup {Top(t)}
    BY <1>1, <1>3, <1>5, RaisedFailing
  <2>2. Abstract!Throw(Top(t))
    BY <1>2, <1>3, <1>4, <1>5, <2>1, TopInner DEF Abstract!Throw
  <2> QED
    BY <1>3, <2>2, AbstractSets DEF Mapped, Abstract!Next
<1>6. CASE ~taskError'[t]
  <2>1. Failing' = Failing
    BY <1>1, <1>3, <1>6, QuietFailing
  <2> QED
    BY <1>2, <1>4, <2>1 DEF Mapped, Abstract!vars
<1> QED
  BY <1>5, <1>6

LEMMA FinishImplements ==
  ASSUME IInv, IInv', NEW t \in Workers, Finish(t)
  PROVE  Mapped
<1>1. t \in Threads /\ Others(t)
  BY StepOthers DEF Threads, IInv, Step
<1>2. PICK j \in Jobs : j = Top(t)
  BY <1>1, FinishFacts DEF IInv
<1>3. /\ stack[t] # <<>> /\ status[j] = "running"
      /\ status' = [status EXCEPT ![j] = IF taskError[t] THEN "threw" ELSE "ok"]
  BY <1>1, <1>2, FinishFacts DEF IInv
<1>4. /\ UNCHANGED <<stopping, call>> /\ ~taskError'[t]
      /\ UNCHANGED stack \/ stack' = [stack EXCEPT ![t] = Front(@)]
  BY <1>1 DEF Finish, queueVars, IInv, TypeOK
<1>5. /\ j \in Failing <=> taskError[t]
      /\ \A u \in Workers \ {t} : taskError[u] => Top(u) # j
  BY <1>2, <1>3, TopFails
<1>6. Failing' = Failing \ {j}
  BY <1>1, <1>2, <1>4, <1>5, FailingStep DEF Failing
<1>7. InnerCalls' = InnerCalls
  <2>1. CASE UNCHANGED stack
    <3>1. \A b \in Bodies, d \in Calls : Awaits(b, d)' <=> Awaits(b, d)
      BY <2>1 DEF Awaits, Top
    <3> QED
      BY <3>1, InnerCallsSame
  <2>2. CASE stack' = [stack EXCEPT ![t] = Front(@)]
    <3>1. j \notin Calls
      BY JobFacts
    <3>2. \A b \in Bodies, d \in Calls : Awaits(b, d)' <=> Awaits(b, d)
      BY <1>2, <1>3, <2>2, <3>1, AwaitsPop
    <3> QED
      BY <3>2, InnerCallsSame
  <2> QED
    BY <1>4, <2>1, <2>2
<1>8. InnerCalls[j] = NoThread
  BY <1>2, <1>3, TopInner
<1>9. Abstract!Finish(j)
  BY <1>3, <1>4, <1>5, <1>6, <1>7, <1>8 DEF Abstract!Finish
<1> QED
  BY <1>9, AbstractSets DEF Mapped, Abstract!Next

LEMMA NotifyReadyImplements ==
  ASSUME IInv, IInv', NEW t \in Workers, NotifyReady(t)
  PROVE  Mapped
<1>1. t \in Threads /\ Others(t)
  BY StepOthers DEF Threads, IInv, Step
<1>2. /\ UNCHANGED <<stopping, call, status, taskError>> /\ pc[t] = "notifyReady"
      /\ stack' = [stack EXCEPT ![t] = Front(@)]
  BY DEF NotifyReady, At, queueVars, logVars
<1>3. stack[t] # <<>> /\ Top(t) \notin Calls
  BY <1>2, JobFacts DEF IInv, StacksMatchPlaces, WorkerMatches, InJob, Notifies
<1>4. Failing' = Failing
  BY <1>1, <1>2, QuietFailing DEF IInv, ErrorsInFlight, At
<1>5. InnerCalls' = InnerCalls
  <2>1. \A b \in Bodies, d \in Calls : Awaits(b, d)' <=> Awaits(b, d)
    BY <1>2, <1>3, AwaitsPop
  <2> QED
    BY <2>1, InnerCallsSame
<1> QED
  BY <1>2, <1>4, <1>5 DEF Mapped, Abstract!vars

\* The body that goes on when the call at the top of a stack is over.
LEMMA CollectBody ==
  ASSUME IInv, NEW t \in Workers \cup Clients, Collect(t)
  PROVE  \E b \in Bodies :
           /\ Awaits(b, Top(t))
           /\ b \in Jobs <=> t \in Workers
           /\ t \in Workers => Top(t)' = b
<1>1. t \in Threads /\ stack[t] # <<>> /\ Top(t) \in Calls /\ stack'[t] = Front(stack[t])
  <2>1. t \in Threads
    BY DEF Threads
  <2> QED
    BY <2>1, CollectFacts DEF Collect, IInv, TypeOK
<1>2. CASE t \in Workers
  <2>1. stack[t] \in Seq(Calls \cup Jobs) /\ Alternates(stack[t])
    BY <1>1, <1>2 DEF IInv, TypeOK, StacksMatchPlaces, WorkerMatches
  <2>2. PICK s \in Seq(Calls \cup Jobs) : s = stack[t] /\ s # <<>> /\ Alternates(s) /\ Last(s) = Top(t)
    BY <1>1, <2>1 DEF Top
  <2>3. Last(s) \in Calls /\ Last(s) \notin Jobs
    BY <1>1, <2>2, JobFacts
  <2>4. /\ Len(s) # 1 /\ Front(s) # <<>>
        /\ Last(Front(s)) \in Calls \cup Jobs /\ ~(Last(Front(s)) \in Calls)
    BY <2>2, <2>3, PopAlternates
  <2>5. PICK b \in Jobs : b = Last(Front(s))
    BY <2>4
  <2>6. /\ Len(s) \in Nat \ {0} /\ Front(s) \in Seq(Calls \cup Jobs) /\ Len(Front(s)) = Len(s) - 1
        /\ \A i \in 1 .. Len(s) - 1 : Front(s)[i] = s[i]
        /\ Last(s) = s[Len(s)]
    BY <2>2, FrontFacts
  <2>7. PICK n \in 1 .. Len(s) - 1 : n = Len(s) - 1
    BY <2>4, <2>6
  <2>8. s[n] = b
    BY <2>5, <2>6, <2>7 DEF Last
  <2>9. s[n + 1] = Top(t)
    BY <2>2, <2>6, <2>7
  <2>10. b \notin Clients
    BY ThreadPoolAssumption
  <2>11. Awaits(b, Top(t))
    BY <1>2, <2>2, <2>7, <2>8, <2>9, <2>10 DEF Awaits
  <2>12. Top(t)' = b
    BY <1>1, <2>2, <2>5 DEF Top
  <2> QED
    BY <1>2, <2>11, <2>12 DEF Bodies
<1>3. CASE t \notin Workers
  <2>1. t \in Clients /\ t \notin Jobs
    BY <1>3, ThreadPoolAssumption
  <2> QED
    BY <1>1, <1>3, <2>1 DEF Awaits, Bodies
<1> QED
  BY <1>2, <1>3

LEMMA CollectImplements ==
  ASSUME IInv, IInv', NEW t \in Workers \cup Clients, Collect(t)
  PROVE  Mapped
<1>1. t \in Threads /\ Others(t)
  BY StepOthers DEF Threads, IInv, Step
<1>2. PICK c \in Calls : c = Top(t)
  BY <1>1, CollectFacts DEF IInv
<1>3. /\ stack[t] # <<>> /\ call[c] = "open"
      /\ call' = [call EXCEPT ![c] = IF error[c] THEN "threw" ELSE "ok"]
  BY <1>1, <1>2, CollectFacts DEF IInv
<1>4. /\ UNCHANGED <<stopping, status>> /\ pc[t] = "collect"
      /\ stack' = [stack EXCEPT ![t] = Front(@)]
      /\ taskError'[t] <=> error[c] /\ t \in Workers
  BY <1>1, <1>2 DEF Collect, At, queueVars, IInv, TypeOK
<1>5. PICK b \in Bodies : /\ Awaits(b, c)
                          /\ b \in Jobs <=> t \in Workers
                          /\ t \in Workers => Top(t)' = b
  BY <1>2, CollectBody
<1>6. InnerCalls[b] = c /\ c # NoThread
  BY <1>5, InnerIs, ThreadPoolAssumption DEF InnerFits, InnerCalls
<1>7. \A j \in JobsOf(c) : status[j] \in {"ok", "threw"}
  <2>1. remaining[c] = 0
    BY <1>1, <1>2, <1>4 DEF IInv, CollectsComplete, At
  <2>2. Unfinished(c) = {}
    <3>1. Cardinality(Unfinished(c)) = 0
      BY <2>1 DEF IInv, Counts, RemainingCountsUnfinished
    <3> QED
      BY <3>1, UnfinishedCount, FS_EmptySet
  <2>3. \A j \in JobsOf(c) : status[j] # "none"
    BY <1>3 DEF IInv, Counts, CallsKnowJobs
  <2>4. \A j \in JobsOf(c) : status[j] \in {"none", "queued", "running", "ok", "threw"}
    BY JobFacts DEF IInv, TypeOK
  <2> QED
    BY <2>2, <2>3, <2>4 DEF Unfinished
<1>8. error[c] <=> \E j \in JobsOf(c) : status[j] = "threw"
  BY DEF IInv, Counts, ErrorsKept
<1>9. \A d \in Bodies, e \in Calls : Awaits(d, e)' <=> Awaits(d, e) /\ e # c
  BY <1>2, <1>3, <1>4, AwaitsPop
<1>10. InnerCalls' = [InnerCalls EXCEPT ![b] = NoThread]
  <2>1. ASSUME NEW d \in Bodies, d # b
        PROVE  Inner(d)' = Inner(d)
    <3>1. ~Awaits(d, c)
      <4>1. ASSUME Awaits(d, c)
            PROVE  FALSE
        BY <1>5, <2>1, <4>1, AwaitedOnce
      <4> QED
        BY <4>1
    <3>2. \A e \in Calls : Awaits(d, e)' <=> Awaits(d, e)
      BY <1>9, <3>1
    <3> QED
      BY <3>2, InnerSame
  <2>2. Inner(b)' = NoThread
    <3>1. \A e \in Calls : ~Awaits(b, e)'
      BY <1>5, <1>9, OneAwaited
    <3>2. InnerFits'
      BY InnerIs, PTL
    <3> QED
      BY <3>1, <3>2 DEF InnerFits
  <2> QED
    BY <2>1, <2>2 DEF InnerCalls
<1>11. Failing' = IF error[c] /\ b \in Jobs THEN Failing \cup {b} ELSE Failing
  <2>1. ~taskError[t]
    BY <1>1, <1>4 DEF IInv, ErrorsInFlight, At
  <2>2. CASE error[c] /\ b \in Jobs
    <3>1. taskError'[t] /\ t \in Workers /\ Top(t)' = b
      BY <1>4, <1>5, <2>2
    <3> QED
      BY <1>1, <2>1, <2>2, <3>1, RaisedFailing
  <2>3. CASE ~(error[c] /\ b \in Jobs)
    BY <1>1, <1>4, <1>5, <2>1, <2>3, QuietFailing
  <2> QED
    BY <2>2, <2>3
<1>12. Abstract!Return(b)
  <2>1. Abstract!JobsOf(c) = JobsOf(c) /\ Abstract!Jobs = Jobs
    BY AbstractSets
  <2> QED
    BY <1>3, <1>4, <1>6, <1>7, <1>8, <1>10, <1>11, <2>1 DEF Abstract!Return
<1> QED
  BY <1>12, AbstractSets DEF Mapped, Abstract!Next

\* Waiting, waking and notifying are not seen by the code that makes calls.
LEMMA QuietImplements ==
  ASSUME IInv, IInv', UNCHANGED <<stopping, call, status, stack, taskError>>
  PROVE  Mapped
<1>1. \A b \in Bodies, d \in Calls : Awaits(b, d)' <=> Awaits(b, d)
  BY DEF Awaits, Top
<1>2. InnerCalls' = InnerCalls
  BY <1>1, InnerCallsSame
<1>3. Failing' = Failing
  BY DEF Failing, Top
<1> QED
  BY <1>2, <1>3 DEF Mapped, Abstract!vars

LEMMA StopImplements ==
  ASSUME IInv, IInv', StartFails \/ Destroy
  PROVE  Mapped
<1>1. stopping' = TRUE /\ UNCHANGED <<call, status, stack, taskError>>
  BY DEF StartFails, Destroy, logVars
<1>2. \A b \in Bodies, d \in Calls : Awaits(b, d)' <=> Awaits(b, d)
  BY <1>1 DEF Awaits, Top
<1>3. InnerCalls' = InnerCalls
  BY <1>2, InnerCallsSame
<1>4. Failing' = Failing
  BY <1>1 DEF Failing, Top
<1>5. Abstract!Stop
  BY <1>1, <1>3, <1>4 DEF Abstract!Stop
<1> QED
  BY <1>5 DEF Mapped, Abstract!Next

LEMMA StepImplements ==
  ASSUME IInv, IInv', [Next]_vars
  PROVE  Mapped
<1>1. ASSUME \/ \E w \in Workers : StartWorker(w)
             \/ OwnerStep \/ Terminated \/ UNCHANGED vars
      PROVE  Mapped
  BY <1>1, QuietImplements
  DEF StartWorker, OwnerStep, Announce, Join, Terminated, allButPc, queueVars, logVars, vars
<1>2. ASSUME NEW t \in Workers \cup Clients, NEW c \in Calls, Makes(t, c)
      PROVE  Mapped
  BY <1>2, MakesImplements
<1>3. ASSUME NEW t \in Workers \cup Clients, Step(t) \/ SpuriousWakeup(t)
      PROVE  Mapped
  <2>1. t \notin Workers => pc[t] \in ClientPlaces
    BY DEF IInv, TypeOK, Threads, PlacesOf
  <2>2. Help(t) \/ TakeFront(t) \/ EndTask(t) \/ Finish(t) \/ NotifyReady(t) => t \in Workers
    BY <2>1 DEF Help, TakeFront, EndTask, Finish, NotifyReady, At, ClientPlaces
  <2>3. CASE Help(t) \/ TakeFront(t)
    BY <2>2, <2>3, TakesOne, TakeImplements DEF IInv
  <2>4. CASE EndTask(t) \/ Finish(t) \/ NotifyReady(t)
    BY <2>2, <2>4, EndTaskImplements, FinishImplements, NotifyReadyImplements
  <2>5. CASE Collect(t)
    BY <2>5, CollectImplements
  <2>6. CASE \/ NotifyPosted(t) \/ Loop(t) \/ HelpFindsNothing(t) \/ Exit(t) \/ Resume(t)
             \/ Doze(t) \/ Sleep(t) \/ Completed(t) \/ DozeComplete(t) \/ SleepComplete(t)
             \/ NotifyComplete(t) \/ SpuriousWakeup(t)
    <3>1. UNCHANGED <<stopping, call, status, stack, taskError>>
      BY <2>6
      DEF NotifyPosted, Loop, HelpFindsNothing, Exit, Resume, Doze, Sleep, Completed, DozeComplete,
          SleepComplete, NotifyComplete, SpuriousWakeup, allButPc, queueVars, logVars
    <3> QED
      BY <3>1, QuietImplements
  <2> QED
    BY <1>3, <2>3, <2>4, <2>5, <2>6 DEF Step
<1> QED
  BY <1>1, <1>2, <1>3, StopImplements DEF Next

LEMMA InitImplements == Init => Abstract!Init
<1> SUFFICES ASSUME Init PROVE Abstract!Init
  OBVIOUS
<1>1. \A t \in Threads : stack[t] = <<>> /\ ~taskError[t]
  BY DEF Init
<1>2. Failing = {}
  BY <1>1 DEF Failing, Threads
<1>3. \A b \in Bodies, c \in Calls : ~Awaits(b, c)
  BY <1>1 DEF Awaits, Threads
<1>4. InnerCalls = [b \in Bodies |-> NoThread]
  BY <1>3 DEF InnerCalls, Inner
<1> QED
  BY <1>2, <1>4, AbstractSets DEF Init, Abstract!Init

\* Seen through its calls and task indices, the pool does what the executor
\* contract says, for any number of threads, calls and nestings.
THEOREM Implements == Spec => ImplementsParallelFor
<1>1. IInv /\ IInv' /\ [Next]_vars => [Abstract!Next]_(Abstract!vars)
  BY StepImplements DEF Mapped
<1> QED
  BY <1>1, InitImplements, InductiveInvariant, PTL DEF Spec, ImplementsParallelFor, Abstract!Spec

=============================================================================
