----------------------------- MODULE ThreadPool -----------------------------
(***************************************************************************)
(* nanoxgen::ThreadPool (src/task_executor.cpp): a fixed set of worker     *)
(* threads draining one queue of jobs, on which any thread may make        *)
(* parallel_for() calls, a running task included.                          *)
(*                                                                         *)
(* A call is the Group the code makes for it: its jobs are the pairs       *)
(* <<call, index>>.  Every thread has a stack of what it is in the middle  *)
(* of, calls and jobs, outermost first, and a program counter pc for the   *)
(* top of it.  A worker with an empty stack is in worker_loop(); a client  *)
(* with an empty stack is in the code of the host application.             *)
(*                                                                         *)
(* One action is one stretch of code that no other thread can observe the  *)
(* middle of.  Where the code holds a mutex across two of them (between    *)
(* the predicate of a condition variable and the sleep) the mutex is held  *)
(* in the model too.                                                       *)
(***************************************************************************)
EXTENDS Integers, Sequences, FiniteSets, SequencesExt

CONSTANTS
  Workers,      \* the pool's own threads
  Clients,      \* threads of the host that call parallel_for() from outside
  Owner,        \* the thread that constructs and destroys the pool
  NoThread,     \* the owner of a free mutex
  Calls,        \* the parallel_for() calls of a behaviour, each made once at most
  TaskCount,    \* [Calls -> Nat], the task_count argument
  MayCall,      \* [Calls -> SUBSET Bodies], the code that may make the call
  MayThrow,     \* the jobs whose task may throw
  MaxSpurious   \* bound: spurious wakeups in a behaviour

JobsOf(c) == {c} \X (0 .. TaskCount[c] - 1)
Jobs      == UNION {JobsOf(c) : c \in Calls}
Group(j)  == j[1]
Bodies    == Clients \cup Jobs
Threads   == Workers \cup Clients \cup {Owner}

ASSUME ThreadPoolAssumption ==
  /\ IsFiniteSet(Workers)
  /\ Workers # {}
  /\ Workers \cap Clients = {}
  /\ Owner \notin Workers \cup Clients
  /\ NoThread \notin Threads \cup Calls
  /\ TaskCount \in [Calls -> Nat]
  /\ (Calls \cup Clients) \cap Jobs = {}
  /\ MayCall \in [Calls -> SUBSET Bodies]
  /\ MaxSpurious \in Nat

VARIABLES
  jobs,         \* Impl::jobs, the queue
  stopping,     \* Impl::stopping
  queueMutex,   \* the thread that holds Impl::queue_mutex
  groupMutex,   \* [Calls -> thread that holds Group::mutex]
  remaining,    \* [Calls -> Group::remaining]
  error,        \* [Calls -> Group::error is set]
  call,         \* [Calls -> what became of the call]
  status,       \* [Jobs -> what became of the job]
  stack,        \* [Threads -> sequence of calls and jobs, innermost last]
  pc,           \* [Threads -> place in the innermost one]
  taskError,    \* [Threads -> the innermost job's task threw]
  spurious      \* spurious wakeups so far

vars == <<jobs, stopping, queueMutex, groupMutex, remaining, error, call,
          status, stack, pc, taskError, spurious>>

queueVars == <<jobs, stopping>>
groupVars == <<groupMutex, remaining, error>>
logVars   == <<call, status>>
allButPc  == <<queueVars, queueMutex, groupVars, logVars, stack, taskError,
               spurious>>

-----------------------------------------------------------------------------
(* Helpers *)

WorkerPlaces == {"unborn", "wait", "dozing", "asleep", "body", "posted",
                 "loop", "help", "collect", "finish", "notifyComplete",
                 "notifyReady", "exited"}
ClientPlaces == {"body", "posted", "waitComplete", "dozingComplete",
                 "asleepComplete", "collect"}
OwnerPlaces  == {"construct", "alive", "announce", "join", "gone"}
PlacesOf(t)  == IF t \in Workers THEN WorkerPlaces
                ELSE IF t \in Clients THEN ClientPlaces ELSE OwnerPlaces

Top(t) == Last(stack[t])

\* The code thread t runs between calls: its innermost task, or the host's.
Body(t) == IF stack[t] = <<>> THEN t ELSE Top(t)

At(t, place) == pc[t] = place
Goto(t, place) == pc' = [pc EXCEPT ![t] = place]

QueueMutexFree    == queueMutex = NoThread
GroupMutexFree(c) == groupMutex[c] = NoThread

\* ready.notify_all(), with t going on to place.
WakeReady(t, place) ==
  pc' = [u \in Threads |->
           IF u = t THEN place
           ELSE IF pc[u] = "asleep" THEN "wait" ELSE pc[u]]

\* The position execute_one() selects: the first job of the preferred group,
\* the front of the queue when there is none.
Selected(k, preferred) ==
  IF \E i \in DOMAIN jobs : Group(jobs[i]) = preferred
  THEN /\ Group(jobs[k]) = preferred
       /\ \A i \in 1 .. k - 1 : Group(jobs[i]) # preferred
  ELSE k = 1

\* Mutation of Erase: jobs.erase(jobs.begin()).
EraseFront(s, k) == Tail(s)

\* jobs.erase(selected)
Erase(s, k) == RemoveAt(s, k)

\* execute_one() moves the selected job out of the queue and starts it.
Take(t, k) ==
  /\ jobs' = Erase(jobs, k)
  /\ status' = [status EXCEPT ![jobs[k]] = "running"]
  /\ stack' = [stack EXCEPT ![t] = Append(@, jobs[k])]
  /\ Goto(t, "body")

\* Where a worker is once its innermost job's wrapper has returned.
AfterJob(t) == IF Len(stack[t]) = 1 THEN "wait" ELSE "loop"

-----------------------------------------------------------------------------
(* The owner: construction and destruction *)

Init ==
  /\ jobs = <<>>
  /\ stopping = FALSE
  /\ queueMutex = NoThread
  /\ groupMutex = [c \in Calls |-> NoThread]
  /\ remaining = [c \in Calls |-> 0]
  /\ error = [c \in Calls |-> FALSE]
  /\ call = [c \in Calls |-> "none"]
  /\ status = [j \in Jobs |-> "none"]
  /\ stack = [t \in Threads |-> <<>>]
  /\ pc = [t \in Threads |-> IF t = Owner THEN "construct"
                             ELSE IF t \in Workers THEN "unborn" ELSE "body"]
  /\ taskError = [t \in Threads |-> FALSE]
  /\ spurious = 0

\* The constructor starts one more worker; the pool exists with the last one.
StartWorker(w) ==
  /\ At(Owner, "construct")
  /\ At(w, "unborn")
  /\ pc' = [pc EXCEPT
              ![w] = "wait",
              ![Owner] = IF \E u \in Workers \ {w} : At(u, "unborn")
                         THEN "construct" ELSE "alive"]
  /\ UNCHANGED allButPc

\* std::thread throws in the constructor: stop the workers there are.
StartFails ==
  /\ At(Owner, "construct")
  /\ QueueMutexFree
  /\ stopping' = TRUE
  /\ Goto(Owner, "announce")
  /\ UNCHANGED <<jobs, queueMutex, groupVars, logVars, stack, taskError,
                 spurious>>

\* Mutation of Destroy: stopping is set without queue_mutex.
DestroyUnlocked ==
  /\ At(Owner, "alive")
  /\ \A t \in Clients : ~At(t, "posted")
  /\ stopping' = TRUE
  /\ Goto(Owner, "announce")
  /\ UNCHANGED <<jobs, queueMutex, groupVars, logVars, stack, taskError,
                 spurious>>

\* The destructor begins.  The lifetime rules of C++ let it begin when no
\* client will make a call and none is in the part of run() that still uses
\* the pool: a client may be asleep on its group, which outlives the pool.
Destroy ==
  /\ At(Owner, "alive")
  /\ \A t \in Clients : ~At(t, "posted")
  /\ QueueMutexFree
  /\ stopping' = TRUE
  /\ Goto(Owner, "announce")
  /\ UNCHANGED <<jobs, queueMutex, groupVars, logVars, stack, taskError,
                 spurious>>

Announce ==
  /\ At(Owner, "announce")
  /\ WakeReady(Owner, "join")
  /\ UNCHANGED allButPc

\* join() returns for every worker that was started.
Join ==
  /\ At(Owner, "join")
  /\ \A w \in Workers : pc[w] \in {"unborn", "exited"}
  /\ Goto(Owner, "gone")
  /\ UNCHANGED allButPc

-----------------------------------------------------------------------------
(* run(): from the caller to the queue *)

\* A client or a running task makes call c.
Begins(t, c) ==
  /\ t \in Workers \cup Clients
  /\ At(t, "body")
  /\ t \in Clients => At(Owner, "alive")
  /\ call[c] = "none"
  /\ Body(t) \in MayCall[c]

CallEmpty(t, c) ==
  /\ Begins(t, c)
  /\ TaskCount[c] = 0
  /\ call' = [call EXCEPT ![c] = "ok"]
  /\ UNCHANGED <<queueVars, queueMutex, groupVars, status, stack, pc,
                 taskError, spurious>>

Accepting == ~stopping

\* "thread pool is stopping" leaves the task that made the call.
CallRejected(t, c) ==
  /\ Begins(t, c)
  /\ TaskCount[c] # 0
  /\ QueueMutexFree
  /\ ~Accepting
  /\ call' = [call EXCEPT ![c] = "rejected"]
  /\ taskError' = [taskError EXCEPT ![t] = TRUE]
  /\ Goto(t, "finish")
  /\ UNCHANGED <<queueVars, queueMutex, groupVars, status, stack, spurious>>

Post(t, c) ==
  /\ Begins(t, c)
  /\ TaskCount[c] # 0
  /\ QueueMutexFree
  /\ Accepting
  /\ jobs' = jobs \o [i \in 1 .. TaskCount[c] |-> <<c, i - 1>>]
  /\ remaining' = [remaining EXCEPT ![c] = TaskCount[c]]
  /\ call' = [call EXCEPT ![c] = "open"]
  /\ status' = [j \in Jobs |-> IF Group(j) = c THEN "queued" ELSE status[j]]
  /\ stack' = [stack EXCEPT ![t] = Append(@, c)]
  /\ Goto(t, "posted")
  /\ UNCHANGED <<stopping, queueMutex, groupMutex, error, taskError, spurious>>

\* Mutation of NotifyPosted: workers wait like clients, without helping.
NotifyPostedNoHelp(t) ==
  /\ At(t, "posted")
  /\ WakeReady(t, "waitComplete")
  /\ UNCHANGED allButPc

\* ready.notify_all(), then the branch on active_pool.
NotifyPosted(t) ==
  /\ At(t, "posted")
  /\ WakeReady(t, IF t \in Workers THEN "loop" ELSE "waitComplete")
  /\ UNCHANGED allButPc

-----------------------------------------------------------------------------
(* run() on a worker: helping until the nested group is complete *)

\* while (group->remaining != 0): an atomic load under no mutex.
Loop(t) ==
  /\ At(t, "loop")
  /\ Goto(t, IF remaining[Top(t)] = 0 THEN "collect" ELSE "help")
  /\ UNCHANGED allButPc

\* execute_one(false, group)
Help(t) ==
  /\ At(t, "help")
  /\ QueueMutexFree
  /\ \E k \in DOMAIN jobs : Selected(k, Top(t)) /\ Take(t, k)
  /\ UNCHANGED <<stopping, queueMutex, groupVars, call, taskError, spurious>>

\* Mutation of HelpFindsNothing: an empty queue is taken for a complete group.
HelpReturnsEarly(t) ==
  /\ At(t, "help")
  /\ QueueMutexFree
  /\ jobs = <<>>
  /\ Goto(t, "collect")
  /\ UNCHANGED allButPc

HelpFindsNothing(t) ==
  /\ At(t, "help")
  /\ QueueMutexFree
  /\ jobs = <<>>
  /\ Goto(t, "wait")
  /\ UNCHANGED allButPc

-----------------------------------------------------------------------------
(* ready.wait(lock, predicate) *)

\* The predicate of the wait thread t is in: with an empty stack that of
\* execute_one(true), else that of a nested run().
Ready(t) ==
  \/ stopping
  \/ jobs # <<>>
  \/ stack[t] # <<>> /\ remaining[Top(t)] = 0

\* execute_one(true) of an idle worker.
TakeFront(t) ==
  /\ At(t, "wait")
  /\ QueueMutexFree
  /\ stack[t] = <<>>
  /\ jobs # <<>>
  /\ Take(t, 1)
  /\ UNCHANGED <<stopping, queueMutex, groupVars, call, taskError, spurious>>

\* Mutation of Exit: a stopping pool drops the jobs still queued.
ExitAtOnce(t) ==
  /\ At(t, "wait")
  /\ QueueMutexFree
  /\ stack[t] = <<>>
  /\ stopping
  /\ Goto(t, "exited")
  /\ UNCHANGED allButPc

\* execute_one(true) returns false, which ends worker_loop().
Exit(t) ==
  /\ At(t, "wait")
  /\ QueueMutexFree
  /\ stack[t] = <<>>
  /\ jobs = <<>>
  /\ stopping
  /\ Goto(t, "exited")
  /\ UNCHANGED allButPc

\* The wait of a nested run() is over.
Resume(t) ==
  /\ At(t, "wait")
  /\ QueueMutexFree
  /\ stack[t] # <<>>
  /\ Ready(t)
  /\ Goto(t, "loop")
  /\ UNCHANGED allButPc

\* The predicate is false: queue_mutex is held until the thread sleeps.
Doze(t) ==
  /\ At(t, "wait")
  /\ QueueMutexFree
  /\ ~Ready(t)
  /\ queueMutex' = t
  /\ Goto(t, "dozing")
  /\ UNCHANGED <<queueVars, groupVars, logVars, stack, taskError, spurious>>

Sleep(t) ==
  /\ At(t, "dozing")
  /\ queueMutex' = NoThread
  /\ Goto(t, "asleep")
  /\ UNCHANGED <<queueVars, groupVars, logVars, stack, taskError, spurious>>

-----------------------------------------------------------------------------
(* run() on a client: group->complete.wait(lock, predicate) *)

Completed(t) ==
  /\ At(t, "waitComplete")
  /\ GroupMutexFree(Top(t))
  /\ remaining[Top(t)] = 0
  /\ Goto(t, "collect")
  /\ UNCHANGED allButPc

DozeComplete(t) ==
  /\ At(t, "waitComplete")
  /\ GroupMutexFree(Top(t))
  /\ remaining[Top(t)] # 0
  /\ groupMutex' = [groupMutex EXCEPT ![Top(t)] = t]
  /\ Goto(t, "dozingComplete")
  /\ UNCHANGED <<queueVars, queueMutex, remaining, error, logVars, stack,
                 taskError, spurious>>

SleepComplete(t) ==
  /\ At(t, "dozingComplete")
  /\ groupMutex' = [groupMutex EXCEPT ![Top(t)] = NoThread]
  /\ Goto(t, "asleepComplete")
  /\ UNCHANGED <<queueVars, queueMutex, remaining, error, logVars, stack,
                 taskError, spurious>>

-----------------------------------------------------------------------------
(* The end of run(), the end of a task, and the job's wrapper *)

\* Read the group's error and return, or rethrow into the calling task; the
\* host's code handles what it gets.
Collect(t) ==
  /\ At(t, "collect")
  /\ GroupMutexFree(Top(t))
  /\ LET c == Top(t) IN
       /\ call' = [call EXCEPT ![c] = IF error[c] THEN "threw" ELSE "ok"]
       /\ taskError' = [taskError EXCEPT ![t] = error[c] /\ t \in Workers]
       /\ Goto(t, IF error[c] /\ t \in Workers THEN "finish" ELSE "body")
  /\ stack' = [stack EXCEPT ![t] = Front(@)]
  /\ UNCHANGED <<queueVars, queueMutex, groupVars, status, spurious>>

\* (*shared_task)(index) returns or throws.
EndTask(t) ==
  /\ t \in Workers
  /\ At(t, "body")
  /\ \E threw \in BOOLEAN :
       /\ threw => Top(t) \in MayThrow
       /\ taskError' = [taskError EXCEPT ![t] = threw]
  /\ Goto(t, "finish")
  /\ UNCHANGED <<queueVars, queueMutex, groupVars, logVars, stack, spurious>>

\* Mutation of CanCountOff: the count drops outside the group's mutex.
CountsOffUnlocked(c) == TRUE

CanCountOff(c) == GroupMutexFree(c)

\* Mutation of CountOff: a failing task is not counted off.
CountOffReturned(n, threw) == IF threw THEN n ELSE n - 1

CountOff(n, threw) == n - 1
KeepError(kept, threw) == kept \/ threw

\* Under group->mutex: keep the first error, count the job off.
Finish(t) ==
  /\ At(t, "finish")
  /\ LET j == Top(t)
         c == Group(j)
     IN /\ CanCountOff(c)
        /\ error' = [error EXCEPT ![c] = KeepError(@, taskError[t])]
        /\ remaining' = [remaining EXCEPT ![c] = CountOff(@, taskError[t])]
        /\ status' = [status EXCEPT ![j] = IF taskError[t] THEN "threw" ELSE "ok"]
        /\ taskError' = [taskError EXCEPT ![t] = FALSE]
        /\ IF remaining[c] = 1
           THEN Goto(t, "notifyComplete") /\ UNCHANGED stack
           ELSE /\ Goto(t, AfterJob(t))
                /\ stack' = [stack EXCEPT ![t] = Front(@)]
  /\ UNCHANGED <<queueVars, queueMutex, groupMutex, call, spurious>>

\* group->complete.notify_all() after the group's mutex is released.
NotifyComplete(t) ==
  /\ At(t, "notifyComplete")
  /\ pc' = [u \in Threads |->
              IF u = t THEN "notifyReady"
              ELSE IF pc[u] = "asleepComplete" /\ Top(u) = Group(Top(t))
                   THEN "waitComplete" ELSE pc[u]]
  /\ UNCHANGED allButPc

\* Mutation of NotifyReady: ready is notified without queue_mutex.
NotifyReadyUnlocked(t) ==
  /\ At(t, "notifyReady")
  /\ WakeReady(t, AfterJob(t))
  /\ stack' = [stack EXCEPT ![t] = Front(@)]
  /\ UNCHANGED <<queueVars, queueMutex, groupVars, logVars, taskError, spurious>>

\* ready.notify_all() under queue_mutex.
NotifyReady(t) ==
  /\ At(t, "notifyReady")
  /\ QueueMutexFree
  /\ WakeReady(t, AfterJob(t))
  /\ stack' = [stack EXCEPT ![t] = Front(@)]
  /\ UNCHANGED <<queueVars, queueMutex, groupVars, logVars, taskError, spurious>>

\* A condition variable may wake a thread nobody notified.
SpuriousWakeup(t) ==
  /\ spurious < MaxSpurious
  /\ spurious' = spurious + 1
  /\ \/ At(t, "asleep") /\ Goto(t, "wait")
     \/ At(t, "asleepComplete") /\ Goto(t, "waitComplete")
  /\ UNCHANGED <<queueVars, queueMutex, groupVars, logVars, stack, taskError>>

-----------------------------------------------------------------------------
Makes(t, c) == CallEmpty(t, c) \/ CallRejected(t, c) \/ Post(t, c)

\* What t does by itself once it has been started.
Step(t) ==
  \/ NotifyPosted(t) \/ Loop(t) \/ Help(t) \/ HelpFindsNothing(t)
  \/ TakeFront(t) \/ Exit(t) \/ Resume(t) \/ Doze(t) \/ Sleep(t)
  \/ Completed(t) \/ DozeComplete(t) \/ SleepComplete(t)
  \/ Collect(t) \/ EndTask(t) \/ Finish(t) \/ NotifyComplete(t) \/ NotifyReady(t)

OwnerStep == Announce \/ Join

\* The pool is gone and so is every call: the program may stop.
Terminated ==
  /\ At(Owner, "gone")
  /\ \A t \in Clients : stack[t] = <<>>
  /\ UNCHANGED vars

Next ==
  \/ \E w \in Workers : StartWorker(w)
  \/ StartFails
  \/ Destroy
  \/ OwnerStep
  \/ \E t \in Workers \cup Clients : \/ Step(t)
                                     \/ SpuriousWakeup(t)
                                     \/ \E c \in Calls : Makes(t, c)
  \/ Terminated

Spec == Init /\ [][Next]_vars

\* A thread the operating system can run gets to run.  Nothing makes a client
\* call, the owner destroy the pool, or a condition variable wake spuriously.
Fairness ==
  /\ \A t \in Workers \cup Clients : WF_vars(Step(t))
  /\ WF_vars(OwnerStep)
  /\ WF_vars(\E w \in Workers : StartWorker(w))

FairSpec == Spec /\ Fairness

-----------------------------------------------------------------------------
(* Correctness *)

\* Every variable keeps its type; a thread's places are those of its kind.
TypeOK ==
  /\ jobs \in Seq(Jobs)
  /\ stopping \in BOOLEAN
  /\ queueMutex \in Threads \cup {NoThread}
  /\ groupMutex \in [Calls -> Threads \cup {NoThread}]
  /\ remaining \in [Calls -> Nat]
  /\ error \in [Calls -> BOOLEAN]
  /\ call \in [Calls -> {"none", "open", "ok", "threw", "rejected"}]
  /\ status \in [Jobs -> {"none", "queued", "running", "ok", "threw"}]
  /\ stack \in [Threads -> Seq(Calls \cup Jobs)]
  /\ pc \in [Threads -> UNION {PlacesOf(t) : t \in Threads}]
  /\ \A t \in Threads : pc[t] \in PlacesOf(t)
  /\ taskError \in [Threads -> BOOLEAN]
  /\ spurious \in 0 .. MaxSpurious

Unfinished(c) == {j \in JobsOf(c) : status[j] \in {"queued", "running"}}

\* Group::remaining is the number of the call's jobs that have not been counted
\* off, whoever runs them and whether or not they throw (lines 140-148): this
\* is all that the two waits of run() look at.
RemainingCountsUnfinished ==
  \A c \in Calls : remaining[c] = Cardinality(Unfinished(c))

\* parallel_for() returns only when every index has run, and throws exactly
\* when the task of some index threw: the first error is kept even though jobs
\* of the group are still running on other threads (lines 176-187).
ReturnsAfterAllJobs ==
  \A c \in Calls :
    /\ call[c] \in {"ok", "threw"} =>
         /\ \A j \in JobsOf(c) : status[j] \in {"ok", "threw"}
         /\ call[c] = "threw" <=> \E j \in JobsOf(c) : status[j] = "threw"
    /\ call[c] = "rejected" => \A j \in JobsOf(c) : status[j] = "none"

\* A worker asleep on ready although it could go on is about to be notified:
\* a notifier has changed what it waits for and has not notified yet (the
\* comment of lines 149-151).
NoLostWakeup ==
  \A t \in Workers :
    At(t, "asleep") /\ Ready(t) =>
      \E u \in Threads : pc[u] \in {"posted", "notifyComplete", "notifyReady",
                                    "announce"}

\* A client asleep on a group with no job left is about to be notified by the
\* thread that ran the last one (the comment of lines 136-139).
NoLostCompletion ==
  \A t \in Clients :
    At(t, "asleepComplete") /\ remaining[Top(t)] = 0 =>
      \E w \in Workers : At(w, "notifyComplete") /\ Group(Top(w)) = Top(t)

OnStack(j, t) == \E i \in DOMAIN stack[t] : stack[t][i] = j

WaitsNested(t) == stack[t] # <<>> /\ pc[t] \in {"dozing", "asleep"}

\* No set of workers waits for one another: helping with the jobs of other
\* calls (lines 162-174) buries unfinished jobs under nested waits, but never
\* so that each worker of a set waits for jobs buried on that set only.
NoCircularWait ==
  \A S \in (SUBSET Workers) \ {{}} :
    ~ \A t \in S :
        /\ WaitsNested(t)
        /\ remaining[Top(t)] # 0
        /\ \A j \in Unfinished(Top(t)) : \E u \in S : OnStack(j, u)

\* When the destructor has joined the workers (lines 72-79) every accepted job
\* has run, and nothing is left that would touch the queue or its mutex.
DestroyedMeansDrained ==
  At(Owner, "gone") =>
    /\ jobs = <<>>
    /\ QueueMutexFree
    /\ \A j \in Jobs : status[j] \in {"none", "ok", "threw"}
    /\ \A t \in Workers : stack[t] = <<>>
    /\ \A t \in Clients : ~At(t, "posted")

\* A job goes from the queue to a thread to its end, and each of these steps
\* happens once: it is never put back, taken again or counted off twice.
JobsOnlyAdvance ==
  [][\A j \in Jobs :
       <<status[j], status'[j]>> \in
         {<<"none", "none">>, <<"none", "queued">>, <<"queued", "queued">>,
          <<"queued", "running">>, <<"running", "running">>,
          <<"running", "ok">>, <<"running", "threw">>,
          <<"ok", "ok">>, <<"threw", "threw">>}]_vars

\* Every accepted call returns, nested ones included, with any number of
\* workers and also while the pool is being destroyed.
EveryCallReturns == \A c \in Calls : call[c] = "open" ~> call[c] # "open"

\* The destructor, and the constructor that could not start a thread, return.
DestroyReturns == At(Owner, "announce") ~> At(Owner, "gone")

\* Body b has made call c and has not got its answer: a client is in it, or it
\* is next to the job on the stack of the worker that runs the job.
Awaits(b, c) ==
  IF b \in Clients
  THEN stack[b] # <<>> /\ Top(b) = c
  ELSE \E t \in Workers : \E i \in 1 .. Len(stack[t]) - 1 :
         stack[t][i] = b /\ stack[t][i + 1] = c

\* The call that body b is waiting for.
Inner(b) ==
  IF \E c \in Calls : Awaits(b, c)
  THEN CHOOSE c \in Calls : Awaits(b, c)
  ELSE NoThread

InnerCalls == [b \in Bodies |-> Inner(b)]

Failing == {j \in Jobs : \E t \in Workers : taskError[t] /\ Top(t) = j}

Abstract == INSTANCE ParallelFor WITH NoCall <- NoThread, inner <- InnerCalls,
                                      failing <- Failing

\* The pool is an implementation of the executor contract: seen through its
\* calls and task indices, every step is one the contract allows.
ImplementsParallelFor == Abstract!Spec

-----------------------------------------------------------------------------
(* The inductive invariant behind the safety properties, in layers: each layer *)
(* is inductive relative to the ones before it.                                *)

Waiting  == {"wait", "dozing", "asleep"}
InCall   == {"posted", "loop", "help", "collect"}
Notifies == {"notifyComplete", "notifyReady"}
InJob    == {"body", "finish"} \cup Notifies

\* A worker's stack holds jobs and calls in turn, a job at the bottom.
Alternates(s) ==
  /\ s # <<>> => s[1] \in Jobs
  /\ \A i \in 1 .. Len(s) - 1 : s[i] \in Calls <=> s[i + 1] \in Jobs

\* The place of a worker is one of the kind of the top of its stack.
WorkerMatches(t) ==
  /\ Alternates(stack[t])
  /\ pc[t] \in {"unborn", "exited"} => stack[t] = <<>>
  /\ pc[t] \in Waiting => stack[t] = <<>> \/ Top(t) \in Calls
  /\ pc[t] \in InCall => stack[t] # <<>> /\ Top(t) \in Calls
  /\ pc[t] \in InJob => stack[t] # <<>> /\ Top(t) \in Jobs

\* A client is in one call at most.
ClientMatches(t) ==
  IF At(t, "body") THEN stack[t] = <<>>
  ELSE Len(stack[t]) = 1 /\ stack[t][1] \in Calls

StacksMatchPlaces ==
  /\ stack[Owner] = <<>>
  /\ \A t \in Clients : ClientMatches(t)
  /\ \A t \in Workers : WorkerMatches(t)

\* stopping is set by the thread that ends the pool, as the first thing it does.
StoppingMatchesOwner ==
  stopping <=> pc[Owner] \in {"announce", "join", "gone"}

\* A call on a stack is open; a job on a stack is running, but for the job at
\* the top that its worker has counted off and still notifies about.
StackedAreLive ==
  \A t \in Threads : \A i \in DOMAIN stack[t] :
    /\ stack[t][i] \in Calls => call[stack[t][i]] = "open"
    /\ stack[t][i] \in Jobs =>
         IF i = Len(stack[t]) /\ pc[t] \in Notifies
         THEN status[stack[t][i]] \in {"ok", "threw"}
         ELSE status[stack[t][i]] = "running"

StackedOnce ==
  \A t, u \in Threads : \A i \in DOMAIN stack[t], k \in DOMAIN stack[u] :
    stack[t][i] = stack[u][k] => t = u /\ i = k

QueuedOnce ==
  /\ \A k \in DOMAIN jobs : status[jobs[k]] = "queued"
  /\ \A i, k \in DOMAIN jobs : jobs[i] = jobs[k] => i = k

Places == StackedAreLive /\ StackedOnce /\ QueuedOnce

\* A call has jobs from the moment it is accepted on, and knows their errors.
CallsKnowJobs ==
  \A c \in Calls : \A j \in JobsOf(c) :
    status[j] = "none" <=> call[c] \in {"none", "rejected"}

ErrorsKept ==
  \A c \in Calls : error[c] <=> \E j \in JobsOf(c) : status[j] = "threw"

Counts == CallsKnowJobs /\ RemainingCountsUnfinished /\ ErrorsKept

CollectsComplete ==
  \A t \in Threads : At(t, "collect") => remaining[Top(t)] = 0

\* Who holds a mutex, and what it knows by it.
MutexesHeld ==
  /\ \A t \in Threads : At(t, "dozing") <=> queueMutex = t
  /\ \A c \in Calls, t \in Threads :
       groupMutex[c] = t <=> At(t, "dozingComplete") /\ Top(t) = c
  /\ \A t \in Threads : At(t, "dozing") => ~stopping /\ jobs = <<>>
  /\ \A t \in Threads : At(t, "dozingComplete") => remaining[Top(t)] # 0

\* What has changed since a worker fell asleep, and who will tell it.
WakeupsPending ==
  /\ \A t \in Workers : At(t, "asleep") /\ jobs # <<>> =>
       \E u \in Threads : At(u, "posted")
  /\ \A t \in Workers : At(t, "asleep") /\ stopping => At(Owner, "announce")
  /\ \A t \in Workers :
       /\ pc[t] \in {"dozing", "asleep"}
       /\ stack[t] # <<>>
       /\ remaining[Top(t)] = 0
       => \E u \in Workers : pc[u] \in Notifies /\ Group(Top(u)) = Top(t)

\* A job that is queued is in the queue, one that is running is on a stack.
Located ==
  \A j \in Jobs :
    /\ status[j] = "queued" => \E k \in DOMAIN jobs : jobs[k] = j
    /\ status[j] = "running" => \E t \in Workers : OnStack(j, t)

\* What the life of the pool says of its workers and its callers: no call is
\* made before the last worker is started, and a worker that has left has seen
\* an empty queue that takes no more jobs.
Lifetime ==
  /\ At(Owner, "construct") => \E w \in Workers : At(w, "unborn")
  /\ At(Owner, "alive") => \A w \in Workers : ~At(w, "unborn")
  /\ (\E w \in Workers : At(w, "unborn")) => \A c \in Calls : call[c] = "none"
  /\ (\E w \in Workers : At(w, "exited")) => stopping /\ jobs = <<>>
  /\ stopping => \A t \in Clients : ~At(t, "posted")
  /\ At(Owner, "gone") => \A w \in Workers : pc[w] \in {"unborn", "exited"}

\* An exception is on its way from a task to the wrapper of its job only.
ErrorsInFlight == \A t \in Threads : taskError[t] => t \in Workers /\ At(t, "finish")

\* Call d is made, or helped with, on top of a running job of call c, so that
\* this job cannot go on before d has returned.
Buries(d, c) ==
  \E t \in Workers : \E i, k \in DOMAIN stack[t] :
    i < k /\ stack[t][i] \in JobsOf(c) /\ stack[t][k] = d

\* In every set of calls there is one whose jobs none of them buries: the call
\* that was made last, whose jobs were taken after all of the others were made.
BuriedInOrder ==
  \A X \in (SUBSET Calls) \ {{}} : \E c \in X : \A d \in X : ~Buries(d, c)

IInv ==
  /\ TypeOK /\ StacksMatchPlaces /\ StoppingMatchesOwner
  /\ Places
  /\ Counts /\ CollectsComplete /\ ReturnsAfterAllJobs
  /\ MutexesHeld /\ WakeupsPending /\ NoLostCompletion
  /\ Located /\ Lifetime /\ ErrorsInFlight /\ BuriedInOrder

=============================================================================
