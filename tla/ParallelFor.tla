---------------------------- MODULE ParallelFor ----------------------------
(***************************************************************************)
(* What a TaskExecutor promises the code that calls parallel_for()         *)
(* (include/nanoxgen/task_executor.h), with no threads, queue or locks:    *)
(* every task index of an accepted call runs once, the call returns when   *)
(* all of them have, it throws exactly when one of them threw, and calls   *)
(* may be made concurrently and from inside running tasks.                 *)
(***************************************************************************)
EXTENDS Naturals

CONSTANTS Clients, Calls, NoCall, TaskCount, MayCall, MayThrow

JobsOf(c) == {c} \X (0 .. TaskCount[c] - 1)
Jobs      == UNION {JobsOf(c) : c \in Calls}
Bodies    == Clients \cup Jobs

VARIABLES
  stopping,   \* the executor takes no more calls
  call,       \* [Calls -> what became of the call]
  status,     \* [Jobs -> what became of the task index]
  inner,      \* [Bodies -> the call the body is waiting for, or NoCall]
  failing     \* the running tasks an exception is leaving

vars == <<stopping, call, status, inner, failing>>

Init ==
  /\ stopping = FALSE
  /\ call = [c \in Calls |-> "none"]
  /\ status = [j \in Jobs |-> "none"]
  /\ inner = [b \in Bodies |-> NoCall]
  /\ failing = {}

Stop == /\ stopping' = TRUE
        /\ UNCHANGED <<call, status, inner, failing>>

\* Body b is running and free to make call c.
Free(b, c) ==
  /\ call[c] = "none"
  /\ b \in MayCall[c]
  /\ inner[b] = NoCall
  /\ b \in Jobs => status[b] = "running" /\ b \notin failing

Empty(b, c) ==
  /\ Free(b, c)
  /\ TaskCount[c] = 0
  /\ call' = [call EXCEPT ![c] = "ok"]
  /\ UNCHANGED <<stopping, status, inner, failing>>

Reject(b, c) ==
  /\ Free(b, c)
  /\ stopping
  /\ b \in Jobs
  /\ call' = [call EXCEPT ![c] = "rejected"]
  /\ failing' = failing \cup {b}
  /\ UNCHANGED <<stopping, status, inner>>

Accept(b, c) ==
  /\ Free(b, c)
  /\ ~stopping
  /\ TaskCount[c] # 0
  /\ call' = [call EXCEPT ![c] = "open"]
  /\ status' = [j \in Jobs |-> IF j \in JobsOf(c) THEN "queued" ELSE status[j]]
  /\ inner' = [inner EXCEPT ![b] = c]
  /\ UNCHANGED <<stopping, failing>>

Start(j) ==
  /\ status[j] = "queued"
  /\ status' = [status EXCEPT ![j] = "running"]
  /\ UNCHANGED <<stopping, call, inner, failing>>

Throw(j) ==
  /\ status[j] = "running"
  /\ inner[j] = NoCall
  /\ j \in MayThrow
  /\ failing' = failing \cup {j}
  /\ UNCHANGED <<stopping, call, status, inner>>

Finish(j) ==
  /\ status[j] = "running"
  /\ inner[j] = NoCall
  /\ status' = [status EXCEPT ![j] = IF j \in failing THEN "threw" ELSE "ok"]
  /\ failing' = failing \ {j}
  /\ UNCHANGED <<stopping, call, inner>>

\* The call b waits for has no task left to run: it returns, or throws into b.
Return(b) ==
  LET c == inner[b]
      threw == \E j \in JobsOf(c) : status[j] = "threw"
  IN /\ c # NoCall
     /\ \A j \in JobsOf(c) : status[j] \in {"ok", "threw"}
     /\ call' = [call EXCEPT ![c] = IF threw THEN "threw" ELSE "ok"]
     /\ inner' = [inner EXCEPT ![b] = NoCall]
     /\ failing' = IF threw /\ b \in Jobs THEN failing \cup {b} ELSE failing
     /\ UNCHANGED <<stopping, status>>

Next ==
  \/ Stop
  \/ \E b \in Bodies, c \in Calls : Empty(b, c) \/ Reject(b, c) \/ Accept(b, c)
  \/ \E j \in Jobs : Start(j) \/ Throw(j) \/ Finish(j)
  \/ \E b \in Bodies : Return(b)

Spec == Init /\ [][Next]_vars

=============================================================================
