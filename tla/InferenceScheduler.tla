-------------------------- MODULE InferenceScheduler ---------------------------
(***************************************************************************)
(* InferenceScheduler (vasr-runtime, scheduler.rs): callers on their own   *)
(* threads submit tasks to a priority queue, and one worker thread takes   *)
(* them off it and runs them.                                              *)
(*                                                                         *)
(* A submission is three steps that other threads can come between: the    *)
(* sequence number is taken outside the lock, the task is pushed under the *)
(* lock, and the condition variable is notified after it is released.  The *)
(* worker looks at the queue and goes to sleep in one step, as             *)
(* Condvar::wait releases the mutex atomically.                            *)
(***************************************************************************)
EXTENDS Integers, Sequences, FiniteSets, Functions

CONSTANTS
  Tasks,      \* the submissions made, one caller each
  Realtime,   \* those of priority Realtime; the others are Transcribe
  MayPanic,   \* those whose closure may panic
  MayDrop     \* those of callers that use submit and may drop its future

ASSUME TaskAssumption ==
  /\ Realtime \subseteq Tasks
  /\ MayPanic \subseteq Tasks
  /\ MayDrop \subseteq Tasks

VARIABLES
  caller,     \* task -> where its caller is
  sequence,   \* the AtomicU64
  number,     \* task -> its sequence number, once taken
  queue,      \* the tasks in the BinaryHeap
  worker,     \* where the worker thread is
  started,    \* the tasks popped so far, in order; the last is the one running
  answer,     \* task -> what its channel holds: nothing, the result, or that the sender is gone
  before      \* history: task -> those queued when its submission began

schedulerVars == <<caller, sequence, number, queue, worker, started, answer, before>>

CallerStates == {"idle", "numbered", "pushed", "waiting", "returned", "gone"}
Enqueued == CallerStates \ {"idle", "numbered"}
WorkerStates == {"looking", "asleep", "running", "dead"}

SchedulerInit ==
  /\ caller = [t \in Tasks |-> "idle"]
  /\ sequence = 0
  /\ number = [t \in Tasks |-> 0]
  /\ queue = {}
  /\ worker = "looking"
  /\ started = <<>>
  /\ answer = [t \in Tasks |-> "none"]
  /\ before = [t \in Tasks |-> {}]

--------------------------------------------------------------------------------
\* submit and submit_blocking: fetch_add, ...
TakeNumber(t) ==
  /\ caller[t] = "idle"
  /\ number' = [number EXCEPT ![t] = sequence]
  /\ sequence' = sequence + 1
  /\ before' = [before EXCEPT ![t] = {u \in Tasks : caller[u] \in Enqueued}]
  /\ caller' = [caller EXCEPT ![t] = "numbered"]
  /\ UNCHANGED <<queue, worker, started, answer>>

\* Mutant: the notification is left out.
PushUnannounced(t) ==
  /\ caller[t] = "numbered"
  /\ queue' = queue \cup {t}
  /\ caller' = [caller EXCEPT ![t] = "waiting"]
  /\ UNCHANGED <<sequence, number, worker, started, answer, before>>

\* ... push under the lock, ...
Push(t) ==
  /\ caller[t] = "numbered"
  /\ queue' = queue \cup {t}
  /\ caller' = [caller EXCEPT ![t] = "pushed"]
  /\ UNCHANGED <<sequence, number, worker, started, answer, before>>

\* ... notify_one, after which the caller waits for the answer unless it is there.
\* The notification is lost if the worker is not asleep.
Notify(t) ==
  /\ caller[t] = "pushed"
  /\ caller' = [caller EXCEPT ![t] = "waiting"]
  /\ worker' = IF worker = "asleep" THEN "looking" ELSE worker
  /\ UNCHANGED <<sequence, number, queue, started, answer, before>>

\* The future of submit is dropped; the task stays where it is.
DropFuture(t) ==
  /\ t \in MayDrop
  /\ caller[t] = "waiting"
  /\ caller' = [caller EXCEPT ![t] = "gone"]
  /\ UNCHANGED <<sequence, number, queue, worker, started, answer, before>>

\* rx.recv, or the await of the future: the result, or "inference scheduler worker
\* stopped" once the sender is gone.
Receive(t) ==
  /\ caller[t] = "waiting"
  /\ answer[t] # "none"
  /\ caller' = [caller EXCEPT ![t] = "returned"]
  /\ UNCHANGED <<sequence, number, queue, worker, started, answer, before>>

--------------------------------------------------------------------------------
\* Mutant: by sequence number only.
AheadByNumber(t, u) == number[t] < number[u]

\* Mutant: the sequence numbers are not reversed, so the heap pops the latest.
AheadLatest(t, u) ==
  IF t \in Realtime <=> u \in Realtime THEN number[t] > number[u] ELSE t \in Realtime

\* QueuedTask::cmp: BinaryHeap pops the greatest, which is the one with the smallest
\* priority value and then the smallest sequence number.
Ahead(t, u) ==
  IF t \in Realtime <=> u \in Realtime THEN number[t] < number[u] ELSE t \in Realtime

FirstInQueue(t) == \A u \in queue \ {t} : Ahead(t, u)

\* worker_loop, holding the lock: take the first task...
Pop ==
  /\ worker = "looking"
  /\ \E t \in queue :
       /\ FirstInQueue(t)
       /\ queue' = queue \ {t}
       /\ started' = Append(started, t)
  /\ worker' = "running"
  /\ UNCHANGED <<caller, sequence, number, answer, before>>

\* ... or wait.
Sleep ==
  /\ worker = "looking"
  /\ queue = {}
  /\ worker' = "asleep"
  /\ UNCHANGED <<caller, sequence, number, queue, started, answer, before>>

\* Condvar::wait may return without a notification.
SpuriousWakeup ==
  /\ worker = "asleep"
  /\ worker' = "looking"
  /\ UNCHANGED <<caller, sequence, number, queue, started, answer, before>>

Current == started[Len(started)]

\* Mutant: the worker waits before it looks at the queue again.
CompleteThenSleep ==
  /\ worker = "running"
  /\ answer' = [answer EXCEPT ![Current] = "value"]
  /\ worker' = "asleep"
  /\ UNCHANGED <<caller, sequence, number, queue, started, before>>

\* (task.run)(): the closure sends what the task returns; a send to a dropped future
\* is ignored.
Complete ==
  /\ worker = "running"
  /\ answer' = [answer EXCEPT ![Current] = "value"]
  /\ worker' = "looking"
  /\ UNCHANGED <<caller, sequence, number, queue, started, before>>

\* The task panics: nothing catches it, so the worker thread ends.  The closure is
\* dropped with its sender; the queue, whose lock is not held, stays as it is.
Panic ==
  /\ worker = "running"
  /\ Current \in MayPanic
  /\ answer' = [answer EXCEPT ![Current] = "closed"]
  /\ worker' = "dead"
  /\ UNCHANGED <<caller, sequence, number, queue, started, before>>

Caller(t) == TakeNumber(t) \/ Push(t) \/ Notify(t) \/ DropFuture(t) \/ Receive(t)
Worker    == Pop \/ Sleep \/ Complete \/ Panic

SchedulerNext == Worker \/ SpuriousWakeup \/ \E t \in Tasks : Caller(t)

SchedulerSpec == SchedulerInit /\ [][SchedulerNext]_schedulerVars

\* The operating system runs every thread that can run; a task that started returns.
\* Nothing obliges a caller to submit, or to drop a future, or the condition variable
\* to wake up by itself.
FairSpec ==
  /\ SchedulerSpec
  /\ WF_schedulerVars(Worker)
  /\ \A t \in Tasks : WF_schedulerVars(Push(t) \/ Notify(t) \/ Receive(t))

--------------------------------------------------------------------------------
TypeOK ==
  /\ caller \in [Tasks -> CallerStates]
  /\ sequence \in Nat
  /\ number \in [Tasks -> Nat]
  /\ queue \subseteq Tasks
  /\ worker \in WorkerStates
  /\ started \in Seq(Tasks)
  /\ queue \cap Range(started) = {}
  /\ worker = "running" => started # <<>>
  /\ answer \in [Tasks -> {"none", "value", "closed"}]
  /\ before \in [Tasks -> SUBSET Tasks]

\* A task that was queued before another one's submission began, and is at least as
\* urgent, is started first, however the threads of their callers interleave.
SubmissionOrder ==
  \A i \in DOMAIN started : \A t \in before[started[i]] :
    (started[i] \in Realtime => t \in Realtime) => \E j \in 1 .. i-1 : started[j] = t

\* No transcription starts while a realtime task is in the queue.
RealtimeFirst ==
  [][started' # started /\ started'[Len(started')] \notin Realtime
       => queue \cap Realtime = {}]_schedulerVars

\* The worker sleeps on a queue that is not empty only while the caller that filled it
\* has still to notify it: no wakeup is lost between the push and the notification.
NoLostWakeup ==
  worker = "asleep" /\ queue # {} => \E t \in queue : caller[t] = "pushed"

\* As long as no panic has ended the worker, a submission returns, unless its future
\* is dropped: no task is left in the queue behind a worker that does not wake up.
ReturnsWhileWorkerLives ==
  \A t \in Tasks :
    (caller[t] = "numbered") ~> (caller[t] \in {"returned", "gone"} \/ worker = "dead")

================================================================================
