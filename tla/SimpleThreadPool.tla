------------------------- MODULE SimpleThreadPool -------------------------
(***************************************************************************)
(* RcuUtils::SimpleThreadPool (src/src/utils/threading.cpp 198-274,       *)
(* src/include/utils/threading.h 130-146): worker threads that take tasks *)
(* from tasks_ under queue_mutex_ and wait on condition_, client threads   *)
(* that call enqueue and stop.                                             *)
(*                                                                         *)
(* Every section run under queue_mutex_ touches only state the mutex       *)
(* guards, and is one step here, so the mutex itself is left implicit.    *)
(* The unlocked reads of stop_ (a plain bool, written under the mutex) in  *)
(* enqueue and stop are steps of their own; a byte-sized read sees the    *)
(* value before or after the write, which is what an interleaving gives.  *)
(* condition_ is the set of workers in state "wait"; notify_one wakes any *)
(* one of them, notify_all all of them; a woken worker re-takes the mutex *)
(* and re-evaluates the predicate.  Spurious wake-ups only add such        *)
(* re-evaluations and are left out.  A task is a number; running it is    *)
(* recorded in `executed`.                                                 *)
(***************************************************************************)
EXTENDS Naturals, Sequences, SequencesExt, FiniteSets

CONSTANTS
    Workers,    \* the worker threads the constructor starts
    Clients,    \* threads calling enqueue and stop
    Stoppers,   \* the clients that call stop (the owner, whose destructor does)
    MaxCalls,   \* bound on the number of enqueue and stop calls
    NoTask

ASSUME /\ Stoppers \subseteq Clients /\ MaxCalls \in Nat /\ NoTask \notin Nat

Tasks == 1..MaxCalls

VARIABLES
    tasks,      \* tasks_: the queue, a sequence of tasks
    stop,       \* stop_
    wpc,        \* wpc[w]: "loop" (taking the mutex), "wait" (in condition_),
                \*          "run" (running wtask[w]) or "exited"
    wtask,      \* wtask[w]: the task worker w moved out of the queue
    joinable,   \* joinable[w]: workers_[w] has not been joined
    cpc,        \* cpc[c]: where client c's current call is
    cur,        \* cur[c]: the task c's enqueue is adding
    toJoin,     \* toJoin[c]: the workers c's stop still has to visit
    nextTask,   \* the task the next enqueue adds
    callsLeft,  \* enqueue and stop calls still to be made
    executed    \* the tasks that have run

vars == <<tasks, stop, wpc, wtask, joinable, cpc, cur, toJoin, nextTask,
          callsLeft, executed>>

workerVars == <<wpc, wtask>>
clientVars == <<cpc, cur, toJoin, nextTask, callsLeft>>

TypeOK ==
    /\ tasks \in Seq(Tasks)
    /\ stop \in BOOLEAN
    /\ wpc \in [Workers -> {"loop", "wait", "run", "exited"}]
    /\ wtask \in [Workers -> Tasks \cup {NoTask}]
    /\ \A w \in Workers : (wpc[w] = "run") = (wtask[w] # NoTask)
    /\ joinable \in [Workers -> BOOLEAN]
    /\ cpc \in [Clients -> {"idle", "enq_check", "enq_push", "enq_notify",
                            "stop_check", "stop_set", "stop_notify", "stop_join"}]
    /\ cur \in [Clients -> Tasks \cup {NoTask}]
    /\ toJoin \in [Clients -> SUBSET Workers]
    /\ nextTask \in 1..MaxCalls + 1
    /\ callsLeft \in 0..MaxCalls
    /\ executed \subseteq Tasks

\* The constructor: stop_(false), every worker started and entering its loop.
Init ==
    /\ tasks = <<>>
    /\ stop = FALSE
    /\ wpc = [w \in Workers |-> "loop"]
    /\ wtask = [w \in Workers |-> NoTask]
    /\ joinable = [w \in Workers |-> TRUE]
    /\ cpc = [c \in Clients |-> "idle"]
    /\ cur = [c \in Clients |-> NoTask]
    /\ toJoin = [c \in Clients |-> {}]
    /\ nextTask = 1
    /\ callsLeft = MaxCalls
    /\ executed = {}

-----------------------------------------------------------------------------
(* The worker loop (the lambda the constructor gives each worker) *)

\* condition_.wait(lock, pred) returns once stop_ || !tasks_.empty() holds.
WaitPredicate == stop \/ tasks # <<>>

\* With queue_mutex_ taken, the predicate is false: wait on condition_.
WorkerWait(w) ==
    /\ wpc[w] = "loop"
    /\ ~WaitPredicate
    /\ wpc' = [wpc EXCEPT ![w] = "wait"]
    /\ UNCHANGED <<tasks, wtask, executed>>

\* A variant that leaves as soon as stop_ is set, tasks or not.
WorkerExitOnStop(w) ==
    /\ wpc[w] = "loop"
    /\ stop
    /\ wpc' = [wpc EXCEPT ![w] = "exited"]
    /\ UNCHANGED <<tasks, wtask, executed>>

\* if (stop_ && tasks_.empty()) return;
WorkerExit(w) ==
    /\ wpc[w] = "loop"
    /\ stop /\ tasks = <<>>
    /\ wpc' = [wpc EXCEPT ![w] = "exited"]
    /\ UNCHANGED <<tasks, wtask, executed>>

\* task = std::move(tasks_.front()); tasks_.erase(tasks_.begin()); unlock.
WorkerTake(w) ==
    /\ wpc[w] = "loop"
    /\ tasks # <<>>
    /\ wtask' = [wtask EXCEPT ![w] = Head(tasks)]
    /\ tasks' = Tail(tasks)
    /\ wpc' = [wpc EXCEPT ![w] = "run"]
    /\ UNCHANGED executed

\* A variant of the step below that does not move the task out of `task`.
WorkerRunKeepTask(w) ==
    /\ wpc[w] = "run"
    /\ executed' = executed \cup {wtask[w]}
    /\ wpc' = [wpc EXCEPT ![w] = "loop"]
    /\ UNCHANGED <<tasks, wtask>>

\* if (task) task(); outside the mutex, then round the loop again.
WorkerRun(w) ==
    /\ wpc[w] = "run"
    /\ executed' = executed \cup {wtask[w]}
    /\ wtask' = [wtask EXCEPT ![w] = NoTask]
    /\ wpc' = [wpc EXCEPT ![w] = "loop"]
    /\ UNCHANGED tasks

WorkerStep(w) ==
    /\ \/ WorkerWait(w) \/ WorkerExit(w) \/ WorkerTake(w) \/ WorkerRun(w)
    /\ UNCHANGED <<stop, joinable, clientVars>>

-----------------------------------------------------------------------------
(* Clients *)

Goto(c, label) == cpc' = [cpc EXCEPT ![c] = label]

\* condition_.notify_one(): one waiting worker, if any, re-takes the mutex.
NotifyOne ==
    \/ /\ \A w \in Workers : wpc[w] # "wait"
       /\ UNCHANGED wpc
    \/ \E w \in Workers :
          /\ wpc[w] = "wait"
          /\ wpc' = [wpc EXCEPT ![w] = "loop"]

\* condition_.notify_all()
NotifyAll == wpc' = [w \in Workers |-> IF wpc[w] = "wait" THEN "loop" ELSE wpc[w]]

\* A client starts enqueue(task) or, if it owns the pool, stop().
Call(c) ==
    /\ cpc[c] = "idle"
    /\ callsLeft > 0
    /\ \/ /\ Goto(c, "enq_check")
          /\ cur' = [cur EXCEPT ![c] = nextTask]
          /\ nextTask' = nextTask + 1
       \/ /\ c \in Stoppers
          /\ Goto(c, "stop_check")
          /\ UNCHANGED <<cur, nextTask>>
    /\ callsLeft' = callsLeft - 1
    /\ UNCHANGED <<tasks, stop, workerVars, joinable, toJoin, executed>>

\* enqueue: if (stop_) return; read without queue_mutex_.
EnqCheck(c) ==
    /\ cpc[c] = "enq_check"
    /\ \/ stop /\ Goto(c, "idle") /\ cur' = [cur EXCEPT ![c] = NoTask]
       \/ ~stop /\ Goto(c, "enq_push") /\ UNCHANGED cur
    /\ UNCHANGED <<tasks, stop, wpc, joinable, toJoin>>

\* tasks_.emplace_back(f) under queue_mutex_.
EnqPush(c) ==
    /\ cpc[c] = "enq_push"
    /\ tasks' = Append(tasks, cur[c])
    /\ Goto(c, "enq_notify")
    /\ UNCHANGED <<stop, wpc, joinable, cur, toJoin>>

\* A variant of the step below without condition_.notify_one().
EnqNotifyNone(c) ==
    /\ cpc[c] = "enq_notify"
    /\ UNCHANGED wpc
    /\ Goto(c, "idle")
    /\ cur' = [cur EXCEPT ![c] = NoTask]
    /\ UNCHANGED <<tasks, stop, joinable, toJoin>>

\* condition_.notify_one() after the mutex is released; enqueue returns.
EnqNotify(c) ==
    /\ cpc[c] = "enq_notify"
    /\ NotifyOne
    /\ Goto(c, "idle")
    /\ cur' = [cur EXCEPT ![c] = NoTask]
    /\ UNCHANGED <<tasks, stop, joinable, toJoin>>

\* stop: if (stop_) return; read without queue_mutex_.
StopCheck(c) ==
    /\ cpc[c] = "stop_check"
    /\ Goto(c, IF stop THEN "idle" ELSE "stop_set")
    /\ UNCHANGED <<tasks, stop, wpc, joinable, cur, toJoin>>

\* stop_ = true under queue_mutex_.
StopSet(c) ==
    /\ cpc[c] = "stop_set"
    /\ stop' = TRUE
    /\ Goto(c, "stop_notify")
    /\ UNCHANGED <<tasks, wpc, joinable, cur, toJoin>>

\* A variant of the step below without condition_.notify_all().
StopNotifyNone(c) ==
    /\ cpc[c] = "stop_notify"
    /\ UNCHANGED wpc
    /\ toJoin' = [toJoin EXCEPT ![c] = Workers]
    /\ Goto(c, "stop_join")
    /\ UNCHANGED <<tasks, stop, joinable, cur>>

\* condition_.notify_all(), then the loop over workers_ begins.
StopNotify(c) ==
    /\ cpc[c] = "stop_notify"
    /\ NotifyAll
    /\ toJoin' = [toJoin EXCEPT ![c] = Workers]
    /\ Goto(c, "stop_join")
    /\ UNCHANGED <<tasks, stop, joinable, cur>>

(***************************************************************************)
(* if (worker.joinable()) worker.join(); for the next worker of workers_   *)
(* (join blocks until the worker has returned); stop returns after the    *)
(* last one.                                                               *)
(***************************************************************************)
StopJoin(c) ==
    /\ cpc[c] = "stop_join"
    /\ \/ /\ toJoin[c] = {}
          /\ Goto(c, "idle")
          /\ UNCHANGED <<joinable, toJoin>>
       \/ /\ toJoin[c] # {}
          /\ LET w == CHOOSE x \in toJoin[c] : TRUE
             IN  /\ joinable[w] => wpc[w] = "exited"
                 /\ joinable' = [joinable EXCEPT ![w] = FALSE]
                 /\ toJoin' = [toJoin EXCEPT ![c] = @ \ {w}]
          /\ UNCHANGED cpc
    /\ UNCHANGED <<tasks, stop, wpc, cur>>

ClientStep(c) ==
    /\ \/ EnqCheck(c) \/ EnqPush(c) \/ EnqNotify(c)
       \/ StopCheck(c) \/ StopSet(c) \/ StopNotify(c) \/ StopJoin(c)
    /\ UNCHANGED <<wtask, nextTask, callsLeft, executed>>

\* Every call made has returned and no call is left to make.
Finished ==
    /\ callsLeft = 0
    /\ \A c \in Clients : cpc[c] = "idle"
    /\ UNCHANGED vars

Next ==
    \/ \E w \in Workers : WorkerStep(w)
    \/ \E c \in Clients : Call(c) \/ ClientStep(c)
    \/ Finished

(***************************************************************************)
(* The OS eventually runs every runnable thread: a worker that is not in  *)
(* condition_ and a client inside a call.  Starting a call is up to the    *)
(* caller and is not fair.                                                 *)
(***************************************************************************)
Fairness ==
    /\ \A w \in Workers : WF_vars(WorkerStep(w))
    /\ \A c \in Clients : WF_vars(ClientStep(c))

Spec == Init /\ [][Next]_vars

FairSpec == Spec /\ Fairness

-----------------------------------------------------------------------------
(* Properties *)

(***************************************************************************)
(* Every task that enqueue put into tasks_ is run by some worker: the      *)
(* notify_one after the push, the predicate re-checked under the mutex,    *)
(* and the workers draining the queue before they leave on stop must make  *)
(* sure that no task stays behind.                                         *)
(***************************************************************************)
EveryQueuedTaskRuns ==
    \A t \in Tasks : t \in Range(tasks) ~> t \in executed

(***************************************************************************)
(* stop() "should wait for tasks to complete" (threading_utils_test,       *)
(* StopPool): when the call that set stop_ returns, every worker has       *)
(* exited and every task queued has been run.                              *)
(***************************************************************************)
StopDrainsQueue ==
    [][\A c \in Clients :
          cpc[c] = "stop_join" /\ cpc'[c] = "idle" =>
              /\ tasks = <<>>
              /\ \A w \in Workers : wpc[w] = "exited"]_vars

(***************************************************************************)
(* Every enqueue and stop call returns: stop's joins end because           *)
(* notify_all wakes every waiting worker once stop_ is set.                *)
(***************************************************************************)
EveryCallReturns == \A c \in Clients : cpc[c] # "idle" ~> cpc[c] = "idle"

=============================================================================
