-------------------------------- MODULE Pool --------------------------------
(***************************************************************************)
(* ThreadPool: workers that take tasks from a queue under a mutex and      *)
(* sleep on a condition variable while it is empty, enqueue, and the       *)
(* destructor, which stops the pool and joins the workers.                 *)
(*                                                                         *)
(* The owner enqueues Posted and destroys the pool; a task that runs       *)
(* enqueues its Children, also while the pool is being destroyed, and an   *)
(* enqueue that throws ends it (its future holds the exception).           *)
(***************************************************************************)
EXTENDS Naturals, Sequences, FiniteSets, SequencesExt

CONSTANTS
  Workers,      \* the threads of the pool
  Tasks,        \* what can be enqueued
  Posted,       \* the tasks the owner enqueues, in order
  Children,     \* Children[t]: the tasks that task t enqueues, in order
  MaxSpurious   \* bound: spurious wake-ups of one behaviour

Owner == "owner"
None == "none"
Threads == Workers \cup {Owner}

PoolAssumption ==
  /\ Owner \notin Workers /\ None \notin Threads \cup Tasks
  /\ IsFiniteSet(Workers) /\ Workers # {}
  /\ Posted \in Seq(Tasks)
  /\ Children \in [Tasks -> Seq(Tasks)]
  /\ MaxSpurious \in Nat

VARIABLES
  tasks,     \* the queue
  stop,
  mutex,     \* who holds queue_mutex, or None
  sleeping,  \* the workers blocked in condition.wait
  pc,        \* where each thread is
  task,      \* the task each worker has taken
  todo,      \* what each thread still has to enqueue
  accepted,  \* history: the tasks that enqueue accepted, in order
  finished,  \* history: the tasks that ran to their end or to an exception
  spurious   \* how many spurious wake-ups there have been

vars == <<tasks, stop, mutex, sleeping, pc, task, todo, accepted, finished,
          spurious>>

Init ==
  /\ tasks = <<>> /\ stop = FALSE /\ mutex = None /\ sleeping = {}
  /\ pc = [w \in Threads |-> IF w = Owner THEN "run" ELSE "loop"]
  /\ task = [w \in Workers |-> None]
  /\ todo = [w \in Threads |-> IF w = Owner THEN Posted ELSE <<>>]
  /\ accepted = <<>> /\ finished = {} /\ spurious = 0

Enter(w, place) == pc' = [pc EXCEPT ![w] = place]
history == <<accepted, finished, spurious>>

\* std::unique_lock, at the head of the worker loop and after a wake-up, in
\* enqueue, and in the destructor.
MutexFree == mutex = None
Lock(w) ==
  /\ MutexFree /\ w \notin sleeping
  /\ \/ pc[w] = "loop" /\ Enter(w, "wait")
     \/ pc[w] = "run" /\ todo[w] # <<>> /\ Enter(w, "enqueue")
     \/ w = Owner /\ pc[w] = "run" /\ todo[w] = <<>> /\ Enter(w, "stopping")
  /\ mutex' = w
  /\ UNCHANGED <<tasks, stop, sleeping, task, todo, history>>

\* condition.wait with its predicate: release the mutex and sleep; the woken
\* worker locks the mutex and evaluates the predicate again.
Ready == stop \/ tasks # <<>>
Sleep(w) ==
  /\ pc[w] = "wait" /\ ~Ready
  /\ sleeping' = sleeping \cup {w} /\ mutex' = None /\ Enter(w, "loop")
  /\ UNCHANGED <<tasks, stop, task, todo, history>>

MayReturnOnStop == stop
MayReturn == stop /\ tasks = <<>>
Return(w) ==
  /\ pc[w] = "wait" /\ Ready /\ MayReturn
  /\ mutex' = None /\ Enter(w, "returned")
  /\ UNCHANGED <<tasks, stop, sleeping, task, todo, history>>

Take(w) ==
  /\ pc[w] = "wait" /\ Ready /\ ~MayReturn
  /\ task' = [task EXCEPT ![w] = Head(tasks)]
  /\ tasks' = Tail(tasks)
  /\ todo' = [todo EXCEPT ![w] = Children[Head(tasks)]]
  /\ mutex' = None /\ Enter(w, "run")
  /\ UNCHANGED <<stop, sleeping, accepted, finished, spurious>>

\* task() returns.
Run(w) ==
  /\ w \in Workers /\ pc[w] = "run" /\ todo[w] = <<>>
  /\ finished' = finished \cup {task[w]}
  /\ task' = [task EXCEPT ![w] = None]
  /\ Enter(w, "loop")
  /\ UNCHANGED <<tasks, stop, mutex, sleeping, todo, accepted,
                 spurious>>

\* enqueue on a stopped pool throws; what the caller had left is not
\* enqueued.
Refuses == stop
Throw(w) ==
  /\ pc[w] = "enqueue" /\ Refuses
  /\ todo' = [todo EXCEPT ![w] = <<>>]
  /\ mutex' = None /\ Enter(w, "run")
  /\ UNCHANGED <<tasks, stop, sleeping, task, history>>

Emplace(w) ==
  /\ pc[w] = "enqueue" /\ ~Refuses
  /\ tasks' = Append(tasks, Head(todo[w]))
  /\ accepted' = Append(accepted, Head(todo[w]))
  /\ todo' = [todo EXCEPT ![w] = Tail(@)]
  /\ mutex' = None /\ Enter(w, "notify")
  /\ UNCHANGED <<stop, sleeping, task, finished, spurious>>

\* condition.notify_one, after the mutex is released.
WokenByNone == {{}}
WokenByOne == IF sleeping = {} THEN {{}} ELSE {{w} : w \in sleeping}
NotifyOne(w) ==
  /\ pc[w] = "notify"
  /\ \E woken \in WokenByOne : sleeping' = sleeping \ woken
  /\ Enter(w, "run")
  /\ UNCHANGED <<tasks, stop, mutex, task, todo, history>>

\* ~ThreadPool: stop under the mutex, wake all, join.
SetStop ==
  /\ pc[Owner] = "stopping"
  /\ stop' = TRUE /\ mutex' = None /\ Enter(Owner, "notify_all")
  /\ UNCHANGED <<tasks, sleeping, task, todo, history>>

WokenByAll == {sleeping}
NotifyAll ==
  /\ pc[Owner] = "notify_all"
  /\ \E woken \in WokenByAll : sleeping' = sleeping \ woken
  /\ Enter(Owner, "join")
  /\ UNCHANGED <<tasks, stop, mutex, task, todo, history>>

Join ==
  /\ pc[Owner] = "join" /\ \A w \in Workers : pc[w] = "returned"
  /\ Enter(Owner, "returned")
  /\ UNCHANGED <<tasks, stop, mutex, sleeping, task, todo, history>>

\* A condition variable may wake without a notification.
Spurious(w) ==
  /\ w \in sleeping /\ spurious < MaxSpurious
  /\ sleeping' = sleeping \ {w}
  /\ spurious' = spurious + 1
  /\ UNCHANGED <<tasks, stop, mutex, pc, task, todo, accepted,
                 finished>>

Step(w) ==
  Lock(w) \/ Sleep(w) \/ Return(w) \/ Take(w) \/ Run(w)
  \/ Throw(w) \/ Emplace(w) \/ NotifyOne(w)
Destroy == SetStop \/ NotifyAll \/ Join

Next ==
  \/ \E w \in Threads : Step(w)
  \/ Destroy
  \/ \E w \in Workers : Spurious(w)

Spec == Init /\ [][Next]_vars
\* The threads are scheduled, and a mutex that stays free is acquired.
FairSpec ==
  Spec /\ (\A w \in Threads : WF_vars(Step(w))) /\ WF_vars(Destroy)

------------------------------------------------------------------------------
(* Properties.                                                             *)

TypeOK ==
  /\ tasks \in Seq(Tasks) /\ stop \in BOOLEAN
  /\ mutex \in Threads \cup {None} /\ sleeping \subseteq Workers
  /\ pc \in [Threads -> {"loop", "wait", "run", "enqueue", "notify",
                         "stopping", "notify_all", "join", "returned"}]
  /\ \A w \in Threads : mutex = w <=> pc[w] \in {"wait", "enqueue", "stopping"}
  /\ task \in [Workers -> Tasks \cup {None}]
  /\ todo \in [Threads -> Seq(Tasks)]
  /\ accepted \in Seq(Tasks) /\ finished \subseteq Tasks /\ spurious \in 0..MaxSpurious

\* No wake-up is lost: while tasks wait, or the pool is stopped, a worker
\* sleeps only if a notification is still to come or enough others are awake
\* to see the queue: notify_one comes after the mutex is released, and a
\* worker that was awake may take the task it announces.
NoLostWakeup ==
  /\ tasks # <<>> /\ sleeping = {w \in Workers : pc[w] # "returned"} =>
       \E w \in Threads : pc[w] \in {"notify", "notify_all"}
  /\ pc[Owner] = "join" => sleeping = {}

\* The destructor returns only after every accepted task has run, those
\* accepted from a task while it waited included.
AllRun ==
  pc[Owner] = "returned" =>
    /\ tasks = <<>> /\ ToSet(accepted) = finished
    /\ \A w \in Workers : task[w] = None

\* The destructor returns.
Termination == <>(pc[Owner] = "returned")
=============================================================================
