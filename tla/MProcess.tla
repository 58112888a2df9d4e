------------------------------ MODULE MProcess ------------------------------
(***************************************************************************)
(* pykedixa/mprocess.py: one owner process puts tasks on a                 *)
(* multiprocessing.Queue, nproc worker processes run `for task in ctx`,    *)
(* i.e. MContext.__next__, or `async for`, i.e. __anext__, and stop()      *)
(* closes the queue, waits for its feeder thread, sets the stop event and  *)
(* joins the workers.                                                      *)
(*                                                                         *)
(* __anext__ tries to get a task at once and then leaves Queue.get to a    *)
(* thread of its own.  When a call is cancelled (wait_for does so) its     *)
(* thread stays in Queue.get as a stray: a task it takes is dropped.       *)
(*                                                                         *)
(* Tasks are numbered in the order they are put.  The queue is FIFO, so    *)
(* three counters describe it: tasks fed+1..put are in the owner's buffer, *)
(* got+1..fed are in the pipe, 1..got have been received.                  *)
(*                                                                         *)
(* External (the standard library): the queue's feeder thread, its slot    *)
(* semaphore and reader lock, the barrier and the event.                   *)
(***************************************************************************)
EXTENDS Naturals, FiniteSets

CONSTANTS Workers,    (* the nproc worker processes                        *)
          NTasks,     (* bound: the owner puts at most this many tasks     *)
          MaxQueue,   (* max_quesize, the slots of the queue               *)
          PipeCap,    (* tasks the pipe of the queue holds                 *)
          Asyncs,     (* workers that iterate asynchronously               *)
          Raisers,    (* workers whose function may raise or return early  *)
          Killable,   (* workers that may be killed by the system          *)
          None        (* "no process": the reader lock is free             *)

ASSUME WorkersAssumption == /\ IsFiniteSet(Workers) /\ Workers # {}
                            /\ None \notin Workers
ASSUME BoundsAssumption == /\ NTasks \in Nat
                           /\ MaxQueue \in Nat \ {0}
                           /\ PipeCap \in Nat \ {0}
ASSUME FaultsAssumption == /\ Raisers \subseteq Workers /\ Killable \subseteq Workers
                           /\ Asyncs \subseteq Workers

VARIABLES
  ppc,        (* where the owner is                                         *)
  started,    (* start() has returned                                       *)
  put, fed, got,                         (* the queue, see above            *)
  sem,        (* free slots of the queue                                    *)
  rlock,      (* holder of the reader lock of the queue                     *)
  stopevent,  (* the stop event                                             *)
  wpc,        (* where each worker is                                       *)
  flag,       (* MContext._finished of each worker                          *)
  snap,       (* the local variable `finished` of __next__                  *)
  task,       (* the task each worker received and not yet completed, or 0  *)
  done,       (* tasks whose processing completed                           *)
  pooled,     (* workers whose get runs in their thread                     *)
  stray,      (* where the thread of a cancelled call is                    *)
  dropped,    (* tasks a stray took, or that came as the call was cancelled *)
  cut         (* history: a call of __anext__ was cancelled                 *)

owner == <<ppc, started, stopevent>>
que == <<put, fed, got, sem, rlock>>
async == <<pooled, stray, dropped, cut>>
worker == <<wpc, flag, snap, task, done, async>>
vars == <<ppc, started, put, fed, got, sem, rlock, stopevent,
          wpc, flag, snap, task, done, pooled, stray, dropped, cut>>

OwnerPC == {"idle", "putting", "starting", "barrier", "closing", "setting",
            "joining", "stopped", "raised"}
WorkerPC == {"unborn", "barrier", "ready", "queued", "get", "locked", "received",
             "working", "empty", "ended", "failed", "killed"}
StrayPC == {"none", "get", "locked", "received"}

Exited == {"ended", "failed", "killed"}
Lost == {w \in Workers : wpc[w] \in {"failed", "killed"}}
Active == {w \in Workers : wpc[w] \notin Exited}

Init == /\ ppc = "idle"
        /\ started = FALSE
        /\ put = 0 /\ fed = 0 /\ got = 0
        /\ sem = MaxQueue
        /\ rlock = None
        /\ stopevent = FALSE
        /\ wpc = [w \in Workers |-> "unborn"]
        /\ flag = [w \in Workers |-> FALSE]
        /\ snap = [w \in Workers |-> FALSE]
        /\ task = [w \in Workers |-> 0]
        /\ done = {}
        /\ pooled = {}
        /\ stray = [w \in Workers |-> "none"]
        /\ dropped = {}
        /\ cut = FALSE
-----------------------------------------------------------------------------
(* The owner.  put_task may be called before start() and until stop().     *)

PutCall == /\ ppc = "idle"
           /\ put < NTasks
           /\ ppc' = "putting"
           /\ UNCHANGED <<started, stopevent, que, worker>>

(* Queue.put: a blocking acquire of a slot, then the buffer.               *)
PutTask == /\ ppc = "putting"
           /\ sem > 0
           /\ sem' = sem - 1
           /\ put' = put + 1
           /\ ppc' = "idle"
           /\ UNCHANGED <<started, stopevent, fed, got, rlock, worker>>

(* A put with a timeout, or that does not block, finds no slot: Full.      *)
PutFull == /\ ppc = "putting"
           /\ sem = 0
           /\ ppc' = "idle"
           /\ UNCHANGED <<started, stopevent, que, worker>>

StartCall == /\ ppc = "idle" /\ ~started
             /\ ppc' = "starting"
             /\ UNCHANGED <<started, stopevent, que, worker>>

(* One turn of the loop of start(): the new process runs into the barrier, *)
(* the owner does so after the last fork.                                  *)
Fork(w) == /\ ppc = "starting"
           /\ wpc[w] = "unborn"
           /\ wpc' = [wpc EXCEPT ![w] = "barrier"]
           /\ ppc' = IF \E v \in Workers \ {w} : wpc[v] = "unborn"
                     THEN "starting" ELSE "barrier"
           /\ UNCHANGED <<started, stopevent, que, flag, snap, task, done, async>>

(* The barrier has nproc + 1 parties; a process that died on its way to it *)
(* is never replaced, so the barrier then stays shut.                      *)
BarrierTrip == /\ ppc = "barrier"
               /\ \A w \in Workers : wpc[w] = "barrier"
               /\ wpc' = [w \in Workers |-> "ready"]
               /\ ppc' = "idle"
               /\ started' = TRUE
               /\ UNCHANGED <<stopevent, que, flag, snap, task, done, async>>

(* stop(): close, join_thread, set, join.                                  *)
QueueClose == /\ ppc = "idle"
              /\ ppc' = "closing"
              /\ UNCHANGED <<started, stopevent, que, worker>>

(* Faulty variant: join_thread returns before the buffer is flushed.       *)
JoinThread_Early == /\ ppc = "closing"
                    /\ ppc' = "setting"
                    /\ UNCHANGED <<started, stopevent, que, worker>>

(* queue.join_thread waits until the feeder has written the buffer.        *)
JoinThread == /\ ppc = "closing"
              /\ fed = put
              /\ ppc' = "setting"
              /\ UNCHANGED <<started, stopevent, que, worker>>

(* Faulty variant: stop() forgets the event.                               *)
SetEvent_Missing == /\ ppc = "setting"
                    /\ ppc' = "joining"
                    /\ UNCHANGED <<started, stopevent, que, worker>>

(* stopevent.set: the workers may end once they find the queue empty.      *)
SetEvent == /\ ppc = "setting"
            /\ stopevent' = TRUE
            /\ ppc' = "joining"
            /\ UNCHANGED <<started, que, worker>>

(* Faulty variant: stop() does not join the processes.                     *)
JoinWorkers_Skipped == /\ ppc = "joining" /\ started
                       /\ ppc' = "stopped"
                       /\ UNCHANGED <<started, stopevent, que, worker>>

(* MContext.shutdown: a worker waits for its thread before it exits.       *)
ShutDown(w) == wpc[w] # "killed" => stray[w] = "none"

(* p.join of each worker, in whatever order they exit.                     *)
JoinWorkers == /\ ppc = "joining" /\ started
               /\ Active = {}
               /\ \A w \in Workers : ShutDown(w)
               /\ ppc' = "stopped"
               /\ UNCHANGED <<started, stopevent, que, worker>>

(* Process.join of a process that was never started raises.                *)
JoinUnstarted == /\ ppc = "joining" /\ ~started
                 /\ ppc' = "raised"
                 /\ UNCHANGED <<started, stopevent, que, worker>>

(* The feeder thread of the owner's queue moves the buffer to the pipe.    *)
Feed == /\ fed < put
        /\ fed - got < PipeCap
        /\ fed' = fed + 1
        /\ UNCHANGED <<owner, put, got, sem, rlock, worker>>
-----------------------------------------------------------------------------
(* A worker: `for task in ctx` or `async for task in ctx`.                 *)

(* __next__ or __anext__ starts: finished = self._finished.                *)
NextCall(w) == /\ wpc[w] = "ready"
               /\ snap' = [snap EXCEPT ![w] = flag[w]]
               /\ wpc' = [wpc EXCEPT ![w] = "get"]
               /\ pooled' = pooled \ {w}
               /\ UNCHANGED <<owner, que, flag, task, done, stray, dropped, cut>>

(* Queue.get(timeout=0.05) takes the reader lock ...                       *)
Acquire(w) == /\ wpc[w] = "get"
              /\ rlock = None
              /\ rlock' = w
              /\ wpc' = [wpc EXCEPT ![w] = "locked"]
              /\ UNCHANGED <<owner, put, fed, got, sem, flag, snap, task, done, async>>

(* ... or gives up, after the timeout or (get(False)) at once: Empty,      *)
(* though the queue may not be.                                            *)
LockTimeout(w) == /\ wpc[w] = "get"
                  /\ rlock # None
                  /\ wpc' = [wpc EXCEPT ![w] = "empty"]
                  /\ UNCHANGED <<owner, que, flag, snap, task, done, async>>

(* Nothing arrived in the pipe in time: Empty, and the lock is released.   *)
PollEmpty(w) == /\ wpc[w] = "locked"
                /\ fed = got
                /\ rlock' = None
                /\ wpc' = [wpc EXCEPT ![w] = "empty"]
                /\ UNCHANGED <<owner, put, fed, got, sem, flag, snap, task, done, async>>

(* A task is in the pipe: it is taken, the lock is still held.             *)
Receive(w) == /\ wpc[w] = "locked"
              /\ got < fed
              /\ got' = got + 1
              /\ task' = [task EXCEPT ![w] = got + 1]
              /\ wpc' = [wpc EXCEPT ![w] = "received"]
              /\ UNCHANGED <<owner, put, fed, sem, rlock, flag, snap, done, async>>

(* get returns: the slot is freed, then the lock.                          *)
Release(w) == /\ wpc[w] = "received"
              /\ sem' = sem + 1
              /\ rlock' = None
              /\ wpc' = [wpc EXCEPT ![w] = "working"]
              /\ UNCHANGED <<owner, put, fed, got, flag, snap, task, done, async>>

(* except queue.Empty: stop if finished was seen before this get, else     *)
(* finished = self.finished(), which reads and latches the event.          *)
EmptyStop(w) == /\ wpc[w] = "empty"
                /\ snap[w]
                /\ wpc' = [wpc EXCEPT ![w] = "ended"]
                /\ UNCHANGED <<owner, que, flag, snap, task, done, async>>

EmptyRetry(w) == /\ wpc[w] = "empty"
                 /\ ~snap[w]
                 /\ flag' = [flag EXCEPT ![w] = flag[w] \/ stopevent]
                 /\ snap' = [snap EXCEPT ![w] = flag[w] \/ stopevent]
                 /\ wpc' = [wpc EXCEPT ![w] = IF w \in Asyncs THEN "queued" ELSE "get"]
                 /\ UNCHANGED <<owner, que, task, done, async>>

(* run_in_executor: the one thread of the pool takes up the get when it is *)
(* free, i.e. when no stray is in it.                                      *)
ThreadGet(w) == /\ wpc[w] = "queued"
                /\ stray[w] = "none"
                /\ pooled' = pooled \cup {w}
                /\ wpc' = [wpc EXCEPT ![w] = "get"]
                /\ UNCHANGED <<owner, que, flag, snap, task, done, stray, dropped, cut>>

(* The call of __anext__ is cancelled; a get that has begun goes on.       *)
Cancel(w) ==
  /\ w \in Asyncs
  /\ wpc[w] = "queued" \/ (w \in pooled /\ wpc[w] \in {"get", "locked", "received"})
  /\ stray' = IF wpc[w] = "queued" THEN stray ELSE [stray EXCEPT ![w] = wpc[w]]
  /\ dropped' = dropped \cup ({task[w]} \ {0})
  /\ task' = [task EXCEPT ![w] = 0]
  /\ cut' = TRUE
  /\ wpc' = [wpc EXCEPT ![w] = "ready"]
  /\ UNCHANGED <<owner, que, flag, snap, done, pooled>>

(* A stray in Queue.get: its task, if it gets one, goes nowhere.           *)
StrayAcquire(w) == /\ stray[w] = "get"
                   /\ wpc[w] # "killed"
                   /\ rlock = None
                   /\ rlock' = w
                   /\ stray' = [stray EXCEPT ![w] = "locked"]
                   /\ UNCHANGED <<owner, put, fed, got, sem, wpc, flag, snap, task,
                                  done, pooled, dropped, cut>>

StrayTimeout(w) == /\ stray[w] = "get"
                   /\ wpc[w] # "killed"
                   /\ rlock # None
                   /\ stray' = [stray EXCEPT ![w] = "none"]
                   /\ UNCHANGED <<owner, que, wpc, flag, snap, task, done, pooled,
                                  dropped, cut>>

StrayEmpty(w) == /\ stray[w] = "locked"
                 /\ wpc[w] # "killed"
                 /\ fed = got
                 /\ rlock' = None
                 /\ stray' = [stray EXCEPT ![w] = "none"]
                 /\ UNCHANGED <<owner, put, fed, got, sem, wpc, flag, snap, task,
                                done, pooled, dropped, cut>>

StrayReceive(w) == /\ stray[w] = "locked"
                   /\ wpc[w] # "killed"
                   /\ got < fed
                   /\ got' = got + 1
                   /\ dropped' = dropped \cup {got + 1}
                   /\ stray' = [stray EXCEPT ![w] = "received"]
                   /\ UNCHANGED <<owner, put, fed, sem, rlock, wpc, flag, snap, task,
                                  done, pooled, cut>>

StrayRelease(w) == /\ stray[w] = "received"
                   /\ wpc[w] # "killed"
                   /\ sem' = sem + 1
                   /\ rlock' = None
                   /\ stray' = [stray EXCEPT ![w] = "none"]
                   /\ UNCHANGED <<owner, put, fed, got, wpc, flag, snap, task, done,
                                  pooled, dropped, cut>>

(* The body of the loop is done with the task.                             *)
Work(w) == /\ wpc[w] = "working"
           /\ done' = done \cup {task[w]}
           /\ task' = [task EXCEPT ![w] = 0]
           /\ wpc' = [wpc EXCEPT ![w] = "ready"]
           /\ UNCHANGED <<owner, que, flag, snap, async>>

(* Those whose get has received a task and not yet freed its slot.         *)
Unreleased == {w \in Workers : \/ wpc[w] = "received"
                               \/ stray[w] = "received" /\ wpc[w] # "killed"}

(* Faulty variant: an interrupted Queue.get keeps the reader lock.         *)
Raise_KeepsLock(w) == /\ w \in Raisers
                      /\ wpc[w] \in {"ready", "get", "locked", "working", "empty"}
                      /\ wpc' = [wpc EXCEPT ![w] = "failed"]
                      /\ UNCHANGED <<owner, que, flag, snap, task, done, async>>

(* Faulty variant: the exception is swallowed and the loop goes on.        *)
Raise_Swallowed(w) == /\ w \in Raisers
                      /\ wpc[w] = "working"
                      /\ task' = [task EXCEPT ![w] = 0]
                      /\ wpc' = [wpc EXCEPT ![w] = "ready"]
                      /\ UNCHANGED <<owner, que, flag, snap, done, async>>

(* _worker: an exception of the function, or an interrupt, ends the        *)
(* process; Queue.get releases its lock on the way out.  After the receive *)
(* that may be before or after it frees the slot.  In a call whose get is  *)
(* in the thread the exception comes after a Cancel.                       *)
Raise(w) == /\ w \in Raisers
            /\ w \in pooled => wpc[w] \notin {"get", "locked", "received"}
            /\ wpc[w] \in {"ready", "queued", "get", "locked", "received",
                           "working", "empty"}
            /\ rlock' = IF wpc[w] \in {"locked", "received"} THEN None ELSE rlock
            /\ sem' \in IF wpc[w] = "received" THEN {sem, sem + 1} ELSE {sem}
            /\ wpc' = [wpc EXCEPT ![w] = "failed"]
            /\ UNCHANGED <<owner, put, fed, got, flag, snap, task, done, async>>

(* A killed process releases nothing any more.  One that left the loop may *)
(* still be in MContext.shutdown, waiting for its thread.                  *)
Kill(w) == /\ w \in Killable
           /\ wpc[w] \notin {"unborn", "killed"}
           /\ wpc[w] \in Exited => stray[w] # "none"
           /\ sem' \in IF w \in Unreleased THEN {sem, sem + 1} ELSE {sem}
           /\ wpc' = [wpc EXCEPT ![w] = "killed"]
           /\ UNCHANGED <<owner, put, fed, got, rlock, flag, snap, task, done, async>>
-----------------------------------------------------------------------------
Owner == \/ PutCall \/ PutTask \/ PutFull \/ StartCall
         \/ (\E w \in Workers : Fork(w)) \/ BarrierTrip \/ QueueClose \/ JoinThread \/ SetEvent
         \/ JoinWorkers \/ JoinUnstarted

(* The steps of a worker that its own code takes.                          *)
Step(w) == \/ NextCall(w) \/ Acquire(w) \/ LockTimeout(w) \/ PollEmpty(w)
           \/ Receive(w) \/ Release(w) \/ EmptyStop(w) \/ EmptyRetry(w)
           \/ Work(w) \/ ThreadGet(w)

(* The steps of its thread after a cancelled call.                         *)
Stray(w) == \/ StrayAcquire(w) \/ StrayTimeout(w) \/ StrayEmpty(w)
            \/ StrayReceive(w) \/ StrayRelease(w)

Next == \/ Owner
        \/ Feed
        \/ \E w \in Workers : Step(w) \/ Stray(w) \/ Cancel(w) \/ Raise(w) \/ Kill(w)

Spec == Init /\ [][Next]_vars

(* Every process that can run does: the owner once it is inside a call     *)
(* (nothing makes it put or stop), the feeder thread, and every worker     *)
(* that is alive, whose function finishes the tasks it is given.           *)
InCall == \/ PutTask \/ (\E w \in Workers : Fork(w)) \/ BarrierTrip
          \/ JoinThread \/ SetEvent \/ JoinWorkers \/ JoinUnstarted

Fairness == /\ WF_vars(InCall)
            /\ WF_vars(Feed)
            /\ \A w \in Workers : WF_vars(Step(w)) /\ WF_vars(Stray(w))

FairSpec == Spec /\ Fairness
-----------------------------------------------------------------------------
TypeOK == /\ ppc \in OwnerPC
          /\ started \in BOOLEAN
          /\ put \in 0..NTasks /\ fed \in 0..put /\ got \in 0..fed
          /\ sem \in 0..MaxQueue
          /\ rlock \in Workers \cup {None}
          /\ stopevent \in BOOLEAN
          /\ wpc \in [Workers -> WorkerPC]
          /\ flag \in [Workers -> BOOLEAN]
          /\ snap \in [Workers -> BOOLEAN]
          /\ task \in [Workers -> 0..NTasks]
          /\ done \subseteq 1..NTasks /\ dropped \subseteq 1..NTasks
          /\ pooled \subseteq Asyncs
          /\ stray \in [Workers -> StrayPC]
          /\ cut \in BOOLEAN

(* A task is in one place: every task received so far is completed, was    *)
(* dropped by a cancelled call, or is held by exactly one worker.  It is   *)
(* what makes "each task processed at most once" true whatever worker dies *)
(* wherever and whatever call is cancelled.                                *)
Held == {task[w] : w \in Workers} \ {0}
TasksAccounted ==
  /\ done \cup dropped \cup Held = 1..got
  /\ done \cap dropped = {} /\ done \cap Held = {} /\ dropped \cap Held = {}
  /\ \A v, w \in Workers : v # w /\ task[v] # 0 => task[v] # task[w]

(* The slots of the queue: what is neither free nor queued is held by the  *)
(* one reader between the receive and the release of Queue.get.  A slot is *)
(* missing only if a worker was lost with a task it had received.          *)
Leakers == {w \in Lost : \/ task[w] # 0
                         \/ wpc[w] = "killed" /\ stray[w] = "received"}
SlotsAccounted ==
  \/ /\ Unreleased = {} /\ sem + (put - got) <= MaxQueue
     /\ Leakers = {} => sem + (put - got) = MaxQueue
  \/ /\ Unreleased # {} /\ sem + (put - got) <= MaxQueue - 1
     /\ Leakers = {} => sem + (put - got) = MaxQueue - 1

(* test_mprocess.py: after stop() every task put has been processed, if no *)
(* worker was lost and no call cancelled.                                  *)
StoppedMeansDone == ppc = "stopped" /\ Lost = {} /\ ~cut => done = 1..put

(* Why: a worker ends its iteration on an Empty that may come from a busy  *)
(* reader lock, not from an empty queue.  Yet once one has ended, either   *)
(* nothing is left, or some worker is still there to drain the queue, or   *)
(* one was lost, or a call was cancelled: then a stray may be the one that *)
(* has the lock, and it drops what it takes.                               *)
LastOneDrains == (\E w \in Workers : wpc[w] = "ended") =>
                   got = put \/ Active # {} \/ Lost # {} \/ cut

(* The parts of the inductive invariant below that are not properties of   *)
(* interest by themselves.                                                 *)
OwnerInv == /\ ppc = "putting" => put < NTasks
            /\ started => \A w \in Workers : wpc[w] \notin {"unborn", "barrier"}
            /\ ~started => \A w \in Workers : wpc[w] \in {"unborn", "barrier", "killed"}
            /\ ppc \in {"starting", "barrier"} => ~started
            /\ ppc = "stopped" =>
                 /\ started /\ Active = {}
                 /\ \A w \in Workers : ShutDown(w)

(* A worker that has seen the stop event may rely on the pipe holding all  *)
(* there ever was to take: stop() flushed the buffer before it set it.     *)
EventInv == /\ ppc \in {"setting", "joining", "stopped", "raised"} => fed = put
            /\ stopevent => ppc \in {"joining", "stopped", "raised"}
            /\ \A w \in Workers : flag[w] \/ snap[w] \/ wpc[w] = "ended" => stopevent

(* Only a reader inside Queue.get, or one killed there, holds the lock,    *)
(* and only one of the two a process may have at a time.                   *)
LockInv == \A w \in Workers :
  /\ wpc[w] \in {"locked", "received"} => rlock = w /\ stray[w] \in {"none", "get"}
  /\ stray[w] \in {"locked", "received"} => rlock = w
  /\ rlock = w => \/ wpc[w] \in {"locked", "received", "killed"}
                  \/ stray[w] \in {"locked", "received"}

TaskInv == \A w \in Workers :
  /\ task[w] # 0 => wpc[w] \in {"received", "working", "failed", "killed"}
  /\ wpc[w] \in {"received", "working"} => task[w] # 0

(* There is a stray only after a cancelled call, and never next to a get   *)
(* of the thread itself.                                                   *)
StrayInv == /\ \A w \in Workers : stray[w] # "none" => cut
            /\ dropped # {} => cut
            /\ \A w \in Workers : wpc[w] = "queued" => w \in Asyncs
            /\ \A w \in pooled : wpc[w] \in {"get", "locked", "received"} => stray[w] = "none"

(* A worker that is bound to end leaves the queue empty, or to another     *)
(* worker that is not bound to end, or a worker was lost, or a call cut.   *)
Leaving(w) == wpc[w] = "ended" \/ (wpc[w] = "empty" /\ snap[w])
Drainers == {w \in Active : ~Leaving(w)}
DrainInv == (\E w \in Workers : Leaving(w)) =>
              got = put \/ Drainers # {} \/ Lost # {} \/ cut

IInv == /\ TypeOK /\ OwnerInv /\ EventInv /\ LockInv /\ TaskInv /\ StrayInv
        /\ TasksAccounted /\ SlotsAccounted /\ DrainInv

(* Nobody can take tasks any more: all workers are lost, or one was killed *)
(* with the reader lock.                                                   *)
NoTaker == Workers \subseteq Lost \/ (rlock # None /\ wpc[rlock] = "killed")

(* Lost workers took all the slots of the queue with them.                 *)
NoSlot == sem = 0 /\ put = got /\ Unreleased = {}

(* The calls of a started pool return as long as somebody can take tasks:  *)
(* stop() from its join_thread on, a put_task() on a full queue (unless    *)
(* all its slots are lost); if nobody can, they hang.  start() returns     *)
(* unless a worker died before the barrier.                                *)
CallsReturn ==
  /\ (ppc = "closing" /\ started) ~> (ppc = "stopped" \/ NoTaker)
  /\ (ppc = "putting" /\ started) ~> (ppc = "idle" \/ NoTaker \/ NoSlot)
  /\ (ppc = "starting") ~> (started \/ Lost # {})

(* The pool implements TaskPool.                                           *)
PoolPhase == CASE ppc \in {"closing", "setting", "joining", "raised"} -> "closed"
               [] ppc = "stopped" -> "finished"
               [] OTHER -> "open"

Pool == INSTANCE TaskPool WITH
          submitted <- put, handed <- got, held <- task, completed <- done,
          crashed <- Lost, abandoned <- cut, phase <- PoolPhase
PoolSpec == Pool!Spec
=============================================================================
