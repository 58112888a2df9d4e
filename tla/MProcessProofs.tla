--------------------------- MODULE MProcessProofs ---------------------------
(***************************************************************************)
(* Proofs about MProcess, for any number of workers and tasks and any      *)
(* sizes of queue and pipe.                                                *)
(***************************************************************************)
EXTENDS MProcess, TLAPS

USE WorkersAssumption, BoundsAssumption, FaultsAssumption

(* The invariant holds of an MProcess that was just constructed.            *)
LEMMA InitIInv == Init => IInv
<1> SUFFICES ASSUME Init PROVE IInv
  OBVIOUS
<1>1. TypeOK
  <2>1. ppc \in OwnerPC /\ started \in BOOLEAN /\ stopevent \in BOOLEAN
    BY DEF Init, OwnerPC
  <2>2. put \in 0..NTasks /\ fed \in 0..put /\ got \in 0..fed
    BY DEF Init
  <2>3. sem \in 0..MaxQueue
    BY DEF Init
  <2>4. wpc \in [Workers -> WorkerPC]
    BY DEF Init, WorkerPC
  <2>5. stray \in [Workers -> StrayPC]
    BY DEF Init, StrayPC
  <2>6. QED
    BY <2>1, <2>2, <2>3, <2>4, <2>5 DEF Init, TypeOK
<1>2. OwnerInv /\ EventInv /\ LockInv /\ TaskInv /\ StrayInv
  BY DEF Init, OwnerInv, ShutDown, EventInv, LockInv, TaskInv, StrayInv
<1>3. TasksAccounted
  BY DEF Init, TasksAccounted, Held
<1>4. SlotsAccounted
  BY DEF Init, SlotsAccounted, Unreleased
<1>5. DrainInv
  BY DEF Init, DrainInv, Leaving
<1>6. QED
  BY <1>1, <1>2, <1>3, <1>4, <1>5 DEF IInv

(* Types.  A slot is free for Release because the receiver holds one back. *)
LEMMA TypeOKStep == IInv /\ [Next]_vars => TypeOK'
<1> SUFFICES ASSUME IInv, [Next]_vars PROVE TypeOK'
  OBVIOUS
<1> USE DEF IInv, que, owner, worker, async
<1>1. CASE PutCall \/ PutFull
  BY <1>1 DEF PutCall, PutFull, TypeOK, OwnerPC, WorkerPC, StrayPC
<1>2. CASE PutTask
  BY <1>2 DEF PutTask, TypeOK, OwnerPC, WorkerPC, StrayPC, OwnerInv, ShutDown
<1>3. CASE StartCall
  BY <1>3 DEF StartCall, TypeOK, OwnerPC, WorkerPC, StrayPC
<1>4. CASE BarrierTrip
  BY <1>4 DEF BarrierTrip, TypeOK, OwnerPC, WorkerPC, StrayPC
<1>5. CASE QueueClose
  BY <1>5 DEF QueueClose, TypeOK, OwnerPC, WorkerPC, StrayPC
<1>6. CASE JoinThread
  BY <1>6 DEF JoinThread, TypeOK, OwnerPC, WorkerPC, StrayPC
<1>7. CASE SetEvent
  BY <1>7 DEF SetEvent, TypeOK, OwnerPC, WorkerPC, StrayPC
<1>8. CASE JoinWorkers
  BY <1>8 DEF JoinWorkers, TypeOK, OwnerPC, WorkerPC, StrayPC
<1>9. CASE JoinUnstarted
  BY <1>9 DEF JoinUnstarted, TypeOK, OwnerPC, WorkerPC, StrayPC
<1>10. CASE Feed
  BY <1>10 DEF Feed, TypeOK, OwnerPC, WorkerPC, StrayPC
<1>11. ASSUME NEW w \in Workers, Fork(w) PROVE TypeOK'
  BY <1>11 DEF Fork, TypeOK, OwnerPC, WorkerPC, StrayPC
<1>12. ASSUME NEW w \in Workers, NextCall(w) PROVE TypeOK'
  BY <1>12 DEF NextCall, TypeOK, OwnerPC, WorkerPC, StrayPC
<1>13. ASSUME NEW w \in Workers, Acquire(w) PROVE TypeOK'
  BY <1>13 DEF Acquire, TypeOK, OwnerPC, WorkerPC, StrayPC
<1>14. ASSUME NEW w \in Workers, LockTimeout(w) PROVE TypeOK'
  BY <1>14 DEF LockTimeout, TypeOK, OwnerPC, WorkerPC, StrayPC
<1>15. ASSUME NEW w \in Workers, PollEmpty(w) PROVE TypeOK'
  BY <1>15 DEF PollEmpty, TypeOK, OwnerPC, WorkerPC, StrayPC
<1>16. ASSUME NEW w \in Workers, Receive(w) PROVE TypeOK'
  BY <1>16 DEF Receive, TypeOK, OwnerPC, WorkerPC, StrayPC
<1>17. ASSUME NEW w \in Workers, Release(w) PROVE TypeOK'
  BY <1>17 DEF Release, TypeOK, OwnerPC, WorkerPC, StrayPC, SlotsAccounted,
    Unreleased, TaskInv, LockInv, StrayInv
<1>18. ASSUME NEW w \in Workers, EmptyStop(w) PROVE TypeOK'
  BY <1>18 DEF EmptyStop, TypeOK, OwnerPC, WorkerPC, StrayPC
<1>19. ASSUME NEW w \in Workers, EmptyRetry(w) PROVE TypeOK'
  BY <1>19 DEF EmptyRetry, TypeOK, OwnerPC, WorkerPC, StrayPC
<1>20. ASSUME NEW w \in Workers, Work(w) PROVE TypeOK'
  <2>1. task[w] \in 1..NTasks
    BY <1>20 DEF Work, TypeOK, TaskInv
  <2>2. done' \subseteq 1..NTasks
    BY <1>20, <2>1 DEF Work, TypeOK
  <2>3. QED
    BY <1>20, <2>2 DEF Work, TypeOK, WorkerPC, StrayPC
<1>21. ASSUME NEW w \in Workers, Raise(w) PROVE TypeOK'
  <2>1. sem' \in 0..MaxQueue
    BY <1>21 DEF Raise, TypeOK, SlotsAccounted, Unreleased
  <2>2. QED
    BY <1>21, <2>1 DEF Raise, TypeOK, WorkerPC
<1>22. ASSUME NEW w \in Workers, Kill(w) PROVE TypeOK'
  <2>1. sem' \in 0..MaxQueue
    BY <1>22 DEF Kill, TypeOK, SlotsAccounted
  <2>2. QED
    BY <1>22, <2>1 DEF Kill, TypeOK, WorkerPC
<1>23. CASE UNCHANGED vars
  BY <1>23 DEF vars, TypeOK, OwnerPC, WorkerPC, StrayPC
<1>24. ASSUME NEW w \in Workers, ThreadGet(w) PROVE TypeOK'
  BY <1>24 DEF ThreadGet, TypeOK, WorkerPC, StrayInv
<1>25. ASSUME NEW w \in Workers, Cancel(w) PROVE TypeOK'
  <2>1. dropped' \subseteq 1..NTasks
    <3>1. {task[w]} \ {0} \subseteq 1..NTasks
      BY DEF TypeOK
    <3>2. QED
      BY <1>25, <3>1 DEF Cancel, TypeOK
  <2>2. stray' \in [Workers -> StrayPC]
    BY <1>25 DEF Cancel, TypeOK, StrayPC
  <2>3. wpc' \in [Workers -> WorkerPC] /\ task' \in [Workers -> 0..NTasks]
    BY <1>25 DEF Cancel, TypeOK, WorkerPC
  <2>4. QED
    BY <1>25, <2>1, <2>2, <2>3 DEF Cancel, TypeOK
<1>26. ASSUME NEW w \in Workers, StrayAcquire(w) PROVE TypeOK'
  BY <1>26 DEF StrayAcquire, TypeOK, OwnerPC, WorkerPC, StrayPC
<1>27. ASSUME NEW w \in Workers, StrayTimeout(w) PROVE TypeOK'
  BY <1>27 DEF StrayTimeout, TypeOK, OwnerPC, WorkerPC, StrayPC
<1>28. ASSUME NEW w \in Workers, StrayEmpty(w) PROVE TypeOK'
  BY <1>28 DEF StrayEmpty, TypeOK, OwnerPC, WorkerPC, StrayPC
<1>29. ASSUME NEW w \in Workers, StrayReceive(w) PROVE TypeOK'
  BY <1>29 DEF StrayReceive, TypeOK, OwnerPC, WorkerPC, StrayPC
<1>30. ASSUME NEW w \in Workers, StrayRelease(w) PROVE TypeOK'
  BY <1>30 DEF StrayRelease, TypeOK, StrayPC, SlotsAccounted, Unreleased
<1>31. QED
  BY <1>1, <1>2, <1>3, <1>4, <1>5, <1>6, <1>7, <1>8, <1>9, <1>10, <1>11,
    <1>12, <1>13, <1>14, <1>15, <1>16, <1>17, <1>18, <1>19, <1>20, <1>21,
    <1>22, <1>23, <1>24, <1>25, <1>26, <1>27, <1>28, <1>29, <1>30 DEF Next,
    Owner, Step, Stray

(* The owner's program counter against the workers': nobody runs before    *)
(* the barrier trips, and everybody has exited when stop() returns.        *)
LEMMA OwnerInvStep == IInv /\ [Next]_vars => OwnerInv'
<1> SUFFICES ASSUME IInv, [Next]_vars PROVE OwnerInv'
  OBVIOUS
<1> USE DEF IInv, que, owner, worker, async
<1>1. CASE PutCall \/ PutFull
  BY <1>1 DEF PutCall, PutFull, TypeOK, WorkerPC, OwnerInv, ShutDown, Active, Exited
<1>2. CASE PutTask
  BY <1>2 DEF PutTask, TypeOK, WorkerPC, OwnerInv, ShutDown, Active, Exited
<1>3. CASE StartCall
  BY <1>3 DEF StartCall, TypeOK, WorkerPC, OwnerInv, ShutDown, Active, Exited
<1>4. CASE BarrierTrip
  BY <1>4 DEF BarrierTrip, TypeOK, WorkerPC, OwnerInv, ShutDown, Active, Exited
<1>5. CASE JoinWorkers
  BY <1>5 DEF JoinWorkers, TypeOK, WorkerPC, OwnerInv, ShutDown, Active, Exited
<1>6. ASSUME NEW w \in Workers, Fork(w) PROVE OwnerInv'
  BY <1>6 DEF Fork, TypeOK, WorkerPC, OwnerInv, ShutDown, Active, Exited
<1>7. ASSUME NEW w \in Workers, NextCall(w) PROVE OwnerInv'
  BY <1>7 DEF NextCall, TypeOK, WorkerPC, OwnerInv, ShutDown, Active, Exited
<1>8. ASSUME NEW w \in Workers, Acquire(w) PROVE OwnerInv'
  BY <1>8 DEF Acquire, TypeOK, WorkerPC, OwnerInv, ShutDown, Active, Exited
<1>9. ASSUME NEW w \in Workers, LockTimeout(w) PROVE OwnerInv'
  BY <1>9 DEF LockTimeout, TypeOK, WorkerPC, OwnerInv, ShutDown, Active, Exited
<1>10. ASSUME NEW w \in Workers, PollEmpty(w) PROVE OwnerInv'
  BY <1>10 DEF PollEmpty, TypeOK, WorkerPC, OwnerInv, ShutDown, Active, Exited
<1>11. ASSUME NEW w \in Workers, Receive(w) PROVE OwnerInv'
  BY <1>11 DEF Receive, TypeOK, WorkerPC, OwnerInv, ShutDown, Active, Exited
<1>12. ASSUME NEW w \in Workers, Release(w) PROVE OwnerInv'
  BY <1>12 DEF Release, TypeOK, WorkerPC, OwnerInv, ShutDown, Active, Exited
<1>13. ASSUME NEW w \in Workers, EmptyStop(w) PROVE OwnerInv'
  BY <1>13 DEF EmptyStop, TypeOK, WorkerPC, OwnerInv, ShutDown, Active, Exited
<1>14. ASSUME NEW w \in Workers, EmptyRetry(w) PROVE OwnerInv'
  BY <1>14 DEF EmptyRetry, TypeOK, WorkerPC, OwnerInv, ShutDown, Active, Exited
<1>15. ASSUME NEW w \in Workers, Work(w) PROVE OwnerInv'
  BY <1>15 DEF Work, TypeOK, WorkerPC, OwnerInv, ShutDown, Active, Exited
<1>16. ASSUME NEW w \in Workers, Raise(w) PROVE OwnerInv'
  BY <1>16 DEF Raise, TypeOK, WorkerPC, OwnerInv, ShutDown, Active, Exited
<1>17. ASSUME NEW w \in Workers, Kill(w) PROVE OwnerInv'
  BY <1>17 DEF Kill, TypeOK, WorkerPC, OwnerInv, ShutDown, Active, Exited
<1>18. CASE QueueClose \/ JoinThread \/ SetEvent \/ JoinUnstarted \/ Feed
  BY <1>18 DEF QueueClose, JoinThread, SetEvent, JoinUnstarted, Feed,
    TypeOK, WorkerPC, OwnerInv, ShutDown, Active, Exited
<1>19. CASE UNCHANGED vars
  BY <1>19 DEF vars, TypeOK, WorkerPC, OwnerInv, ShutDown, Active, Exited
<1>20. ASSUME NEW w \in Workers, ThreadGet(w) PROVE OwnerInv'
  BY <1>20 DEF ThreadGet, TypeOK, WorkerPC, OwnerInv, ShutDown, Active, Exited
<1>21. ASSUME NEW w \in Workers, Cancel(w) PROVE OwnerInv'
  BY <1>21 DEF Cancel, TypeOK, WorkerPC, OwnerInv, ShutDown, Active, Exited
<1>22. ASSUME NEW w \in Workers, StrayAcquire(w) PROVE OwnerInv'
  BY <1>22 DEF StrayAcquire, TypeOK, WorkerPC, OwnerInv, ShutDown, Active, Exited
<1>23. ASSUME NEW w \in Workers, StrayTimeout(w) PROVE OwnerInv'
  BY <1>23 DEF StrayTimeout, TypeOK, WorkerPC, OwnerInv, ShutDown, Active, Exited
<1>24. ASSUME NEW w \in Workers, StrayEmpty(w) PROVE OwnerInv'
  BY <1>24 DEF StrayEmpty, TypeOK, WorkerPC, OwnerInv, ShutDown, Active, Exited
<1>25. ASSUME NEW w \in Workers, StrayReceive(w) PROVE OwnerInv'
  BY <1>25 DEF StrayReceive, TypeOK, WorkerPC, OwnerInv, ShutDown, Active, Exited
<1>26. ASSUME NEW w \in Workers, StrayRelease(w) PROVE OwnerInv'
  BY <1>26 DEF StrayRelease, TypeOK, WorkerPC, OwnerInv, ShutDown, Active, Exited
<1>27. QED
  BY <1>1, <1>2, <1>3, <1>4, <1>5, <1>6, <1>7, <1>8, <1>9, <1>10, <1>11,
    <1>12, <1>13, <1>14, <1>15, <1>16, <1>17, <1>18, <1>19, <1>20, <1>21,
    <1>22, <1>23, <1>24, <1>25, <1>26 DEF Next, Owner, Step, Stray

(* The event is set only after the buffer was flushed, and seen only then. *)
LEMMA EventInvStep == IInv /\ [Next]_vars => EventInv'
<1> SUFFICES ASSUME IInv, [Next]_vars PROVE EventInv'
  OBVIOUS
<1> USE DEF IInv, que, owner, worker, async
<1>1. CASE PutTask
  BY <1>1 DEF PutTask, TypeOK, EventInv
<1>2. CASE JoinThread
  BY <1>2 DEF JoinThread, TypeOK, EventInv
<1>3. CASE SetEvent
  BY <1>3 DEF SetEvent, TypeOK, EventInv
<1>4. CASE Feed
  BY <1>4 DEF Feed, TypeOK, EventInv
<1>5. ASSUME NEW w \in Workers, NextCall(w) PROVE EventInv'
  BY <1>5 DEF NextCall, TypeOK, EventInv
<1>6. ASSUME NEW w \in Workers, EmptyStop(w) PROVE EventInv'
  BY <1>6 DEF EmptyStop, TypeOK, EventInv
<1>7. ASSUME NEW w \in Workers, EmptyRetry(w) PROVE EventInv'
  BY <1>7 DEF EmptyRetry, TypeOK, EventInv
<1>8. CASE PutCall \/ PutFull \/ StartCall \/ BarrierTrip \/ QueueClose \/
           JoinWorkers \/ JoinUnstarted
  BY <1>8 DEF PutCall, PutFull, StartCall, BarrierTrip, QueueClose, JoinWorkers,
    JoinUnstarted, TypeOK, EventInv
<1>9. ASSUME NEW w \in Workers,
                Fork(w) \/ Acquire(w) \/ LockTimeout(w) \/ PollEmpty(w) \/
                Receive(w) \/ Release(w) \/ Work(w) \/ Raise(w) \/ Kill(w)
         PROVE EventInv'
  BY <1>9 DEF Fork, Acquire, LockTimeout, PollEmpty, Receive, Release, Work,
    Raise, Kill, TypeOK, EventInv
<1>10. CASE UNCHANGED vars
  BY <1>10 DEF vars, TypeOK, EventInv
<1>11. ASSUME NEW w \in Workers, ThreadGet(w) PROVE EventInv'
  BY <1>11 DEF ThreadGet, TypeOK, EventInv
<1>12. ASSUME NEW w \in Workers, Cancel(w) PROVE EventInv'
  BY <1>12 DEF Cancel, TypeOK, EventInv
<1>13. ASSUME NEW w \in Workers, StrayAcquire(w) PROVE EventInv'
  BY <1>13 DEF StrayAcquire, TypeOK, EventInv
<1>14. ASSUME NEW w \in Workers, StrayTimeout(w) PROVE EventInv'
  BY <1>14 DEF StrayTimeout, TypeOK, EventInv
<1>15. ASSUME NEW w \in Workers, StrayEmpty(w) PROVE EventInv'
  BY <1>15 DEF StrayEmpty, TypeOK, EventInv
<1>16. ASSUME NEW w \in Workers, StrayReceive(w) PROVE EventInv'
  BY <1>16 DEF StrayReceive, TypeOK, EventInv
<1>17. ASSUME NEW w \in Workers, StrayRelease(w) PROVE EventInv'
  BY <1>17 DEF StrayRelease, TypeOK, EventInv
<1>18. QED
  BY <1>1, <1>2, <1>3, <1>4, <1>5, <1>6, <1>7, <1>8, <1>9, <1>10, <1>11,
    <1>12, <1>13, <1>14, <1>15, <1>16, <1>17 DEF Next, Owner, Step, Stray

(* The reader lock is held inside Queue.get only.                          *)
LEMMA LockInvStep == IInv /\ [Next]_vars => LockInv'
<1> SUFFICES ASSUME IInv, [Next]_vars PROVE LockInv'
  OBVIOUS
<1> USE DEF IInv, que, owner, worker, async
<1>1. ASSUME NEW w \in Workers, Acquire(w) PROVE LockInv'
  BY <1>1 DEF Acquire, TypeOK, StrayPC, LockInv
<1>2. ASSUME NEW w \in Workers, PollEmpty(w) PROVE LockInv'
  BY <1>2 DEF PollEmpty, TypeOK, LockInv
<1>3. ASSUME NEW w \in Workers, Receive(w) PROVE LockInv'
  BY <1>3 DEF Receive, TypeOK, LockInv
<1>4. ASSUME NEW w \in Workers, Release(w) PROVE LockInv'
  BY <1>4 DEF Release, TypeOK, LockInv
<1>5. ASSUME NEW w \in Workers, Raise(w) PROVE LockInv'
  BY <1>5 DEF Raise, TypeOK, LockInv
<1>6. ASSUME NEW w \in Workers, Kill(w) PROVE LockInv'
  BY <1>6 DEF Kill, TypeOK, LockInv
<1>7. CASE PutCall \/ PutTask \/ PutFull \/ StartCall \/ BarrierTrip \/ QueueClose \/
           JoinThread \/ SetEvent \/ JoinWorkers \/ JoinUnstarted \/ Feed
  BY <1>7 DEF PutCall, PutFull, PutTask, StartCall, BarrierTrip, QueueClose,
    JoinThread, SetEvent, JoinWorkers, JoinUnstarted, Feed, TypeOK, LockInv
<1>8. ASSUME NEW w \in Workers,
                Fork(w) \/ NextCall(w) \/ LockTimeout(w) \/ EmptyStop(w) \/
                EmptyRetry(w) \/ Work(w)
         PROVE LockInv'
  BY <1>8 DEF Fork, NextCall, LockTimeout, EmptyStop, EmptyRetry, Work,
    TypeOK, LockInv
<1>9. CASE UNCHANGED vars
  BY <1>9 DEF vars, TypeOK, LockInv
<1>10. ASSUME NEW w \in Workers, ThreadGet(w) PROVE LockInv'
  BY <1>10 DEF ThreadGet, TypeOK, LockInv, StrayInv
<1>11. ASSUME NEW w \in Workers, Cancel(w) PROVE LockInv'
  BY <1>11 DEF Cancel, TypeOK, LockInv, StrayInv
<1>12. ASSUME NEW w \in Workers, StrayAcquire(w) PROVE LockInv'
  BY <1>12 DEF StrayAcquire, TypeOK, LockInv, StrayInv
<1>13. ASSUME NEW w \in Workers, StrayTimeout(w) PROVE LockInv'
  BY <1>13 DEF StrayTimeout, TypeOK, LockInv, StrayInv
<1>14. ASSUME NEW w \in Workers, StrayEmpty(w) PROVE LockInv'
  BY <1>14 DEF StrayEmpty, TypeOK, LockInv, StrayInv
<1>15. ASSUME NEW w \in Workers, StrayReceive(w) PROVE LockInv'
  BY <1>15 DEF StrayReceive, TypeOK, LockInv, StrayInv
<1>16. ASSUME NEW w \in Workers, StrayRelease(w) PROVE LockInv'
  BY <1>16 DEF StrayRelease, TypeOK, LockInv, StrayInv
<1>17. QED
  BY <1>1, <1>2, <1>3, <1>4, <1>5, <1>6, <1>7, <1>8, <1>9, <1>10, <1>11,
    <1>12, <1>13, <1>14, <1>15, <1>16 DEF Next, Owner, Step, Stray

(* A task is held from its receipt to its completion, or for ever by a     *)
(* worker that was lost with it.                                           *)
LEMMA TaskInvStep == IInv /\ [Next]_vars => TaskInv'
<1> SUFFICES ASSUME IInv, [Next]_vars PROVE TaskInv'
  OBVIOUS
<1> USE DEF IInv, que, owner, worker, async
<1>1. ASSUME NEW w \in Workers, Receive(w) PROVE TaskInv'
  BY <1>1 DEF Receive, TypeOK, TaskInv
<1>2. ASSUME NEW w \in Workers, Work(w) PROVE TaskInv'
  BY <1>2 DEF Work, TypeOK, TaskInv
<1>3. ASSUME NEW w \in Workers, Raise(w) PROVE TaskInv'
  BY <1>3 DEF Raise, TypeOK, TaskInv
<1>4. ASSUME NEW w \in Workers, Kill(w) PROVE TaskInv'
  BY <1>4 DEF Kill, TypeOK, TaskInv
<1>5. CASE PutCall \/ PutTask \/ PutFull \/ StartCall \/ BarrierTrip \/ QueueClose \/
           JoinThread \/ SetEvent \/ JoinWorkers \/ JoinUnstarted \/ Feed
  BY <1>5 DEF PutCall, PutFull, PutTask, StartCall, BarrierTrip, QueueClose,
    JoinThread, SetEvent, JoinWorkers, JoinUnstarted, Feed, TypeOK, TaskInv
<1>6. ASSUME NEW w \in Workers,
                Fork(w) \/ NextCall(w) \/ Acquire(w) \/ LockTimeout(w) \/
                PollEmpty(w) \/ Release(w) \/ EmptyStop(w) \/ EmptyRetry(w)
         PROVE TaskInv'
  BY <1>6 DEF Fork, NextCall, Acquire, LockTimeout, PollEmpty, Release,
    EmptyStop, EmptyRetry, TypeOK, TaskInv
<1>7. CASE UNCHANGED vars
  BY <1>7 DEF vars, TypeOK, TaskInv
<1>8. ASSUME NEW w \in Workers, ThreadGet(w) PROVE TaskInv'
  BY <1>8 DEF ThreadGet, TypeOK, TaskInv
<1>9. ASSUME NEW w \in Workers, Cancel(w) PROVE TaskInv'
  BY <1>9 DEF Cancel, TypeOK, TaskInv
<1>10. ASSUME NEW w \in Workers, StrayAcquire(w) PROVE TaskInv'
  BY <1>10 DEF StrayAcquire, TypeOK, TaskInv
<1>11. ASSUME NEW w \in Workers, StrayTimeout(w) PROVE TaskInv'
  BY <1>11 DEF StrayTimeout, TypeOK, TaskInv
<1>12. ASSUME NEW w \in Workers, StrayEmpty(w) PROVE TaskInv'
  BY <1>12 DEF StrayEmpty, TypeOK, TaskInv
<1>13. ASSUME NEW w \in Workers, StrayReceive(w) PROVE TaskInv'
  BY <1>13 DEF StrayReceive, TypeOK, TaskInv
<1>14. ASSUME NEW w \in Workers, StrayRelease(w) PROVE TaskInv'
  BY <1>14 DEF StrayRelease, TypeOK, TaskInv
<1>15. QED
  BY <1>1, <1>2, <1>3, <1>4, <1>5, <1>6, <1>7, <1>8, <1>9, <1>10, <1>11,
    <1>12, <1>13, <1>14 DEF Next, Owner, Step, Stray

(* A stray comes from a cancelled call only.                               *)
LEMMA StrayInvStep == IInv /\ [Next]_vars => StrayInv'
<1> SUFFICES ASSUME IInv, [Next]_vars PROVE StrayInv'
  OBVIOUS
<1> USE DEF IInv, que, owner, worker, async
<1>1. CASE PutCall \/ PutTask \/ PutFull \/ StartCall \/ BarrierTrip \/ QueueClose \/
           JoinThread \/ SetEvent \/ JoinWorkers \/ JoinUnstarted \/ Feed
  BY <1>1 DEF PutCall, PutFull, PutTask, StartCall, BarrierTrip, QueueClose,
    JoinThread, SetEvent, JoinWorkers, JoinUnstarted, Feed, TypeOK, StrayInv
<1>2. ASSUME NEW w \in Workers,
                Fork(w) \/ NextCall(w) \/ Acquire(w) \/ LockTimeout(w) \/
                PollEmpty(w) \/ Receive(w)
         PROVE StrayInv'
  BY <1>2 DEF Fork, NextCall, Acquire, LockTimeout, PollEmpty, Receive,
    TypeOK, StrayInv
<1>3. ASSUME NEW w \in Workers,
                Release(w) \/ EmptyStop(w) \/ Work(w) \/ Raise(w) \/ Kill(w)
         PROVE StrayInv'
  BY <1>3 DEF Release, EmptyStop, Work, Raise, Kill, TypeOK, StrayInv
<1>4. ASSUME NEW w \in Workers, EmptyRetry(w) PROVE StrayInv'
  BY <1>4 DEF EmptyRetry, TypeOK, StrayInv
<1>5. ASSUME NEW w \in Workers, ThreadGet(w) PROVE StrayInv'
  BY <1>5 DEF ThreadGet, TypeOK, StrayInv
<1>6. ASSUME NEW w \in Workers, Cancel(w) PROVE StrayInv'
  BY <1>6 DEF Cancel, TypeOK, StrayInv
<1>7. ASSUME NEW w \in Workers, StrayAcquire(w) \/ StrayTimeout(w) \/ StrayEmpty(w)
         PROVE StrayInv'
  BY <1>7 DEF StrayAcquire, StrayTimeout, StrayEmpty, TypeOK, StrayInv
<1>8. ASSUME NEW w \in Workers, StrayReceive(w) \/ StrayRelease(w) PROVE StrayInv'
  BY <1>8 DEF StrayReceive, StrayRelease, TypeOK, StrayInv
<1>9. CASE UNCHANGED vars
  BY <1>9 DEF vars, TypeOK, StrayInv
<1>10. QED
  BY <1>1, <1>2, <1>3, <1>4, <1>5, <1>6, <1>7, <1>8, <1>9
  DEF Next, Owner, Step, Stray

(* Every received task is in one place.                                    *)
LEMMA TasksAccountedStep == IInv /\ [Next]_vars => TasksAccounted'
<1> SUFFICES ASSUME IInv, [Next]_vars PROVE TasksAccounted'
  OBVIOUS
<1> USE DEF IInv, que, owner, worker, async
<1>1. ASSUME NEW w \in Workers, Receive(w) PROVE TasksAccounted'
  BY <1>1 DEF Receive, TypeOK, TasksAccounted, Held, TaskInv
<1>2. ASSUME NEW w \in Workers, Work(w) PROVE TasksAccounted'
  BY <1>2 DEF Work, TypeOK, TasksAccounted, Held, TaskInv
<1>3. CASE PutCall \/ PutTask \/ PutFull \/ StartCall \/ BarrierTrip \/ QueueClose \/
           JoinThread \/ SetEvent \/ JoinWorkers \/ JoinUnstarted \/ Feed
  BY <1>3 DEF PutCall, PutFull, PutTask, StartCall, BarrierTrip, QueueClose,
    JoinThread, SetEvent, JoinWorkers, JoinUnstarted, Feed, TypeOK,
    TasksAccounted, Held, TaskInv
<1>4. ASSUME NEW w \in Workers,
                Fork(w) \/ NextCall(w) \/ Acquire(w) \/ LockTimeout(w) \/
                PollEmpty(w) \/ Release(w) \/ EmptyStop(w) \/ EmptyRetry(w) \/ Raise(w) \/ Kill(w)
         PROVE TasksAccounted'
  BY <1>4 DEF Fork, NextCall, Acquire, LockTimeout, PollEmpty, Release,
    EmptyStop, EmptyRetry, Raise, Kill, TypeOK, TasksAccounted, Held, TaskInv
<1>5. CASE UNCHANGED vars
  BY <1>5 DEF vars, TypeOK, TasksAccounted, Held, TaskInv
<1>6. ASSUME NEW w \in Workers, ThreadGet(w) PROVE TasksAccounted'
  BY <1>6 DEF ThreadGet, TypeOK, TasksAccounted, Held, TaskInv
<1>7. ASSUME NEW w \in Workers, Cancel(w) PROVE TasksAccounted'
  BY <1>7 DEF Cancel, TypeOK, TasksAccounted, Held, TaskInv
<1>8. ASSUME NEW w \in Workers, StrayAcquire(w) PROVE TasksAccounted'
  BY <1>8 DEF StrayAcquire, TypeOK, TasksAccounted, Held, TaskInv
<1>9. ASSUME NEW w \in Workers, StrayTimeout(w) PROVE TasksAccounted'
  BY <1>9 DEF StrayTimeout, TypeOK, TasksAccounted, Held, TaskInv
<1>10. ASSUME NEW w \in Workers, StrayEmpty(w) PROVE TasksAccounted'
  BY <1>10 DEF StrayEmpty, TypeOK, TasksAccounted, Held, TaskInv
<1>11. ASSUME NEW w \in Workers, StrayReceive(w) PROVE TasksAccounted'
  BY <1>11 DEF StrayReceive, TypeOK, TasksAccounted, Held, TaskInv
<1>12. ASSUME NEW w \in Workers, StrayRelease(w) PROVE TasksAccounted'
  BY <1>12 DEF StrayRelease, TypeOK, TasksAccounted, Held, TaskInv
<1>13. QED
  BY <1>1, <1>2, <1>3, <1>4, <1>5, <1>6, <1>7, <1>8, <1>9, <1>10, <1>11,
    <1>12 DEF Next, Owner, Step, Stray

(* Every slot is free, queued, or in the hands of the one receiver.        *)
LEMMA SlotsAccountedStep == IInv /\ [Next]_vars => SlotsAccounted'
<1> SUFFICES ASSUME IInv, [Next]_vars PROVE SlotsAccounted'
  OBVIOUS
<1> USE DEF IInv, que, owner, worker, async
<1>1. CASE PutTask
  BY <1>1 DEF PutTask, TypeOK, SlotsAccounted, Unreleased, Leakers, Lost, TaskInv, LockInv, StrayInv
<1>2. ASSUME NEW w \in Workers, Acquire(w) PROVE SlotsAccounted'
  BY <1>2 DEF Acquire, TypeOK, SlotsAccounted, Unreleased, Leakers, Lost, TaskInv, LockInv, StrayInv
<1>3. ASSUME NEW w \in Workers, PollEmpty(w) PROVE SlotsAccounted'
  BY <1>3 DEF PollEmpty, TypeOK, SlotsAccounted, Unreleased, Leakers, Lost, TaskInv,
    LockInv, StrayInv
<1>4. ASSUME NEW w \in Workers, Receive(w) PROVE SlotsAccounted'
  BY <1>4 DEF Receive, TypeOK, SlotsAccounted, Unreleased, Leakers, Lost, TaskInv, LockInv, StrayInv
<1>5. ASSUME NEW w \in Workers, Release(w) PROVE SlotsAccounted'
  BY <1>5 DEF Release, TypeOK, SlotsAccounted, Unreleased, Leakers, Lost, TaskInv, LockInv, StrayInv
<1>6. ASSUME NEW w \in Workers, Work(w) PROVE SlotsAccounted'
  BY <1>6 DEF Work, TypeOK, SlotsAccounted, Unreleased, Leakers, Lost, TaskInv, LockInv, StrayInv
<1>7. ASSUME NEW w \in Workers, Raise(w) PROVE SlotsAccounted'
  <2>1. Leakers \subseteq Leakers'
    BY <1>7 DEF Raise, TypeOK, Leakers, Lost
  <2>2. CASE wpc[w] = "received"
    <3>1. Unreleased = {w} /\ Unreleased' = {}
      BY <1>7, <2>2 DEF Raise, TypeOK, Unreleased, LockInv
    <3>2. Leakers' # {}
      BY <1>7, <2>2 DEF Raise, TypeOK, Leakers, Lost, TaskInv
    <3>3. sem' \in {sem, sem + 1} /\ UNCHANGED <<put, got>>
      BY <1>7, <2>2 DEF Raise
    <3>4. sem + (put - got) <= MaxQueue - 1
      BY <3>1 DEF SlotsAccounted
    <3>5. sem \in Nat /\ put \in Nat /\ got \in Nat /\ MaxQueue \in Nat
      BY DEF TypeOK
    <3>6. sem' = sem \/ sem' = sem + 1
      BY <3>3
    <3>7. put' = put /\ got' = got
      BY <3>3
    <3>8. sem' + (put - got) <= MaxQueue
      BY <3>4, <3>5, <3>6
    <3>9. sem' + (put' - got') <= MaxQueue
      BY <3>7, <3>8
    <3>10. QED
      BY <3>1, <3>2, <3>9 DEF SlotsAccounted
  <2>3. CASE wpc[w] # "received"
    <3>1. Unreleased' = Unreleased
      BY <1>7, <2>3 DEF Raise, TypeOK, Unreleased
    <3>2. UNCHANGED <<sem, put, got>>
      BY <1>7, <2>3 DEF Raise
    <3>3. QED
      BY <2>1, <3>1, <3>2 DEF SlotsAccounted
  <2>4. QED
    BY <2>2, <2>3
<1>8. ASSUME NEW w \in Workers, Kill(w) PROVE SlotsAccounted'
  <2>1. Leakers \subseteq Leakers'
    BY <1>8 DEF Kill, TypeOK, Leakers, Lost
  <2>2. CASE w \in Unreleased
    <3>1. Unreleased = {w} /\ Unreleased' = {}
      BY <1>8, <2>2 DEF Kill, TypeOK, Unreleased, LockInv
    <3>2. Leakers' # {}
      BY <1>8, <2>2 DEF Kill, TypeOK, Leakers, Lost, TaskInv, Unreleased
    <3>3. sem' \in {sem, sem + 1} /\ UNCHANGED <<put, got>>
      BY <1>8, <2>2 DEF Kill
    <3>4. sem + (put - got) <= MaxQueue - 1
      BY <3>1 DEF SlotsAccounted
    <3>5. sem \in Nat /\ put \in Nat /\ got \in Nat /\ MaxQueue \in Nat
      BY DEF TypeOK
    <3>6. sem' = sem \/ sem' = sem + 1
      BY <3>3
    <3>7. put' = put /\ got' = got
      BY <3>3
    <3>8. sem' + (put - got) <= MaxQueue
      BY <3>4, <3>5, <3>6
    <3>9. sem' + (put' - got') <= MaxQueue
      BY <3>7, <3>8
    <3>10. QED
      BY <3>1, <3>2, <3>9 DEF SlotsAccounted
  <2>3. CASE w \notin Unreleased
    <3>1. Unreleased' = Unreleased
      BY <1>8, <2>3 DEF Kill, TypeOK, Unreleased
    <3>2. UNCHANGED <<sem, put, got>>
      BY <1>8, <2>3 DEF Kill
    <3>3. QED
      BY <2>1, <3>1, <3>2 DEF SlotsAccounted
  <2>4. QED
    BY <2>2, <2>3
<1>9. CASE PutCall \/ PutFull \/ StartCall \/ BarrierTrip \/ QueueClose \/
           JoinThread \/ SetEvent \/ JoinWorkers \/ JoinUnstarted \/ Feed
  BY <1>9 DEF PutCall, PutFull, StartCall, BarrierTrip, QueueClose, JoinThread,
    SetEvent, JoinWorkers, JoinUnstarted, Feed, TypeOK, SlotsAccounted,
    Unreleased, Leakers, Lost, TaskInv, LockInv, StrayInv
<1>10. ASSUME NEW w \in Workers,
                Fork(w) \/ NextCall(w) \/ LockTimeout(w) \/ EmptyStop(w) \/
                EmptyRetry(w)
         PROVE SlotsAccounted'
  BY <1>10 DEF Fork, NextCall, LockTimeout, EmptyStop, EmptyRetry, TypeOK,
    SlotsAccounted, Unreleased, Leakers, Lost, TaskInv, LockInv, StrayInv
<1>11. CASE UNCHANGED vars
  BY <1>11 DEF vars, TypeOK, SlotsAccounted, Unreleased, Leakers, Lost, TaskInv, LockInv, StrayInv
<1>12. ASSUME NEW w \in Workers, ThreadGet(w) PROVE SlotsAccounted'
  BY <1>12 DEF ThreadGet, TypeOK, SlotsAccounted, Unreleased, Leakers, Lost, TaskInv, LockInv, StrayInv
<1>13. ASSUME NEW w \in Workers, Cancel(w) PROVE SlotsAccounted'
  BY <1>13 DEF Cancel, TypeOK, SlotsAccounted, Unreleased, Leakers, Lost, TaskInv, LockInv, StrayInv
<1>14. ASSUME NEW w \in Workers, StrayAcquire(w) PROVE SlotsAccounted'
  BY <1>14 DEF StrayAcquire, TypeOK, SlotsAccounted, Unreleased, Leakers, Lost, TaskInv, LockInv, StrayInv
<1>15. ASSUME NEW w \in Workers, StrayTimeout(w) PROVE SlotsAccounted'
  BY <1>15 DEF StrayTimeout, TypeOK, SlotsAccounted, Unreleased, Leakers, Lost, TaskInv, LockInv, StrayInv
<1>16. ASSUME NEW w \in Workers, StrayEmpty(w) PROVE SlotsAccounted'
  BY <1>16 DEF StrayEmpty, TypeOK, SlotsAccounted, Unreleased, Leakers, Lost, TaskInv, LockInv, StrayInv
<1>17. ASSUME NEW w \in Workers, StrayReceive(w) PROVE SlotsAccounted'
  BY <1>17 DEF StrayReceive, TypeOK, SlotsAccounted, Unreleased, Leakers, Lost, TaskInv, LockInv, StrayInv
<1>18. ASSUME NEW w \in Workers, StrayRelease(w) PROVE SlotsAccounted'
  BY <1>18 DEF StrayRelease, TypeOK, SlotsAccounted, Unreleased, Leakers, Lost, TaskInv, LockInv, StrayInv
<1>19. QED
  BY <1>1, <1>2, <1>3, <1>4, <1>5, <1>6, <1>7, <1>8, <1>9, <1>10, <1>11,
    <1>12, <1>13, <1>14, <1>15, <1>16, <1>17, <1>18 DEF Next, Owner, Step,
    Stray

(* When a worker is bound to end, the queue is empty or somebody drains it.*)
LEMMA DrainInvStep == IInv /\ [Next]_vars => DrainInv'
<1> SUFFICES ASSUME IInv, [Next]_vars PROVE DrainInv'
  OBVIOUS
<1> USE DEF IInv, que, owner, worker, async
<1>1. CASE PutTask
  BY <1>1 DEF PutTask, TypeOK, DrainInv, Leaving, Drainers, Active, Lost,
    Exited, EventInv, LockInv, OwnerInv
<1>2. ASSUME NEW w \in Workers, LockTimeout(w) PROVE DrainInv'
  BY <1>2 DEF LockTimeout, TypeOK, DrainInv, Leaving, Drainers, Active,
    Lost, Exited, EventInv, LockInv,
    OwnerInv, StrayInv
<1>3. ASSUME NEW w \in Workers, PollEmpty(w) PROVE DrainInv'
  BY <1>3 DEF PollEmpty, TypeOK, DrainInv, Leaving, Drainers, Active, Lost,
    Exited, EventInv, LockInv, OwnerInv
<1>4. ASSUME NEW w \in Workers, Receive(w) PROVE DrainInv'
  BY <1>4 DEF Receive, TypeOK, DrainInv, Leaving, Drainers, Active, Lost,
    Exited, EventInv, LockInv, OwnerInv
<1>5. ASSUME NEW w \in Workers, EmptyStop(w) PROVE DrainInv'
  BY <1>5 DEF EmptyStop, TypeOK, DrainInv, Leaving, Drainers, Active, Lost,
    Exited, EventInv, LockInv, OwnerInv
<1>6. ASSUME NEW w \in Workers, EmptyRetry(w) PROVE DrainInv'
  BY <1>6 DEF EmptyRetry, TypeOK, DrainInv, Leaving, Drainers, Active, Lost,
    Exited, EventInv, LockInv, OwnerInv
<1>7. ASSUME NEW w \in Workers, Raise(w) PROVE DrainInv'
  BY <1>7 DEF Raise, TypeOK, DrainInv, Leaving, Drainers, Active, Lost,
    Exited, EventInv, LockInv, OwnerInv
<1>8. ASSUME NEW w \in Workers, Kill(w) PROVE DrainInv'
  BY <1>8 DEF Kill, TypeOK, DrainInv, Leaving, Drainers, Active, Lost,
    Exited, EventInv, LockInv, OwnerInv
<1>9. CASE PutCall \/ PutFull \/ StartCall \/ BarrierTrip \/ QueueClose \/
           JoinThread \/ SetEvent \/ JoinWorkers \/ JoinUnstarted \/ Feed
  BY <1>9 DEF PutCall, PutFull, StartCall, BarrierTrip, QueueClose, JoinThread,
    SetEvent, JoinWorkers, JoinUnstarted, Feed, TypeOK, DrainInv, Leaving,
    Drainers, Active, Lost, Exited, EventInv, LockInv, OwnerInv
<1>10. ASSUME NEW w \in Workers,
                Fork(w) \/ NextCall(w) \/ Acquire(w) \/ Release(w) \/ Work(w)
         PROVE DrainInv'
  BY <1>10 DEF Fork, NextCall, Acquire, Release, Work, TypeOK, DrainInv,
    Leaving, Drainers, Active, Lost, Exited, EventInv, LockInv, OwnerInv
<1>11. CASE UNCHANGED vars
  BY <1>11 DEF vars, TypeOK, DrainInv, Leaving, Drainers, Active, Lost,
    Exited, EventInv, LockInv, OwnerInv
<1>12. ASSUME NEW w \in Workers, ThreadGet(w) PROVE DrainInv'
  BY <1>12 DEF ThreadGet, TypeOK, DrainInv, Leaving, Drainers, Active, Lost, Exited, EventInv, LockInv,
    OwnerInv, StrayInv
<1>13. ASSUME NEW w \in Workers, Cancel(w) PROVE DrainInv'
  BY <1>13 DEF Cancel, TypeOK, DrainInv, Leaving, Drainers, Active, Lost, Exited, EventInv, LockInv,
    OwnerInv, StrayInv
<1>14. ASSUME NEW w \in Workers, StrayAcquire(w) PROVE DrainInv'
  BY <1>14 DEF StrayAcquire, TypeOK, DrainInv, Leaving, Drainers, Active, Lost, Exited, EventInv, LockInv,
    OwnerInv, StrayInv
<1>15. ASSUME NEW w \in Workers, StrayTimeout(w) PROVE DrainInv'
  BY <1>15 DEF StrayTimeout, TypeOK, DrainInv, Leaving, Drainers, Active, Lost, Exited, EventInv, LockInv,
    OwnerInv, StrayInv
<1>16. ASSUME NEW w \in Workers, StrayEmpty(w) PROVE DrainInv'
  BY <1>16 DEF StrayEmpty, TypeOK, DrainInv, Leaving, Drainers, Active, Lost, Exited, EventInv, LockInv,
    OwnerInv, StrayInv
<1>17. ASSUME NEW w \in Workers, StrayReceive(w) PROVE DrainInv'
  BY <1>17 DEF StrayReceive, TypeOK, DrainInv, Leaving, Drainers, Active, Lost, Exited, EventInv, LockInv,
    OwnerInv, StrayInv
<1>18. ASSUME NEW w \in Workers, StrayRelease(w) PROVE DrainInv'
  BY <1>18 DEF StrayRelease, TypeOK, DrainInv, Leaving, Drainers, Active, Lost, Exited, EventInv, LockInv,
    OwnerInv, StrayInv
<1>19. QED
  BY <1>1, <1>2, <1>3, <1>4, <1>5, <1>6, <1>7, <1>8, <1>9, <1>10, <1>11,
    <1>12, <1>13, <1>14, <1>15, <1>16, <1>17, <1>18 DEF Next, Owner, Step,
    Stray

(* The invariant is inductive, so it holds in every reachable state.       *)
THEOREM Invariance == Spec => []IInv
<1>1. IInv /\ [Next]_vars => IInv'
  <2> SUFFICES ASSUME IInv, [Next]_vars PROVE IInv'
    OBVIOUS
  <2> QED
    BY TypeOKStep, OwnerInvStep, EventInvStep, LockInvStep, TaskInvStep, StrayInvStep,
       TasksAccountedStep, SlotsAccountedStep, DrainInvStep DEF IInv
<1>2. QED
  BY InitIInv, <1>1, PTL DEF Spec

(* Every variable keeps its type, the free slots stay within max_quesize.  *)
THEOREM Typing == Spec => []TypeOK
<1>1. IInv => TypeOK
  BY DEF IInv
<1>2. QED
  BY Invariance, <1>1, PTL

(* No task is ever processed twice or lost by the queue itself.            *)
THEOREM Accounting == Spec => []TasksAccounted
<1>1. IInv => TasksAccounted
  BY DEF IInv
<1>2. QED
  BY Invariance, <1>1, PTL

(* The queue loses a slot only with a worker that was lost with a task.    *)
THEOREM Slots == Spec => []SlotsAccounted
<1>1. IInv => SlotsAccounted
  BY DEF IInv
<1>2. QED
  BY Invariance, <1>1, PTL

(* The workers never all leave a queue that still holds tasks.             *)
THEOREM Draining == Spec => []LastOneDrains
<1>1. IInv => LastOneDrains
  BY DEF IInv, DrainInv, LastOneDrains, Leaving, Drainers
<1>2. QED
  BY Invariance, <1>1, PTL

(* When stop() returns and no worker was lost, every task put was done.    *)
THEOREM Completion == Spec => []StoppedMeansDone
<1>1. ASSUME IInv PROVE StoppedMeansDone
  <2> SUFFICES ASSUME ppc = "stopped", Lost = {}, ~cut PROVE done = 1..put
    BY DEF StoppedMeansDone
  <2>1. \A w \in Workers : wpc[w] = "ended"
    BY <1>1 DEF IInv, OwnerInv, Active, Lost, Exited
  <2>2. got = put
    BY <1>1, <2>1 DEF IInv, DrainInv, Leaving, Drainers, Active, Exited
  <2>3. \A w \in Workers : task[w] = 0
    BY <1>1, <2>1 DEF IInv, TaskInv
  <2>4. Held = {} /\ dropped = {}
    BY <1>1, <2>3 DEF IInv, Held, StrayInv
  <2>5. QED
    BY <1>1, <2>2, <2>4 DEF IInv, TasksAccounted
<1>2. QED
  BY Invariance, <1>1, PTL

(* ... and so does the initial condition of TaskPool.                      *)
LEMMA InitRefines == Init => Pool!Init
<1> SUFFICES ASSUME Init PROVE Pool!Init
  OBVIOUS
<1>1. Lost = {}
  BY DEF Init, Lost
<1>2. PoolPhase = "open"
  BY DEF Init, PoolPhase
<1>3. QED
  BY <1>1, <1>2 DEF Init, Pool!Init

(* Each step of MProcess is a step of TaskPool or leaves it alone.         *)
LEMMA StepRefines == IInv /\ [Next]_vars => [Pool!Next]_Pool!vars
<1> SUFFICES ASSUME IInv, [Next]_vars PROVE [Pool!Next]_Pool!vars
  OBVIOUS
<1> USE DEF IInv, que, owner, worker, async
<1>1. CASE PutTask
  <2>1. UNCHANGED Lost /\ PoolPhase = "open" /\ PoolPhase' = "open"
    BY <1>1 DEF PutTask, Lost, PoolPhase
  <2>2. Pool!Submit
    BY <1>1, <2>1 DEF PutTask, Pool!Submit, OwnerInv
  <2>3. QED
    BY <2>2 DEF Pool!Next
<1>2. CASE QueueClose
  <2>1. Pool!Close
    BY <1>2 DEF QueueClose, Pool!Close, Lost, PoolPhase
  <2>2. QED
    BY <2>1 DEF Pool!Next
<1>3. CASE JoinWorkers
  <2>1. UNCHANGED <<put, got, task, done, dropped, cut>> /\ UNCHANGED Lost
    BY <1>3 DEF JoinWorkers, Lost
  <2>2. PoolPhase = "closed" /\ PoolPhase' = "finished"
    BY <1>3 DEF JoinWorkers, PoolPhase
  <2>3. ASSUME NEW w \in Workers \ Lost PROVE wpc[w] = "ended" /\ task[w] = 0
    BY <1>3 DEF JoinWorkers, Active, Lost, Exited, TaskInv
  <2>4. ASSUME Lost = {}, ~cut PROVE got = put
    BY <1>3, <2>3, <2>4 DEF JoinWorkers, DrainInv, Leaving, Drainers, Active
  <2>5. Pool!Finish
    BY <2>1, <2>2, <2>3, <2>4 DEF Pool!Finish
  <2>6. QED
    BY <2>5 DEF Pool!Next
<1>4. ASSUME NEW w \in Workers, Receive(w) PROVE Pool!Next
  <2>1. UNCHANGED Lost /\ w \notin Lost
    BY <1>4 DEF Receive, Lost, TypeOK
  <2>2. UNCHANGED PoolPhase /\ PoolPhase # "finished"
    BY <1>4 DEF Receive, PoolPhase, OwnerInv, Active, Exited
  <2>3. task[w] = 0 /\ got < put
    BY <1>4 DEF Receive, TaskInv, TypeOK
  <2>4. Pool!Hand(w)
    BY <1>4, <2>1, <2>2, <2>3 DEF Receive, Pool!Hand
  <2>5. QED
    BY <2>4 DEF Pool!Next
<1>5. ASSUME NEW w \in Workers, Work(w) PROVE Pool!Next
  <2>1. UNCHANGED Lost /\ w \notin Lost /\ UNCHANGED PoolPhase
    BY <1>5 DEF Work, Lost, TypeOK, PoolPhase
  <2>2. Pool!Complete(w)
    BY <1>5, <2>1 DEF Work, Pool!Complete, TaskInv
  <2>3. QED
    BY <2>2 DEF Pool!Next
<1>6. ASSUME NEW w \in Workers, Raise(w) \/ Kill(w) PROVE Pool!Next
  <2>1. Lost' = Lost \cup {w}
    BY <1>6 DEF Raise, Kill, Lost, TypeOK, Exited
  <2>2. UNCHANGED PoolPhase /\ PoolPhase # "finished"
    BY <1>6 DEF Raise, Kill, PoolPhase, OwnerInv, Active, Exited, ShutDown
  <2>3. Pool!Crash(w)
    BY <1>6, <2>1, <2>2 DEF Raise, Kill, Pool!Crash
  <2>4. QED
    BY <2>3 DEF Pool!Next
<1>7. CASE PutCall \/ PutFull \/ StartCall \/ BarrierTrip \/ JoinThread \/ SetEvent
           \/ JoinUnstarted \/ Feed
  <2>1. UNCHANGED <<put, got, task, done, dropped, cut>> /\ UNCHANGED PoolPhase
    BY <1>7 DEF PutCall, PutFull, StartCall, BarrierTrip, JoinThread, SetEvent,
       JoinUnstarted, Feed, PoolPhase
  <2>2. UNCHANGED Lost
    BY <1>7 DEF PutCall, PutFull, StartCall, BarrierTrip, JoinThread, SetEvent,
       JoinUnstarted, Feed, Lost
  <2>3. QED
    BY <2>1, <2>2 DEF Pool!vars
<1>8. ASSUME NEW w \in Workers,
             Fork(w) \/ NextCall(w) \/ Acquire(w) \/ LockTimeout(w) \/ PollEmpty(w)
             \/ Release(w) \/ EmptyStop(w) \/ EmptyRetry(w)
      PROVE UNCHANGED Pool!vars
  <2>1. UNCHANGED <<put, got, task, done, dropped, cut>> /\ UNCHANGED PoolPhase
    BY <1>8 DEF Fork, NextCall, Acquire, LockTimeout, PollEmpty, Release,
       EmptyStop, EmptyRetry, PoolPhase
  <2>2. UNCHANGED Lost
    BY <1>8 DEF Fork, NextCall, Acquire, LockTimeout, PollEmpty, Release,
       EmptyStop, EmptyRetry, Lost, TypeOK
  <2>3. QED
    BY <2>1, <2>2 DEF Pool!vars
<1>9. CASE UNCHANGED vars
  BY <1>9 DEF vars, Pool!vars, Lost, PoolPhase
<1>10. ASSUME NEW w \in Workers, Cancel(w) PROVE Pool!Next
  <2>1. UNCHANGED Lost /\ w \notin Lost
    BY <1>10 DEF Cancel, Lost, TypeOK
  <2>2. UNCHANGED PoolPhase
    BY <1>10 DEF Cancel, PoolPhase
  <2>3. Pool!Abandon(w)
    BY <1>10, <2>1, <2>2 DEF Cancel, Pool!Abandon
  <2>4. QED
    BY <2>3 DEF Pool!Next
<1>11. ASSUME NEW w \in Workers, StrayReceive(w) PROVE Pool!Next
  <2>1. UNCHANGED Lost /\ cut
    BY <1>11 DEF StrayReceive, Lost, StrayInv
  <2>2. UNCHANGED PoolPhase /\ PoolPhase # "finished"
    BY <1>11 DEF StrayReceive, PoolPhase, OwnerInv, ShutDown
  <2>3. got < put
    BY <1>11 DEF StrayReceive, TypeOK
  <2>4. Pool!Drop
    BY <1>11, <2>1, <2>2, <2>3 DEF StrayReceive, Pool!Drop
  <2>5. QED
    BY <2>4 DEF Pool!Next
<1>12. ASSUME NEW w \in Workers,
              ThreadGet(w) \/ StrayAcquire(w) \/ StrayTimeout(w) \/ StrayEmpty(w)
              \/ StrayRelease(w)
       PROVE UNCHANGED Pool!vars
  <2>1. UNCHANGED <<put, got, task, done, dropped, cut>> /\ UNCHANGED PoolPhase
    BY <1>12 DEF ThreadGet, StrayAcquire, StrayTimeout, StrayEmpty,
       StrayRelease, PoolPhase
  <2>2. UNCHANGED Lost
    BY <1>12 DEF ThreadGet, StrayAcquire, StrayTimeout, StrayEmpty,
       StrayRelease, Lost, TypeOK
  <2>3. QED
    BY <2>1, <2>2 DEF Pool!vars
<1>13. QED
  BY <1>1, <1>2, <1>3, <1>4, <1>5, <1>6, <1>7, <1>8, <1>9, <1>10, <1>11, <1>12
  DEF Next, Owner, Step, Stray

(* MProcess implements the pool of TaskPool.                               *)
THEOREM Refinement == Spec => PoolSpec
<1>1. QED
  BY InitRefines, StepRefines, Invariance, PTL DEF Spec, PoolSpec, Pool!Spec
=============================================================================
