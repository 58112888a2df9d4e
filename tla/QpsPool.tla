------------------------------- MODULE QpsPool -------------------------------
(***************************************************************************)
(* qps_pool.py: the tasks of an event loop take permits from a QpsPool     *)
(* with acquire(), threads with sync_acquire().                            *)
(*                                                                         *)
(* Time is counted in ticks.  Nobody needs the time itself: `last` is kept *)
(* as a distance from now, and a tick changes it.  A sleeper may go on     *)
(* late, never early.                                                      *)
(***************************************************************************)
EXTENDS Sums

CONSTANTS Tasks, Threads, (* the users of the pool                         *)
          Interval,       (* ticks per permit: 1 / limit                   *)
          MaxUnits        (* bound: permits asked for at once              *)

(* What is assumed of them.                                                *)
Assumed == /\ IsFiniteSet(Tasks) /\ IsFiniteSet(Threads)
           /\ Tasks \cap Threads = {}
           /\ Interval \in Nat /\ MaxUnits \in Nat \ {0}

Users == Tasks \cup Threads

(* A _last before this is as good as long ago.                             *)
LongAgo == -(2 * MaxUnits * Interval)

VARIABLES
  pc, wait,  (* where each user is, and what is left of its sleep          *)
  units,     (* the permits it asks for                                    *)
  plan,      (* the value it is about to store in _last                    *)
  last,      (* QpsPool._last                                              *)
  level,     (* history: how far the permits are ahead of the limit; not   *)
             (* kept up once two users were in _get_wait_sec at once       *)
  raced      (* history: whether they were                                 *)

vars == <<pc, wait, units, plan, last, level, raced>>

Init == /\ pc = [u \in Users |-> "idle"]
        /\ wait = [u \in Users |-> 0]
        /\ units = [u \in Users |-> 0]
        /\ plan = [u \in Users |-> 0]
        /\ last = LongAgo
        /\ level = 0
        /\ raced = FALSE
-----------------------------------------------------------------------------
(* _get_wait_sec reads _last in one line and stores it in another: no task *)
(* of the loop can get in between, threads can.                            *)
Deciding == {u \in Users : pc[u] = "decide"}

(* Faulty variant: what was not used is credited.                          *)
NextLast_Credit(n) == last + n * Interval

(* `next` if it is not over yet, else `current`.                           *)
NextLast(n) == Max({0, last + n * Interval})

GetWaitSec(u) ==
  /\ pc[u] = "idle"
  /\ u \in Tasks => Deciding \cap Tasks = {}
  /\ \E n \in 1..MaxUnits :
       /\ units' = [units EXCEPT ![u] = n]
       /\ plan' = [plan EXCEPT ![u] = NextLast(n)]
       /\ wait' = [wait EXCEPT ![u] = Max({0, last + n * Interval})]
  /\ pc' = [pc EXCEPT ![u] = "decide"]
  /\ raced' = (raced \/ Deciding # {})
  /\ level' = IF raced' THEN 0 ELSE level
  /\ UNCHANGED last

(* _last is stored, and the caller sleeps or has its permits at once.      *)
Store(u) ==
  /\ pc[u] = "decide"
  /\ last' = plan[u]
  /\ IF wait[u] > 0
     THEN /\ pc' = [pc EXCEPT ![u] = "sleep"]
          /\ UNCHANGED <<units, level>>
     ELSE /\ pc' = [pc EXCEPT ![u] = "idle"]
          /\ units' = [units EXCEPT ![u] = 0]
          /\ level' = IF raced THEN 0 ELSE level + units[u] * Interval
  /\ plan' = [plan EXCEPT ![u] = 0]
  /\ UNCHANGED <<wait, raced>>

(* Faulty variant: after its sleep a user waits until nobody is ahead.     *)
Acquired_Again(u) ==
  /\ pc[u] = "sleep" /\ wait[u] = 0
  /\ IF last > 0
     THEN wait' = [wait EXCEPT ![u] = last] /\ UNCHANGED <<pc, units>>
     ELSE /\ pc' = [pc EXCEPT ![u] = "idle"]
          /\ units' = [units EXCEPT ![u] = 0]
          /\ wait' = wait
  /\ UNCHANGED <<plan, last, level, raced>>

(* The sleep is over.                                                      *)
Acquired(u) ==
  /\ pc[u] = "sleep" /\ wait[u] = 0
  /\ pc' = [pc EXCEPT ![u] = "idle"]
  /\ units' = [units EXCEPT ![u] = 0]
  /\ UNCHANGED <<wait, plan, last, level, raced>>

(* Time passes, but not within the four lines of _get_wait_sec.  Permits   *)
(* count from the moment their sleep is due.                               *)
Less(x) == Max({0, x - 1})
Tick ==
  /\ Deciding = {}
  /\ wait' = [u \in Users |-> Less(wait[u])]
  /\ last' = Max({last - 1, LongAgo})
  /\ LET due == {u \in Users : pc[u] = "sleep" /\ wait[u] = 1}
     IN level' = IF raced THEN 0 ELSE
                 Less(level) + Interval * SumOver(units, due)
  /\ UNCHANGED <<pc, units, plan, raced>>
-----------------------------------------------------------------------------
Next == Tick \/ \E u \in Users : GetWaitSec(u) \/ Store(u) \/ Acquired(u)

(* Time passes, and who can go on does; nobody need ask for a permit.      *)
Fairness == WF_vars(Tick) /\ \A u \in Users : WF_vars(Store(u) \/ Acquired(u))
Spec == Init /\ [][Next]_vars /\ Fairness
-----------------------------------------------------------------------------
TypeOK == /\ pc \in [Users -> {"idle", "decide", "sleep"}]
          /\ wait \in [Users -> Nat]
          /\ units \in [Users -> 0..MaxUnits]
          /\ plan \in [Users -> Int]
          /\ last \in Int /\ last >= LongAgo
          /\ level \in Nat /\ raced \in BOOLEAN
          /\ \A u \in Users : pc[u] = "idle" <=> units[u] = 0

(* In any stretch of time no more permits are given than the limit allows  *)
(* for it and those of the largest request, whoever asks in whatever order *)
(* -- unless two users were in _get_wait_sec at once, as threads can be.   *)
(* Every variable keeps its type.                                          *)
PermitsSpaced == TypeOK /\ (~raced => level <= MaxUnits * Interval)
=============================================================================
