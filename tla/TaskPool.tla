------------------------------ MODULE TaskPool ------------------------------
(***************************************************************************)
(* What MProcess promises to the process that owns it, without queue,      *)
(* pipe, locks or events: tasks are handed to workers in the order they    *)
(* were put, each to one worker; a worker completes the task it holds or   *)
(* is lost with it; a worker may abandon a request for a task, and then    *)
(* tasks may be dropped; and stop() returns only when no surviving worker  *)
(* holds a task and, unless a worker was lost or a request abandoned, no   *)
(* task is left waiting.                                                   *)
(***************************************************************************)
EXTENDS Naturals

CONSTANTS Workers,    (* the worker processes                     *)
          NTasks      (* at most this many tasks are put          *)

VARIABLES submitted,  (* number of tasks put so far               *)
          handed,     (* number of tasks handed to a worker       *)
          held,       (* the task each worker holds, 0 for none   *)
          completed,  (* tasks whose processing was completed     *)
          dropped,    (* tasks that were handed to nobody         *)
          crashed,    (* workers lost                             *)
          abandoned,  (* a worker abandoned a request for a task  *)
          phase       (* "open", "closed" or "finished"           *)

vars == <<submitted, handed, held, completed, dropped, crashed, abandoned, phase>>

Init == /\ submitted = 0
        /\ handed = 0
        /\ held = [w \in Workers |-> 0]
        /\ completed = {}
        /\ dropped = {}
        /\ crashed = {}
        /\ abandoned = FALSE
        /\ phase = "open"

Submit == /\ phase = "open"
          /\ submitted < NTasks
          /\ submitted' = submitted + 1
          /\ UNCHANGED <<handed, held, completed, crashed, phase, dropped, abandoned>>

Hand(w) == /\ w \notin crashed
           /\ phase # "finished"
           /\ held[w] = 0
           /\ handed < submitted
           /\ handed' = handed + 1
           /\ held' = [held EXCEPT ![w] = handed + 1]
           /\ UNCHANGED <<submitted, completed, crashed, phase, dropped, abandoned>>

Complete(w) == /\ w \notin crashed
               /\ held[w] # 0
               /\ completed' = completed \cup {held[w]}
               /\ held' = [held EXCEPT ![w] = 0]
               /\ UNCHANGED <<submitted, handed, crashed, phase, dropped, abandoned>>

Crash(w) == /\ phase # "finished"
            /\ crashed' = crashed \cup {w}
            /\ UNCHANGED <<submitted, handed, held, completed, phase, dropped, abandoned>>

(* The task the worker was just given, if there is one, is dropped.        *)
Abandon(w) == /\ w \notin crashed
              /\ abandoned' = TRUE
              /\ dropped' = dropped \cup ({held[w]} \ {0})
              /\ held' = [held EXCEPT ![w] = 0]
              /\ UNCHANGED <<submitted, handed, completed, crashed, phase>>

Drop == /\ abandoned
        /\ phase # "finished"
        /\ handed < submitted
        /\ handed' = handed + 1
        /\ dropped' = dropped \cup {handed + 1}
        /\ UNCHANGED <<submitted, held, completed, crashed, abandoned, phase>>

Close == /\ phase = "open"
         /\ phase' = "closed"
         /\ UNCHANGED <<submitted, handed, held, completed, crashed, dropped, abandoned>>

Finish == /\ phase = "closed"
          /\ \A w \in Workers \ crashed : held[w] = 0
          /\ crashed = {} /\ ~abandoned => handed = submitted
          /\ phase' = "finished"
          /\ UNCHANGED <<submitted, handed, held, completed, crashed, dropped, abandoned>>

Next == \/ Submit \/ Drop \/ Close \/ Finish
        \/ \E w \in Workers : Hand(w) \/ Complete(w) \/ Abandon(w) \/ Crash(w)

Spec == Init /\ [][Next]_vars
=============================================================================
