------------------------------ MODULE TcpServer ------------------------------
(***************************************************************************)
(* comm/tcp_server.py: several tasks call start, stop, run_forever and     *)
(* wait_finish of one TcpServer, stop() also from a signal handler, while  *)
(* clients connect and their processors run.                               *)
(*                                                                         *)
(* Each start() that goes on makes a server, each run_forever() that goes  *)
(* on makes a task of _forever(); both are numbered, 0 stands for None.    *)
(* The port the system gives a server is called by the server's number;    *)
(* if listen_port is not 0, 0 stands for that one port.                    *)
(*                                                                         *)
(* External: asyncio.start_server, which may fail, and listens one turn of *)
(* the loop before it returns; Task.cancel(), whose CancelledError comes   *)
(* when the task runs next; and Server.wait_closed, which waits for the    *)
(* connections of a closed server in newer versions of Python (`patient`)  *)
(* and does not in older ones.  A Connection that is closed releases its   *)
(* socket whatever happens (module Connection).                            *)
(***************************************************************************)
EXTENDS Naturals

CONSTANTS Callers,  (* tasks that call the methods of the server           *)
          Clients,  (* connections that may be made                        *)
          NStarts,  (* bound: calls of start() that go on                  *)
          NRuns     (* bound: calls of run_forever() that go on            *)

ASSUME CallsAssumption == NStarts \in Nat /\ NRuns \in Nat

Servers == 1..NStarts
Runs == 1..NRuns

VARIABLES
  port_zero, patient, (* chosen once                                       *)
  stopped, server, forever, port,      (* the fields of the same names     *)
  pc,       (* where each caller is                                        *)
  on,       (* the server it starts or waits for, or its _forever() task   *)
  life, at, (* of each server, and the port it binds                       *)
  task,     (* of each _forever() task                                     *)
  conn, of, (* of each client, and the server that accepted it             *)
  severed,  (* tasks that had ended when their caller was cancelled in its *)
            (* await, so that it resumes with the CancelledError           *)
  orphans,  (* history: servers that listened when start() was cancelled   *)
  crossed,  (* history: a stop() came while a start() was awaited          *)
  late      (* history: callers of run_forever() on a stopped server       *)

fields == <<stopped, server, forever, port>>
servers == <<life, at, orphans>>
tasks == <<task, severed>>
clients == <<conn, of>>
chosen == <<port_zero, patient>>
vars == <<port_zero, patient, stopped, server, forever, port, pc, on, life, at,
          task, conn, of, severed, orphans, crossed, late>>

Init == /\ port_zero \in BOOLEAN /\ patient \in BOOLEAN
        /\ stopped = TRUE
        /\ server = 0 /\ forever = 0 /\ port = 0
        /\ pc = [c \in Callers |-> "idle"]
        /\ on = [c \in Callers |-> 0]
        /\ life = [s \in Servers |-> "none"]
        /\ at = [s \in Servers |-> 0]
        /\ task = [i \in Runs |-> "none"]
        /\ conn = [k \in Clients |-> "none"]
        /\ of = [k \in Clients |-> 0]
        /\ severed = {} /\ orphans = {}
        /\ crossed = FALSE
        /\ late = {}

Go(c, to, x) == /\ pc' = [pc EXCEPT ![c] = to]
                /\ on' = [on EXCEPT ![c] = x]
-----------------------------------------------------------------------------
(* The port is read when start() is called.                                *)
Starts(c, s) == /\ life[s] = "none" /\ \A r \in 1..s - 1 : life[r] # "none"
                /\ life' = [life EXCEPT ![s] = "starting"]
                /\ at' = [at EXCEPT ![s] = IF port_zero /\ port = 0 THEN s ELSE port]
                /\ Go(c, "starting", s)

(* Faulty variant: start() does not assert that the server is stopped.     *)
StartCall_Anyway(c) ==
  /\ pc[c] = "idle"
  /\ stopped' = FALSE
  /\ \E s \in Servers : Starts(c, s)
  /\ UNCHANGED <<chosen, server, forever, port, tasks, clients, orphans, crossed, late>>

(* start(): the flag is taken back before the await of start_server.       *)
StartCall(c) ==
  /\ pc[c] = "idle"
  /\ stopped
  /\ stopped' = FALSE
  /\ \E s \in Servers : Starts(c, s)
  /\ UNCHANGED <<chosen, server, forever, port, tasks, clients, orphans, crossed, late>>

(* Within start_server: the server listens, and clients may come, though   *)
(* the object does not know it yet.  A port cannot be shared.              *)
StartListens(c) ==
  /\ pc[c] = "starting" /\ life[on[c]] = "starting"
  /\ \A s \in Servers : life[s] = "listening" => at[s] # at[on[c]]
  /\ life' = [life EXCEPT ![on[c]] = "listening"]
  /\ UNCHANGED <<chosen, fields, pc, on, at, orphans, tasks, clients, crossed, late>>

StartReturn(c) ==
  /\ pc[c] = "starting" /\ life[on[c]] = "listening"
  /\ server' = on[c]
  /\ port' = IF port = 0 THEN at[on[c]] ELSE port
  /\ Go(c, "idle", 0)
  /\ UNCHANGED <<chosen, stopped, forever, servers, tasks, clients, crossed, late>>

(* start_server raises, or is cancelled, before it listens; the flag stays *)
(* as it is.                                                               *)
StartRaise(c) ==
  /\ pc[c] = "starting" /\ life[on[c]] = "starting"
  /\ life' = [life EXCEPT ![on[c]] = "failed"]
  /\ Go(c, "idle", 0)
  /\ UNCHANGED <<chosen, fields, at, orphans, tasks, clients, crossed, late>>

(* It is cancelled when it listens already: the event loop keeps a server  *)
(* that is in no field.                                                    *)
CancelStart(c) ==
  /\ pc[c] = "starting" /\ life[on[c]] = "listening"
  /\ orphans' = orphans \cup {on[c]}
  /\ Go(c, "idle", 0)
  /\ UNCHANGED <<chosen, fields, life, at, tasks, clients, crossed, late>>
-----------------------------------------------------------------------------
(* What Task.cancel() does to a task of _forever(): the CancelledError     *)
(* comes in its next step, in the sleep, or before its first line.         *)
OnCancel(i) == IF task[i] = "sleeping" THEN "ending"
               ELSE IF task[i] = "new" THEN "doomed" ELSE task[i]

(* Faulty variant: stop() leaves run_forever() alone.                      *)
StopBody_KeepsForever ==
  /\ stopped' = TRUE
  /\ port' = IF port_zero THEN 0 ELSE port
  /\ life' = [s \in Servers |-> IF s = server /\ life[s] = "listening"
                                THEN "closed" ELSE life[s]]
  /\ crossed' = (crossed \/ \E c \in Callers : pc[c] = "starting")
  /\ UNCHANGED <<server, forever, at, orphans, tasks>>

(* What stop() does to a server that is not stopped.  Without a server it  *)
(* raises at the close, and does not come to cancel _forever.              *)
StopBody ==
  /\ stopped' = TRUE
  /\ port' = IF port_zero THEN 0 ELSE port
  /\ life' = [s \in Servers |-> IF s = server /\ life[s] = "listening"
                                THEN "closed" ELSE life[s]]
  /\ task' = [i \in Runs |-> IF i = forever /\ server # 0 THEN OnCancel(i) ELSE task[i]]
  /\ crossed' = (crossed \/ \E c \in Callers : pc[c] = "starting")
  /\ UNCHANGED <<server, forever, at, orphans, severed>>

Stop == /\ ~stopped
        /\ StopBody
        /\ UNCHANGED <<chosen, pc, on, clients, late>>

(* run_forever(): asserts that nobody else is in it.                       *)
RunForever(c) ==
  /\ pc[c] = "idle"
  /\ forever = 0
  /\ \E i \in Runs :
       /\ task[i] = "none" /\ \A j \in 1..i - 1 : task[j] # "none"
       /\ task' = [task EXCEPT ![i] = "new"]
       /\ forever' = i
       /\ Go(c, "forever", i)
  /\ late' = IF stopped \/ server = 0 THEN late \cup {c} ELSE late \ {c}
  /\ UNCHANGED <<chosen, stopped, server, port, servers, severed, clients, crossed>>

ForeverBegins(i) ==
  /\ task[i] = "new"
  /\ task' = [task EXCEPT ![i] = "sleeping"]
  /\ UNCHANGED <<chosen, fields, pc, on, servers, severed, clients, crossed, late>>

(* The CancelledError is caught around the sleep only.                     *)
ForeverEnds(i) ==
  /\ task[i] \in {"ending", "doomed"}
  /\ task' = [task EXCEPT ![i] = IF task[i] = "ending" THEN "returned" ELSE "cancelled"]
  /\ UNCHANGED <<chosen, fields, pc, on, servers, severed, clients, crossed, late>>

(* The caller of run_forever() is cancelled: so is the task it awaits, or, *)
(* when this one has ended and the caller only has to resume, the await.   *)
CancelForever(c) ==
  /\ pc[c] = "forever"
  /\ IF task[on[c]] \in {"returned", "cancelled"}
     THEN severed' = severed \cup {on[c]} /\ UNCHANGED task
     ELSE task' = [task EXCEPT ![on[c]] = OnCancel(on[c])] /\ UNCHANGED severed
  /\ UNCHANGED <<chosen, fields, pc, on, servers, clients, crossed, late>>

ForeverReturn(c) ==
  /\ pc[c] = "forever"
  /\ task[on[c]] = "returned" /\ on[c] \notin severed
  /\ forever' = 0
  /\ Go(c, "idle", 0)
  /\ UNCHANGED <<chosen, stopped, server, port, servers, tasks, clients, crossed, late>>

(* The CancelledError of a task that never began, or the caller's own, is  *)
(* raised by the await: run_forever() ends before it resets the field.     *)
ForeverRaise(c) ==
  /\ pc[c] = "forever"
  /\ task[on[c]] = "cancelled" \/ on[c] \in severed
  /\ Go(c, "idle", 0)
  /\ UNCHANGED <<chosen, fields, servers, tasks, clients, crossed, late>>

(* wait_finish(): stops a server that is not stopped; without one it       *)
(* raises.                                                                 *)
WaitFinish(c) ==
  /\ pc[c] = "idle"
  /\ IF stopped THEN UNCHANGED <<fields, servers, tasks, crossed>> ELSE StopBody
  /\ IF server = 0 THEN UNCHANGED <<pc, on>> ELSE Go(c, "waiting", server)
  /\ UNCHANGED <<chosen, clients, late>>

(* The connections of s that wait_closed() waits for.                      *)
Waited(s) == IF patient THEN {k \in Clients : of[k] = s /\ conn[k] # "closed"} ELSE {}

WaitReturn(c) ==
  /\ pc[c] = "waiting"
  /\ life[on[c]] = "closed" /\ Waited(on[c]) = {}
  /\ Go(c, "idle", 0)
  /\ UNCHANGED <<chosen, fields, servers, tasks, clients, crossed, late>>

CancelWait(c) ==
  /\ pc[c] = "waiting"
  /\ Go(c, "idle", 0)
  /\ UNCHANGED <<chosen, fields, servers, tasks, clients, crossed, late>>
-----------------------------------------------------------------------------
(* A client connects: wrapper() puts a Connection around its streams.      *)
Accept(k) ==
  /\ conn[k] = "none"
  /\ \E s \in Servers : /\ life[s] = "listening"
                        /\ of' = [of EXCEPT ![k] = s]
  /\ conn' = [conn EXCEPT ![k] = "processing"]
  /\ UNCHANGED <<chosen, fields, pc, on, servers, tasks, crossed, late>>

ConnGoes(k, from, to) ==
  /\ conn[k] = from
  /\ conn' = [conn EXCEPT ![k] = to]
  /\ UNCHANGED <<chosen, fields, pc, on, servers, tasks, of, crossed, late>>

(* Faulty variant: the connection is not closed if the processor raises.   *)
ProcessorEnds_Leaks(k) == ConnGoes(k, "processing", "left")

(* `async with conn`: however the processor ends, close() follows; its     *)
(* exceptions and those of the processor end in the log.                   *)
ProcessorEnds(k) == ConnGoes(k, "processing", "closing")
Close(k) == ConnGoes(k, "closing", "closed")
-----------------------------------------------------------------------------
Resume(c) == StartListens(c) \/ StartReturn(c) \/ StartRaise(c) \/ ForeverReturn(c)
             \/ ForeverRaise(c) \/ WaitReturn(c)

Next == \/ Stop
        \/ \E c \in Callers : \/ StartCall(c) \/ RunForever(c) \/ WaitFinish(c)
                              \/ CancelStart(c) \/ CancelForever(c) \/ CancelWait(c)
                              \/ Resume(c)
        \/ \E i \in Runs : ForeverBegins(i) \/ ForeverEnds(i)
        \/ \E k \in Clients : Accept(k) \/ ProcessorEnds(k) \/ Close(k)

(* Tasks that can go on do, and processors end some time; nobody need      *)
(* call, cancel or connect.                                                *)
Spec == /\ Init /\ [][Next]_vars
        /\ \A c \in Callers : WF_vars(Resume(c))
        /\ \A i \in Runs : WF_vars(ForeverBegins(i) \/ ForeverEnds(i))
        /\ \A k \in Clients : WF_vars(ProcessorEnds(k)) /\ WF_vars(Close(k))
-----------------------------------------------------------------------------
Life == {"none", "starting", "listening", "closed", "failed"}
TaskLife == {"none", "new", "sleeping", "doomed", "ending", "returned", "cancelled"}
TypeOK == /\ port_zero \in BOOLEAN /\ patient \in BOOLEAN /\ stopped \in BOOLEAN
          /\ server \in 0..NStarts /\ port \in 0..NStarts /\ forever \in 0..NRuns
          /\ pc \in [Callers -> {"idle", "starting", "forever", "waiting"}]
          /\ on \in [Callers -> Nat]
          /\ life \in [Servers -> Life] /\ at \in [Servers -> 0..NStarts]
          /\ task \in [Runs -> TaskLife]
          /\ conn \in [Clients -> {"none", "processing", "closing", "closed"}]
          /\ of \in [Clients -> 0..NStarts]
          /\ severed \subseteq Runs /\ orphans \subseteq Servers
          /\ crossed \in BOOLEAN /\ late \subseteq Callers

(* Unless a stop() crossed a start(): what listens is the one server that  *)
(* stop() would close, or that a start() is about to return, and then the  *)
(* object does not say it is stopped; or start() was cancelled when it     *)
(* listened.  `port` is the port of the server, or 0 without one (if       *)
(* listen_port was 0).                                                     *)
(* The field _forever is set while somebody is in run_forever().  After it *)
(* it is set only if the task was cancelled before it began, or the caller *)
(* after the task had ended; else no stop(), no other cancellation and no  *)
(* order of the two may leave it so: every later run_forever() would fail  *)
(* its assertion.                                                          *)
FieldsHold ==
  /\ ~crossed =>
       /\ \A s \in Servers \ orphans : life[s] = "listening" =>
            /\ ~stopped
            /\ s = server \/ \E c \in Callers : pc[c] = "starting" /\ on[c] = s
       /\ port = IF server # 0 /\ life[server] = "listening" THEN at[server] ELSE 0
  /\ \A c \in Callers : pc[c] = "forever" => forever = on[c]
  /\ forever # 0 => \/ \E c \in Callers : pc[c] = "forever" /\ on[c] = forever
                    \/ task[forever] = "cancelled" \/ forever \in severed
  /\ TypeOK

(* Who is in run_forever() when the server is stopped returns from it, if  *)
(* the server ran when it was called and no stop() crossed a start().      *)
ForeverReturns == \A c \in Callers :
  (pc[c] = "forever" /\ stopped /\ c \notin late /\ ~crossed) ~> pc[c] # "forever"

(* wait_finish() returns: the server it waits for is closed, and so is, in *)
(* the end, every connection, whatever its processor did.                  *)
WaitReturns == \A c \in Callers :
  (pc[c] = "waiting" /\ ~crossed) ~> (pc[c] # "waiting" \/ crossed)
=============================================================================
