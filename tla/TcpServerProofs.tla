-------------------------- MODULE TcpServerProofs --------------------------
(***************************************************************************)
(* FieldsHold of module TcpServer holds for any callers and clients and    *)
(* any numbers of starts and runs.  It is not inductive: what start() does *)
(* after its await depends on what the fields were before it, so IInv adds *)
(* what is known of a caller while it awaits start_server or its task.     *)
(***************************************************************************)
EXTENDS TcpServer, TLAPS

PC == {"idle", "starting", "forever", "waiting"}

(* A start() that goes on has a server of its own, which is in no field;   *)
(* the one in the field was started, and no orphan is in it.               *)
Owned ==
  /\ \A c \in Callers : pc[c] = "starting" =>
       /\ on[c] \in Servers /\ on[c] # server /\ on[c] \notin orphans
       /\ life[on[c]] \in {"starting", "listening"}
       /\ \A d \in Callers : pc[d] = "starting" /\ on[d] = on[c] => c = d
  /\ server # 0 => life[server] \in {"listening", "closed"}
  /\ \A s \in orphans : s # server /\ life[s] = "listening"

(* Only one caller is in run_forever(), and the field has its task.        *)
Inside == \A c \in Callers : pc[c] = "forever" =>
  /\ on[c] \in Runs /\ forever = on[c]
  /\ \A d \in Callers : pc[d] = "forever" => c = d

(* Unless a stop() crossed it, a start() that awaits is the only one, the  *)
(* flag is down, and nothing listens but its own server and orphans.       *)
Starting == ~crossed => \A c \in Callers : pc[c] = "starting" =>
  /\ ~stopped
  /\ \A s \in Servers \ orphans : life[s] = "listening" => s = on[c]
  /\ \A d \in Callers : pc[d] = "starting" => c = d

(* A port that was given is never replaced.                                *)
Given == ~port_zero => port = 0 /\ \A s \in Servers : at[s] = 0

(* The parts of FieldsHold.                                                *)
Listening == ~crossed =>
  \A s \in Servers \ orphans : life[s] = "listening" =>
    /\ ~stopped
    /\ s = server \/ \E c \in Callers : pc[c] = "starting" /\ on[c] = s
PortHolds == ~crossed =>
  port = IF server # 0 /\ life[server] = "listening" THEN at[server] ELSE 0
Reset == forever # 0 => \/ \E c \in Callers : pc[c] = "forever" /\ on[c] = forever
                        \/ task[forever] = "cancelled" \/ forever \in severed

IInv == /\ TypeOK /\ Owned /\ Inside /\ Starting /\ Given
        /\ Listening /\ PortHolds /\ Reset

LEMMA Parts == IInv => FieldsHold
BY DEF IInv, FieldsHold, Listening, PortHolds, Inside, Reset

LEMMA InitHolds == Init => IInv
<1> SUFFICES ASSUME Init PROVE IInv
  OBVIOUS
<1>1. TypeOK
  <2>1. 0 \in 0..NStarts /\ 0 \in 0..NRuns
    BY CallsAssumption
  <2>2. /\ of \in [Clients -> 0..NStarts] /\ on \in [Callers -> Nat]
        /\ at \in [Servers -> 0..NStarts]
    BY <2>1 DEF Init
  <2>3. life \in [Servers -> Life] /\ task \in [Runs -> TaskLife]
    BY DEF Init, Life, TaskLife
  <2>4. QED
    BY <2>1, <2>2, <2>3 DEF Init, TypeOK
<1>2. Owned /\ Inside /\ Starting /\ Given /\ Reset
  BY DEF Init, Owned, Inside, Starting, Given, Reset
<1>3. Listening /\ PortHolds
  BY DEF Init, Listening, PortHolds
<1>4. QED
  BY <1>1, <1>2, <1>3 DEF IInv

(* The numbers in the fields.                                              *)
LEMMA Numbers ==
  ASSUME IInv
  PROVE  /\ server \in Nat /\ (server # 0 => server \in Servers)
         /\ forever # 0 => forever \in Runs
         /\ Servers \subseteq 0..NStarts /\ Runs \subseteq 0..NRuns
         /\ 0 \in 0..NStarts /\ 0 \in 0..NRuns /\ 0 \notin Servers /\ 0 \notin Runs
         /\ Servers \subseteq Nat /\ Runs \subseteq Nat
BY CallsAssumption DEF IInv, TypeOK, Servers, Runs
-----------------------------------------------------------------------------
(* What stop() does to the fields, whoever calls it: without the caller's  *)
(* own place, that is pc and on.                                           *)
LEMMA StopBodyStep ==
  ASSUME IInv, StopBody, UNCHANGED chosen
  PROVE  /\ stopped' = TRUE /\ port' \in 0..NStarts
         /\ UNCHANGED <<server, forever, at, orphans, severed>>
         /\ life' \in [Servers -> Life] /\ task' \in [Runs -> TaskLife]
         /\ \A s \in Servers : life'[s] = IF s = server /\ life[s] = "listening"
                                          THEN "closed" ELSE life[s]
         /\ crossed' \in BOOLEAN
         /\ ~crossed' => /\ ~crossed /\ \A c \in Callers : pc[c] # "starting"
                         /\ \A s \in Servers \ orphans : life'[s] # "listening"
         /\ port_zero => port' = 0
         /\ ~port_zero => port' = port
         /\ \A i \in Runs : task[i] = "cancelled" => task'[i] = "cancelled"
<1>1. /\ UNCHANGED <<server, forever, at, orphans, severed>> /\ stopped' = TRUE
      /\ port' \in 0..NStarts
  BY Numbers DEF StopBody, IInv, TypeOK
<1>2. /\ life' \in [Servers -> Life]
      /\ \A s \in Servers : life'[s] = IF s = server /\ life[s] = "listening"
                                       THEN "closed" ELSE life[s]
  BY DEF StopBody, IInv, TypeOK, Life
<1>3. /\ task' \in [Runs -> TaskLife]
      /\ \A i \in Runs : task[i] = "cancelled" => task'[i] = "cancelled"
  <2>1. \A i \in Runs : task[i] \in TaskLife
    BY DEF IInv, TypeOK
  <2>2. \A i \in Runs : /\ OnCancel(i) \in TaskLife
                        /\ task[i] = "cancelled" => OnCancel(i) = "cancelled"
    BY <2>1 DEF OnCancel, TaskLife
  <2>3. task' = [i \in Runs |-> IF i = forever /\ server # 0 THEN OnCancel(i) ELSE task[i]]
    BY DEF StopBody
  <2>4. QED
    BY <2>1, <2>2, <2>3
<1>4. /\ crossed' \in BOOLEAN
      /\ ~crossed' => ~crossed /\ \A c \in Callers : pc[c] # "starting"
  BY DEF StopBody, IInv, TypeOK
<1>5. ~crossed' => \A s \in Servers \ orphans : life'[s] # "listening"
  BY <1>2, <1>4 DEF IInv, Listening
<1>6. (port_zero => port' = 0) /\ (~port_zero => port' = port)
  BY DEF StopBody
<1>7. QED
  BY <1>1, <1>2, <1>3, <1>4, <1>5, <1>6

(* The parts of IInv after a stop(), when the callers that awaited before  *)
(* are where they were.                                                    *)
LEMMA StopHolds ==
  ASSUME IInv, StopBody, UNCHANGED <<chosen, clients, late>>,
         pc' \in [Callers -> PC], on' \in [Callers -> Nat],
         \A c \in Callers :
           pc[c] \in {"starting", "forever"} \/ pc'[c] \in {"starting", "forever"} =>
             pc'[c] = pc[c] /\ on'[c] = on[c]
  PROVE  IInv'
<1>1. UNCHANGED <<port_zero, patient, conn, of, late>> /\ UNCHANGED chosen
  BY DEF chosen, clients
<1>2. /\ stopped' = TRUE /\ UNCHANGED <<server, forever, at, orphans, severed>>
      /\ \A s \in Servers : life'[s] = IF s = server /\ life[s] = "listening"
                                       THEN "closed" ELSE life[s]
      /\ ~crossed' => /\ ~crossed /\ \A c \in Callers : pc[c] # "starting"
                      /\ \A s \in Servers \ orphans : life'[s] # "listening"
  BY <1>1, StopBodyStep
<1>3. TypeOK'
  BY <1>1, StopBodyStep DEF IInv, TypeOK, PC
<1>4. Owned'
  <2>1. \A c \in Callers : pc'[c] = "starting" => pc[c] = "starting" /\ on'[c] = on[c]
    OBVIOUS
  <2>2. \A s \in Servers : s # server => life'[s] = life[s]
    BY <1>2
  <2>3. server # 0 => life'[server] \in {"listening", "closed"}
    BY <1>2, Numbers DEF IInv, Owned
  <2>4. orphans \subseteq Servers
    BY DEF IInv, TypeOK
  <2>5. QED
    BY <1>2, <2>1, <2>2, <2>3, <2>4 DEF IInv, Owned
<1>5. Inside'
  BY <1>2 DEF IInv, Inside
<1>6. Starting' /\ Listening'
  BY <1>2 DEF Starting, Listening
<1>7. Given'
  BY <1>1, <1>2, StopBodyStep DEF IInv, Given
<1>8. PortHolds'
  <2>1. port' = 0
    BY <1>1, StopBodyStep DEF IInv, Given
  <2>2. ~crossed' /\ server # 0 => life'[server] # "listening"
    BY <1>2, Numbers DEF IInv, Owned
  <2>3. QED
    BY <1>2, <2>1, <2>2 DEF PortHolds
<1>9. Reset'
  <2>1. \A i \in Runs : task[i] = "cancelled" => task'[i] = "cancelled"
    BY <1>1, StopBodyStep
  <2>2. QED
    BY <1>2, <2>1, Numbers DEF IInv, Reset
<1>10. QED
  BY <1>3, <1>4, <1>5, <1>6, <1>7, <1>8, <1>9 DEF IInv

LEMMA StopStep ==
  ASSUME IInv, Stop
  PROVE  IInv'
<1>1. StopBody /\ UNCHANGED <<chosen, clients, late>> /\ UNCHANGED <<pc, on>>
  BY DEF Stop
<1>2. pc' \in [Callers -> PC] /\ on' \in [Callers -> Nat]
  BY <1>1 DEF IInv, TypeOK, PC
<1>3. QED
  BY <1>1, <1>2, StopHolds
-----------------------------------------------------------------------------
LEMMA StartCallStep ==
  ASSUME IInv, NEW c \in Callers, StartCall(c)
  PROVE  IInv'
<1>1. PICK s \in Servers : Starts(c, s)
  BY DEF StartCall
<1>2. /\ life[s] = "none" /\ pc[c] = "idle" /\ stopped /\ stopped' = FALSE
      /\ \A r \in Servers : life'[r] = IF r = s THEN "starting" ELSE life[r]
      /\ \A r \in Servers : at'[r] = IF r # s THEN at[r]
                                     ELSE IF port_zero /\ port = 0 THEN s ELSE port
      /\ \A d \in Callers : /\ pc'[d] = IF d = c THEN "starting" ELSE pc[d]
                            /\ on'[d] = IF d = c THEN s ELSE on[d]
      /\ UNCHANGED <<port_zero, patient, server, forever, port, task, conn, of,
                     severed, orphans, crossed, late>>
  BY <1>1 DEF StartCall, Starts, Go, chosen, clients, tasks, IInv, TypeOK
<1>3. TypeOK'
  <2>1. life' \in [Servers -> Life]
    BY <1>1 DEF Starts, IInv, TypeOK, Life
  <2>2. at' \in [Servers -> 0..NStarts]
    BY <1>1, Numbers DEF Starts, IInv, TypeOK
  <2>3. /\ pc' \in [Callers -> {"idle", "starting", "forever", "waiting"}]
        /\ on' \in [Callers -> Nat]
    BY <1>1, Numbers DEF Starts, Go, IInv, TypeOK
  <2>4. QED
    BY <1>2, <2>1, <2>2, <2>3 DEF IInv, TypeOK
<1>4. s # server /\ s \notin orphans
  BY <1>2, Numbers DEF IInv, Owned
<1>5. Owned'
  <2>1. orphans \subseteq Servers
    BY DEF IInv, TypeOK
  <2>2. \A d \in Callers : pc[d] = "starting" => on[d] # s
    BY <1>2 DEF IInv, Owned
  <2>3. QED
    BY <1>2, <1>4, <2>1, <2>2, Numbers DEF IInv, Owned
<1>6. Inside' /\ Reset'
  BY <1>2 DEF IInv, Inside, Reset
<1>7. Starting' /\ Listening'
  BY <1>2 DEF IInv, Starting, Listening
<1>8. Given'
  BY <1>2 DEF IInv, Given
<1>9. PortHolds'
  BY <1>2, <1>4, Numbers DEF IInv, PortHolds
<1>10. QED
  BY <1>3, <1>5, <1>6, <1>7, <1>8, <1>9 DEF IInv

LEMMA StartListensStep ==
  ASSUME IInv, NEW c \in Callers, StartListens(c)
  PROVE  IInv'
<1>1. /\ on[c] \in Servers /\ on[c] # server /\ on[c] \notin orphans
      /\ pc[c] = "starting"
  BY DEF StartListens, IInv, Owned
<1>2. /\ \A r \in Servers : life'[r] = IF r = on[c] THEN "listening" ELSE life[r]
      /\ UNCHANGED <<port_zero, patient, stopped, server, forever, port, pc, on, at, task,
                     conn, of, severed, orphans, crossed, late>>
  BY DEF StartListens, chosen, fields, clients, tasks, IInv, TypeOK
<1>3. TypeOK'
  <2>1. life' \in [Servers -> Life]
    BY <1>1 DEF StartListens, IInv, TypeOK, Life
  <2>2. QED
    BY <1>2, <2>1 DEF IInv, TypeOK
<1>4. Owned'
  <2>1. orphans \subseteq Servers
    BY DEF IInv, TypeOK
  <2>2. QED
    BY <1>1, <1>2, <2>1, Numbers DEF IInv, Owned
<1>5. Inside' /\ Reset' /\ Given'
  BY <1>2 DEF IInv, Inside, Reset, Given
<1>6. Starting' /\ Listening'
  BY <1>1, <1>2 DEF IInv, Starting, Listening
<1>7. PortHolds'
  BY <1>1, <1>2, Numbers DEF IInv, PortHolds
<1>8. QED
  BY <1>3, <1>4, <1>5, <1>6, <1>7 DEF IInv

LEMMA StartReturnStep ==
  ASSUME IInv, NEW c \in Callers, StartReturn(c)
  PROVE  IInv'
<1>1. /\ on[c] \in Servers /\ on[c] # server /\ on[c] \notin orphans
      /\ pc[c] = "starting" /\ life[on[c]] = "listening"
      /\ \A d \in Callers : pc[d] = "starting" /\ on[d] = on[c] => c = d
  BY DEF StartReturn, IInv, Owned
<1>2. /\ \A d \in Callers : /\ pc'[d] = IF d = c THEN "idle" ELSE pc[d]
                            /\ on'[d] = IF d = c THEN 0 ELSE on[d]
      /\ server' = on[c]
      /\ port' = IF port = 0 THEN at[on[c]] ELSE port
      /\ UNCHANGED <<port_zero, patient, stopped, forever, life, at, task, conn, of,
                     severed, orphans, crossed, late>>
  BY DEF StartReturn, Go, chosen, servers, clients, tasks, IInv, TypeOK
<1>3. TypeOK'
  <2>1. /\ pc' \in [Callers -> {"idle", "starting", "forever", "waiting"}]
        /\ on' \in [Callers -> Nat]
    BY DEF StartReturn, Go, IInv, TypeOK
  <2>2. server' \in 0..NStarts /\ port' \in 0..NStarts
    BY <1>1, <1>2, Numbers DEF IInv, TypeOK
  <2>3. QED
    BY <1>2, <2>1, <2>2 DEF IInv, TypeOK
<1>4. Owned'
  BY <1>1, <1>2 DEF IInv, Owned
<1>5. Inside' /\ Reset'
  BY <1>1, <1>2 DEF IInv, Inside, Reset
<1>6. Starting' /\ Listening'
  BY <1>1, <1>2 DEF IInv, Starting, Listening
<1>7. Given'
  BY <1>1, <1>2 DEF IInv, Given
<1>8. PortHolds'
  <2>1. SUFFICES ASSUME ~crossed PROVE port' = at[on[c]]
    BY <1>1, <1>2, Numbers DEF PortHolds
  <2>2. server # 0 => life[server] # "listening"
    BY <1>1, <2>1, Numbers DEF IInv, Starting, Owned
  <2>3. port = 0
    BY <2>1, <2>2 DEF IInv, PortHolds
  <2>4. QED
    BY <1>2, <2>3
<1>9. QED
  BY <1>3, <1>4, <1>5, <1>6, <1>7, <1>8 DEF IInv

LEMMA StartRaiseStep ==
  ASSUME IInv, NEW c \in Callers, StartRaise(c)
  PROVE  IInv'
<1>1. /\ on[c] \in Servers /\ on[c] # server /\ on[c] \notin orphans
      /\ pc[c] = "starting"
      /\ \A d \in Callers : pc[d] = "starting" /\ on[d] = on[c] => c = d
  BY DEF StartRaise, IInv, Owned
<1>2. /\ \A r \in Servers : life'[r] = IF r = on[c] THEN "failed" ELSE life[r]
      /\ \A d \in Callers : /\ pc'[d] = IF d = c THEN "idle" ELSE pc[d]
                            /\ on'[d] = IF d = c THEN 0 ELSE on[d]
      /\ UNCHANGED <<port_zero, patient, stopped, server, forever, port, at, task, conn, of,
                     severed, orphans, crossed, late>>
  BY DEF StartRaise, Go, chosen, fields, clients, tasks, IInv, TypeOK
<1>3. TypeOK'
  <2>1. life' \in [Servers -> Life]
    BY <1>1 DEF StartRaise, IInv, TypeOK, Life
  <2>2. /\ pc' \in [Callers -> {"idle", "starting", "forever", "waiting"}]
        /\ on' \in [Callers -> Nat]
    BY DEF StartRaise, Go, IInv, TypeOK
  <2>3. QED
    BY <1>2, <2>1, <2>2 DEF IInv, TypeOK
<1>4. Owned'
  <2>1. orphans \subseteq Servers
    BY DEF IInv, TypeOK
  <2>2. QED
    BY <1>1, <1>2, <2>1, Numbers DEF IInv, Owned
<1>5. Inside' /\ Reset' /\ Given'
  BY <1>1, <1>2 DEF IInv, Inside, Reset, Given
<1>6. Starting'
  BY <1>1, <1>2 DEF IInv, Starting
<1>7. Listening'
  BY <1>1, <1>2 DEF IInv, Listening
<1>8. PortHolds'
  BY <1>1, <1>2, Numbers DEF IInv, PortHolds
<1>9. QED
  BY <1>3, <1>4, <1>5, <1>6, <1>7, <1>8 DEF IInv

LEMMA CancelStartStep ==
  ASSUME IInv, NEW c \in Callers, CancelStart(c)
  PROVE  IInv'
<1>1. /\ on[c] \in Servers /\ on[c] # server /\ on[c] \notin orphans
      /\ pc[c] = "starting" /\ life[on[c]] = "listening"
      /\ \A d \in Callers : pc[d] = "starting" /\ on[d] = on[c] => c = d
  BY DEF CancelStart, IInv, Owned
<1>2. /\ \A d \in Callers : /\ pc'[d] = IF d = c THEN "idle" ELSE pc[d]
                            /\ on'[d] = IF d = c THEN 0 ELSE on[d]
      /\ orphans' = orphans \cup {on[c]}
      /\ UNCHANGED <<port_zero, patient, stopped, server, forever, port, life, at, task,
                     conn, of, severed, crossed, late>>
  BY DEF CancelStart, Go, chosen, fields, clients, tasks, IInv, TypeOK
<1>3. TypeOK'
  <2>1. /\ pc' \in [Callers -> {"idle", "starting", "forever", "waiting"}]
        /\ on' \in [Callers -> Nat]
    BY DEF CancelStart, Go, IInv, TypeOK
  <2>2. QED
    BY <1>1, <1>2, <2>1 DEF IInv, TypeOK
<1>4. Owned'
  BY <1>1, <1>2 DEF IInv, Owned
<1>5. Inside' /\ Reset' /\ Given'
  BY <1>1, <1>2 DEF IInv, Inside, Reset, Given
<1>6. Starting' /\ Listening'
  BY <1>1, <1>2 DEF IInv, Starting, Listening
<1>7. PortHolds'
  BY <1>2 DEF IInv, PortHolds
<1>8. QED
  BY <1>3, <1>4, <1>5, <1>6, <1>7 DEF IInv
-----------------------------------------------------------------------------
LEMMA RunForeverStep ==
  ASSUME IInv, NEW c \in Callers, RunForever(c)
  PROVE  IInv'
<1>1. PICK i \in Runs : /\ task' = [task EXCEPT ![i] = "new"]
                        /\ forever' = i /\ Go(c, "forever", i)
  BY DEF RunForever
<1>2. i # 0 /\ i \in 0..NRuns /\ i \in Nat
  BY Numbers
<1>3. /\ \A d \in Callers : /\ pc'[d] = IF d = c THEN "forever" ELSE pc[d]
                            /\ on'[d] = IF d = c THEN i ELSE on[d]
      /\ pc[c] = "idle" /\ forever = 0 /\ forever' = i
      /\ UNCHANGED <<port_zero, patient, stopped, server, port, life, at, conn, of,
                     severed, orphans, crossed>>
  BY <1>1 DEF RunForever, Go, chosen, servers, clients, IInv, TypeOK
<1>4. \A d \in Callers : pc[d] # "forever"
  BY <1>3, Numbers DEF IInv, Inside
<1>5. TypeOK'
  <2>1. task' \in [Runs -> TaskLife]
    BY <1>1 DEF IInv, TypeOK, TaskLife
  <2>2. /\ pc' \in [Callers -> {"idle", "starting", "forever", "waiting"}]
        /\ on' \in [Callers -> Nat]
    BY <1>1, <1>2 DEF Go, IInv, TypeOK
  <2>3. late' \subseteq Callers
    BY DEF RunForever, IInv, TypeOK
  <2>4. QED
    BY <1>2, <1>3, <2>1, <2>2, <2>3 DEF IInv, TypeOK
<1>6. Inside' /\ Reset'
  BY <1>3, <1>4 DEF Inside, Reset
<1>7. Owned' /\ Given'
  BY <1>3 DEF IInv, Owned, Given
<1>8. Starting' /\ Listening' /\ PortHolds'
  BY <1>3 DEF IInv, Starting, Listening, PortHolds
<1>9. QED
  BY <1>5, <1>6, <1>7, <1>8 DEF IInv

(* What happens to the tasks alone: one that is cancelled stays so.        *)
LEMMA TaskStep ==
  ASSUME IInv,
         UNCHANGED <<chosen, fields, pc, on, servers, clients, crossed, late>>,
         task' \in [Runs -> TaskLife], severed' \subseteq Runs, severed \subseteq severed',
         \A i \in Runs : task[i] = "cancelled" => task'[i] = "cancelled"
  PROVE  IInv'
<1>1. UNCHANGED <<port_zero, patient, stopped, server, forever, port, pc, on, life, at,
                  conn, of, orphans, crossed, late>>
  BY DEF chosen, fields, servers, clients
<1>2. TypeOK'
  BY <1>1 DEF IInv, TypeOK
<1>3. Owned' /\ Inside' /\ Given'
  BY <1>1 DEF IInv, Owned, Inside, Given
<1>4. Starting' /\ Listening' /\ PortHolds'
  BY <1>1 DEF IInv, Starting, Listening, PortHolds
<1>5. Reset'
  BY <1>1, Numbers DEF IInv, Reset
<1>6. QED
  BY <1>2, <1>3, <1>4, <1>5 DEF IInv

LEMMA ForeverTaskStep ==
  ASSUME IInv, NEW i \in Runs, ForeverBegins(i) \/ ForeverEnds(i)
  PROVE  IInv'
<1>1. /\ task' \in [Runs -> TaskLife]
      /\ \A j \in Runs : task[j] = "cancelled" => task'[j] = "cancelled"
  BY DEF ForeverBegins, ForeverEnds, IInv, TypeOK, TaskLife
<1>2. /\ UNCHANGED <<chosen, fields, pc, on, servers, clients, crossed, late>>
      /\ severed' \subseteq Runs /\ severed \subseteq severed'
  BY DEF ForeverBegins, ForeverEnds, IInv, TypeOK
<1>3. QED
  BY <1>1, <1>2, TaskStep

LEMMA CancelForeverStep ==
  ASSUME IInv, NEW c \in Callers, CancelForever(c)
  PROVE  IInv'
<1>1. on[c] \in Runs
  BY DEF CancelForever, IInv, Inside
<1>2. /\ OnCancel(on[c]) \in TaskLife
      /\ task[on[c]] = "cancelled" => OnCancel(on[c]) = "cancelled"
  BY <1>1 DEF IInv, TypeOK, OnCancel, TaskLife
<1>3. /\ task' \in [Runs -> TaskLife]
      /\ \A j \in Runs : task[j] = "cancelled" => task'[j] = "cancelled"
      /\ severed' \subseteq Runs /\ severed \subseteq severed'
  BY <1>1, <1>2 DEF CancelForever, IInv, TypeOK
<1>4. UNCHANGED <<chosen, fields, pc, on, servers, clients, crossed, late>>
  BY DEF CancelForever
<1>5. QED
  BY <1>3, <1>4, TaskStep

(* A caller that was not starting goes on, and the fields are the same,    *)
(* but for _forever, which it resets if it was its own.                    *)
LEMMA GoneStep ==
  ASSUME IInv, NEW c \in Callers, NEW x \in Nat, NEW to \in {"idle", "waiting"},
         Go(c, to, x), pc[c] # "starting",
         \/ forever' = 0 /\ pc[c] = "forever"
         \/ /\ forever' = forever
            /\ pc[c] = "forever" => task[forever] = "cancelled" \/ forever \in severed,
         UNCHANGED <<chosen, stopped, server, port, servers, tasks, clients, crossed, late>>
  PROVE  IInv'
<1>1. /\ \A d \in Callers : /\ pc'[d] = IF d = c THEN to ELSE pc[d]
                            /\ on'[d] = IF d = c THEN x ELSE on[d]
      /\ pc' \in [Callers -> {"idle", "starting", "forever", "waiting"}]
      /\ on' \in [Callers -> Nat]
  BY DEF Go, IInv, TypeOK
<1>2. UNCHANGED <<port_zero, patient, stopped, server, port, life, at, task, conn, of,
                  severed, orphans, crossed, late>>
  BY DEF chosen, servers, tasks, clients
<1>3. TypeOK'
  <2>1. forever' \in 0..NRuns
    BY Numbers DEF IInv, TypeOK
  <2>2. QED
    BY <1>1, <1>2, <2>1 DEF IInv, TypeOK
<1>4. Owned' /\ Given'
  BY <1>1, <1>2 DEF IInv, Owned, Given
<1>5. Inside'
  BY <1>1 DEF IInv, Inside
<1>6. Starting' /\ Listening' /\ PortHolds'
  BY <1>1, <1>2 DEF IInv, Starting, Listening, PortHolds
<1>7. Reset'
  BY <1>1, <1>2 DEF IInv, Reset, Inside
<1>8. QED
  BY <1>3, <1>4, <1>5, <1>6, <1>7 DEF IInv

LEMMA ForeverLeaveStep ==
  ASSUME IInv, NEW c \in Callers, ForeverReturn(c) \/ ForeverRaise(c)
  PROVE  IInv'
<1>1. CASE ForeverReturn(c)
  BY <1>1, GoneStep DEF ForeverReturn
<1>2. CASE ForeverRaise(c)
  <2>1. task[forever] = "cancelled" \/ forever \in severed
    BY <1>2 DEF ForeverRaise, IInv, Inside
  <2>2. /\ forever' = forever /\ pc[c] = "forever" /\ Go(c, "idle", 0)
        /\ UNCHANGED <<chosen, stopped, server, port, servers, tasks, clients, crossed, late>>
    BY <1>2 DEF ForeverRaise, fields
  <2>3. QED
    BY <2>1, <2>2, GoneStep
<1>3. QED
  BY <1>1, <1>2

LEMMA WaitLeaveStep ==
  ASSUME IInv, NEW c \in Callers, WaitReturn(c) \/ CancelWait(c)
  PROVE  IInv'
<1>1. /\ forever' = forever /\ pc[c] = "waiting" /\ Go(c, "idle", 0)
      /\ UNCHANGED <<chosen, stopped, server, port, servers, tasks, clients, crossed, late>>
  BY DEF WaitReturn, CancelWait, fields
<1>2. QED
  BY <1>1, GoneStep

(* wait_finish() is a stop() by a caller that then waits, or raises.       *)
LEMMA WaitFinishStep ==
  ASSUME IInv, NEW c \in Callers, WaitFinish(c)
  PROVE  IInv'
<1>1. UNCHANGED <<chosen, clients, late>> /\ pc[c] = "idle"
  BY DEF WaitFinish
<1>2. CASE stopped
  <2>1. UNCHANGED <<fields, servers, tasks, crossed>>
    BY <1>2 DEF WaitFinish
  <2>2. CASE server = 0
    <3>1. UNCHANGED vars
      BY <1>1, <1>2, <2>1, <2>2
      DEF WaitFinish, vars, chosen, fields, servers, tasks, clients
    <3>2. QED
      BY <3>1 DEF vars, IInv, TypeOK, Owned, Inside, Starting, Given, Listening,
                  PortHolds, Reset
  <2>3. CASE server # 0
    <3>1. Go(c, "waiting", server) /\ server \in Nat
      BY <1>2, <2>3, Numbers DEF WaitFinish
    <3>2. /\ forever' = forever
          /\ UNCHANGED <<chosen, stopped, server, port, servers, tasks, clients, crossed, late>>
      BY <1>1, <2>1 DEF fields
    <3>3. QED
      BY <1>1, <3>1, <3>2, GoneStep
  <2>4. QED
    BY <2>2, <2>3
<1>3. CASE ~stopped
  <2>1. StopBody
    BY <1>3 DEF WaitFinish
  <2>2. /\ pc' \in [Callers -> PC] /\ on' \in [Callers -> Nat]
        /\ pc'[c] \in {"idle", "waiting"}
        /\ \A d \in Callers : d # c => pc'[d] = pc[d] /\ on'[d] = on[d]
    BY <1>1, Numbers DEF WaitFinish, Go, IInv, TypeOK, PC
  <2>3. \A d \in Callers :
          pc[d] \in {"starting", "forever"} \/ pc'[d] \in {"starting", "forever"} =>
            pc'[d] = pc[d] /\ on'[d] = on[d]
    BY <1>1, <2>2
  <2>4. QED
    BY <1>1, <2>1, <2>2, <2>3, StopHolds
<1>4. QED
  BY <1>2, <1>3
-----------------------------------------------------------------------------
(* The clients' steps touch no field.                                      *)
LEMMA ClientStep ==
  ASSUME IInv, NEW k \in Clients, Accept(k) \/ ProcessorEnds(k) \/ Close(k)
  PROVE  IInv'
<1>1. UNCHANGED <<port_zero, patient, stopped, server, forever, port, pc, on, life, at, task,
                  severed, orphans, crossed, late>>
  BY DEF Accept, ProcessorEnds, Close, ConnGoes, chosen, fields, servers, tasks
<1>2. /\ conn' \in [Clients -> {"none", "processing", "closing", "closed"}]
      /\ of' \in [Clients -> 0..NStarts]
  BY Numbers DEF Accept, ProcessorEnds, Close, ConnGoes, IInv, TypeOK
<1>3. TypeOK'
  BY <1>1, <1>2 DEF IInv, TypeOK
<1>4. Owned' /\ Inside' /\ Given' /\ Reset'
  BY <1>1 DEF IInv, Owned, Inside, Given, Reset
<1>5. Starting' /\ Listening' /\ PortHolds'
  BY <1>1 DEF IInv, Starting, Listening, PortHolds
<1>6. QED
  BY <1>3, <1>4, <1>5 DEF IInv

LEMMA NextHolds == IInv /\ [Next]_vars => IInv'
<1> SUFFICES ASSUME IInv, [Next]_vars PROVE IInv'
  OBVIOUS
<1>1. CASE Stop
  BY <1>1, StopStep
<1>2. ASSUME NEW c \in Callers, StartCall(c) \/ RunForever(c) \/ WaitFinish(c)
      PROVE  IInv'
  BY <1>2, StartCallStep, RunForeverStep, WaitFinishStep
<1>3. ASSUME NEW c \in Callers, CancelStart(c) \/ CancelForever(c) \/ CancelWait(c)
      PROVE  IInv'
  BY <1>3, CancelStartStep, CancelForeverStep, WaitLeaveStep
<1>4. ASSUME NEW c \in Callers, Resume(c)
      PROVE  IInv'
  BY <1>4, StartListensStep, StartReturnStep, StartRaiseStep, ForeverLeaveStep,
     WaitLeaveStep DEF Resume
<1>5. ASSUME NEW i \in Runs, ForeverBegins(i) \/ ForeverEnds(i)
      PROVE  IInv'
  BY <1>5, ForeverTaskStep
<1>6. ASSUME NEW k \in Clients, Accept(k) \/ ProcessorEnds(k) \/ Close(k)
      PROVE  IInv'
  BY <1>6, ClientStep
<1>7. CASE UNCHANGED vars
  BY <1>7 DEF vars, IInv, TypeOK, Owned, Inside, Starting, Given, Listening, PortHolds, Reset
<1>8. QED
  BY <1>1, <1>2, <1>3, <1>4, <1>5, <1>6, <1>7 DEF Next

(* The inductive invariant of TcpServer.                                   *)
THEOREM TcpServerInvariance == Spec => []IInv
<1>1. Init => IInv
  BY InitHolds
<1>2. IInv /\ [Next]_vars => IInv'
  BY NextHolds
<1>3. QED
  BY <1>1, <1>2, PTL DEF Spec

(* Unless a stop() crossed a start(), the server that listens is the one   *)
(* that stop() closes, but for servers whose start() is going on or was    *)
(* cancelled, and `port` is its port.  _forever is set while somebody is   *)
(* in run_forever(), and stays set only if the task was cancelled before   *)
(* it began, or the caller after the task had ended.                       *)
THEOREM FieldsAgree == Spec => []FieldsHold
<1>1. IInv => FieldsHold
  BY Parts
<1>2. QED
  BY <1>1, TcpServerInvariance, PTL
=============================================================================
