------------------------- MODULE WebSocketProcessor -------------------------
(***************************************************************************)
(* pykedixa/comm/websocket/websocket_processor.py: a WebSocketClient,      *)
(* opened, used by tasks that send, closed and reopened; or a              *)
(* WebSocketService, which is given one connection and opened once.        *)
(*                                                                         *)
(* Everything runs on one asyncio loop: a step runs from one await to the  *)
(* next.  Each open() makes one connection and one receive task, which are *)
(* known by the number of that open (a generation, 0 for None).  Handlers  *)
(* let a CancelledError through.                                           *)
(*                                                                         *)
(* A connection is open, closing (Connection.close has begun) or closed;   *)
(* module Connection is about what happens inside it.                      *)
(***************************************************************************)
EXTENDS Naturals, Sequences, SequencesExt

CONSTANTS Openers,   (* tasks that call open()                            *)
          Senders,   (* tasks that call send()                            *)
          Nobody,    (* no sender                                         *)
          MaxOpens,  (* bound: how many connections are made              *)
          MaxSends,  (* bound: how often each sender calls send()         *)
          Pieces     (* writes a frame takes, with an await after each    *)

ASSUME TasksAssumption == Nobody \notin Senders
ASSUME BoundsAssumption == /\ MaxOpens \in Nat \ {0}
                           /\ MaxSends \in Nat
                           /\ Pieces \in Nat \ {0}

VARIABLES
  service,     (* chosen once: WebSocketService or WebSocketClient        *)
  closed,      (* _closed                                                 *)
  conn,        (* _conn: generation, 0 for None                           *)
  recv,        (* _recv_task                                              *)
  opens,       (* generations made so far                                 *)
  overlapped,  (* history: two open() calls were in progress at a time    *)
  cst,         (* life of the connection of each generation               *)
  opening,     (* the generation each opener makes, 0 outside open()      *)
  earlier,     (* generations whose _close() task was due at that call    *)
  cl,          (* where the _close() task of each generation is           *)
  victim,      (* the receive task it captured                            *)
  rpc,         (* where the receive task of each generation is            *)
  rconn,       (* the connection it reads                                 *)
  cancelled,   (* cancel() was called on it                               *)
  spc,         (* where each sender is                                    *)
  sends,       (* calls of send() made by it                              *)
  sconn,       (* the connection it writes to                             *)
  piece,       (* pieces of its frame written so far                      *)
  lockq,       (* _lock: its holder, then its waiters                     *)
  wire         (* last piece written to each connection: sender, number   *)

state == <<service, closed, conn, recv>>
open == <<opens, overlapped, opening, earlier>>
close == <<cl, victim>>
receive == <<rpc, rconn>>
send == <<spc, sends, sconn, piece, lockq, wire>>
vars == <<service, closed, conn, recv, opens, overlapped, cst, opening, earlier, cl,
          victim, rpc, rconn, cancelled, spc, sends, sconn, piece, lockq, wire>>

Gens == 1..MaxOpens

Init == /\ service \in BOOLEAN
        /\ closed = TRUE /\ conn = 0 /\ recv = 0
        /\ opens = 0 /\ overlapped = FALSE
        /\ cst = [g \in Gens |-> "none"]
        /\ opening = [o \in Openers |-> 0]
        /\ earlier = [o \in Openers |-> {}]
        /\ cl = [g \in Gens |-> "none"]
        /\ victim = [g \in Gens |-> 0]
        /\ rpc = [g \in Gens |-> "none"]
        /\ rconn = [g \in Gens |-> 0]
        /\ cancelled = [g \in Gens |-> FALSE]
        /\ spc = [k \in Senders |-> "idle"]
        /\ sends = [k \in Senders |-> 0]
        /\ sconn = [k \in Senders |-> 0]
        /\ piece = [k \in Senders |-> 0]
        /\ lockq = <<>>
        /\ wire = [g \in 0..MaxOpens |-> <<Nobody, Pieces>>]
-----------------------------------------------------------------------------
(* open(): `if self._closed`, then _open() up to its first await.          *)
OpenCall(o) ==
  /\ ~service
  /\ opening[o] = 0 /\ closed
  /\ opens < MaxOpens
  /\ opens' = opens + 1
  /\ opening' = [opening EXCEPT ![o] = opens + 1]
  /\ earlier' = [earlier EXCEPT ![o] = {g \in Gens : cl[g] = "scheduled"}]
  /\ overlapped' = (overlapped \/ \E p \in Openers : opening[p] # 0)
  /\ cst' = [cst EXCEPT ![opens + 1] = "open"]
  /\ UNCHANGED <<state, close, receive, cancelled, send>>

(* The last await of _open() returns: start_with_conn, then _closed is     *)
(* reset, without an await in between.  The loop runs tasks in the order   *)
(* they become ready: those due when open() was called have had their      *)
(* first step, for _open() awaits getaddrinfo.                             *)
OpenReturn(o) ==
  LET g == opening[o] IN
  /\ g # 0
  /\ \A e \in earlier[o] : cl[e] # "scheduled"
  /\ conn' = g /\ recv' = g
  /\ rpc' = [rpc EXCEPT ![g] = "scheduled"]
  /\ closed' = FALSE
  /\ opening' = [opening EXCEPT ![o] = 0]
  /\ earlier' = [earlier EXCEPT ![o] = {}]
  /\ UNCHANGED <<service, opens, overlapped, cst, close, rconn, cancelled, send>>

(* A step of _open() raised: the new connection is closed again.           *)
OpenRaise(o) ==
  LET g == opening[o] IN
  /\ g # 0
  /\ cst' = [cst EXCEPT ![g] = "closed"]
  /\ opening' = [opening EXCEPT ![o] = 0]
  /\ earlier' = [earlier EXCEPT ![o] = {}]
  /\ UNCHANGED <<state, opens, overlapped, close, receive, cancelled, send>>
(* WebSocketService.open(): its connection is open already, and used up;   *)
(* no await.  A second open() raises.                                      *)
ServiceOpen ==
  /\ service
  /\ closed /\ opens = 0
  /\ opens' = 1
  /\ conn' = 1 /\ recv' = 1
  /\ closed' = FALSE
  /\ cst' = [cst EXCEPT ![1] = "open"]
  /\ rpc' = [rpc EXCEPT ![1] = "scheduled"]
  /\ UNCHANGED <<service, overlapped, opening, earlier, close, rconn, cancelled, send>>
-----------------------------------------------------------------------------
(* Faulty variant: _conn is reset before it is captured.                   *)
DoClose_Forgets == /\ closed' = TRUE
                   /\ conn' = 0 /\ recv' = 0
                   /\ UNCHANGED <<service, cl, victim>>

(* close() has no await: it resets the fields and schedules _close() with  *)
(* what it captured.                                                       *)
DoClose == /\ closed' = TRUE
           /\ conn' = 0 /\ recv' = 0
           /\ cl' = [cl EXCEPT ![conn] = "scheduled"]
           /\ victim' = [victim EXCEPT ![conn] = recv]
           /\ UNCHANGED service

CloseCall == /\ ~closed
             /\ DoClose
             /\ UNCHANGED <<open, cst, receive, cancelled, send>>

(* Faulty variant: the receive task is not cancelled.                      *)
CloseStart_NoCancel(g) == /\ cl[g] = "scheduled"
                          /\ cl' = [cl EXCEPT ![g] = "closing"]
                          /\ cst' = [cst EXCEPT ![g] = "closing"]
                          /\ UNCHANGED <<state, open, victim, receive, cancelled, send>>

(* _close(): cancel the receive task, begin to close the connection ...    *)
CloseStart(g) == /\ cl[g] = "scheduled"
                 /\ cl' = [cl EXCEPT ![g] = "closing"]
                 /\ cancelled' = [cancelled EXCEPT ![victim[g]] = TRUE]
                 /\ cst' = [cst EXCEPT ![g] = "closing"]
                 /\ UNCHANGED <<state, open, victim, receive, send>>

(* ... which ends, one way or another, with the adaptor released.          *)
CloseEnd(g) == /\ cl[g] = "closing"
               /\ cl' = [cl EXCEPT ![g] = "done"]
               /\ cst' = [cst EXCEPT ![g] = "closed"]
               /\ UNCHANGED <<state, open, victim, receive, cancelled, send>>
-----------------------------------------------------------------------------
(* _process_msg(): `while not self.closed()`, and the next frame is read   *)
(* from whatever self._conn is by then.                                    *)
LoopHead(g) == IF closed
               THEN /\ rpc' = [rpc EXCEPT ![g] = "ended"]
                    /\ UNCHANGED rconn
               ELSE /\ rpc' = [rpc EXCEPT ![g] = "reading"]
                    /\ rconn' = [rconn EXCEPT ![g] = conn]

RecvStart(g) == /\ rpc[g] = "scheduled" /\ ~cancelled[g]
                /\ LoopHead(g)
                /\ UNCHANGED <<state, open, cst, close, cancelled, send>>

FrameArrives(g) == /\ rpc[g] = "reading" /\ ~cancelled[g]
                   /\ rpc' = [rpc EXCEPT ![g] = "handling"]
                   /\ UNCHANGED <<state, open, cst, close, rconn, cancelled, send>>

(* The constructor of the service takes the handler for one of several     *)
(* (`*` without a comma), so that its on_frame() can only raise.           *)
HandlerReturn(g) == /\ rpc[g] = "handling" /\ ~cancelled[g]
                    /\ ~service
                    /\ LoopHead(g)
                    /\ UNCHANGED <<state, open, cst, close, cancelled, send>>

(* CancelledError at the next step of the task, whatever it awaits.        *)
RecvCancelled(g) == /\ rpc[g] \in {"scheduled", "reading", "handling"}
                    /\ cancelled[g]
                    /\ rpc' = [rpc EXCEPT ![g] = "ended"]
                    /\ UNCHANGED <<state, open, cst, close, rconn, cancelled, send>>

(* End of the stream, met by the loop or by its handler, or a              *)
(* CancelledError out of the handler: the loop ends, the client stays open.*)
RecvEof(g) == /\ rpc[g] \in {"reading", "handling"} /\ ~cancelled[g]
              /\ rpc' = [rpc EXCEPT ![g] = "ended"]
              /\ UNCHANGED <<state, open, cst, close, rconn, cancelled, send>>

(* Any other exception, of the connection or of the handler: close().      *)
RecvError(g) == /\ rpc[g] \in {"reading", "handling"} /\ ~cancelled[g]
                /\ rpc' = [rpc EXCEPT ![g] = "ended"]
                /\ \/ ~closed /\ DoClose
                   \/ closed /\ UNCHANGED <<state, close>>
                /\ UNCHANGED <<open, cst, rconn, cancelled, send>>
-----------------------------------------------------------------------------
(* send(): asyncio.Lock is first come, first served.                       *)
SendCall(k) == /\ spc[k] = "idle"
               /\ sends[k] < MaxSends
               /\ sends' = [sends EXCEPT ![k] = sends[k] + 1]
               /\ spc' = [spc EXCEPT ![k] = "waiting"]
               /\ lockq' = Append(lockq, k)
               /\ UNCHANGED <<state, open, cst, close, receive, cancelled,
                              sconn, piece, wire>>

WritePiece(k, g, i) == /\ wire' = [wire EXCEPT ![g] = <<k, i>>]
                       /\ piece' = [piece EXCEPT ![k] = i]
                       /\ sconn' = [sconn EXCEPT ![k] = g]

(* Faulty variant: no lock, two senders may be in request() at a time.     *)
SendFirst_NoLock(k) == /\ spc[k] = "waiting"
                       /\ ~closed
                       /\ spc' = [spc EXCEPT ![k] = "sending"]
                       /\ WritePiece(k, conn, 1)
                       /\ UNCHANGED <<state, open, cst, close, receive, cancelled,
                                      sends, lockq>>

(* Faulty variant: closed() was asked before the lock was awaited.         *)
SendFirst_NoCheck(k) == /\ spc[k] = "waiting" /\ Head(lockq) = k
                        /\ spc' = [spc EXCEPT ![k] = "sending"]
                        /\ WritePiece(k, conn, 1)
                        /\ UNCHANGED <<state, open, cst, close, receive,
                                       cancelled, sends, lockq>>

(* With the lock: closed() is asked, and self._conn read, in one step.     *)
SendFirst(k) == /\ spc[k] = "waiting" /\ Head(lockq) = k
                /\ ~closed
                /\ spc' = [spc EXCEPT ![k] = "sending"]
                /\ WritePiece(k, conn, 1)
                /\ UNCHANGED <<state, open, cst, close, receive, cancelled,
                               sends, lockq>>

(* Faulty variant: the lock is not released when closed() is found.        *)
SendRefused_KeepsLock(k) ==
  /\ spc[k] = "waiting" /\ Head(lockq) = k
  /\ closed
  /\ spc' = [spc EXCEPT ![k] = "idle"]
  /\ UNCHANGED <<state, open, cst, close, receive, cancelled, sends, sconn,
                 piece, lockq, wire>>

SendRefused(k) == /\ spc[k] = "waiting" /\ Head(lockq) = k
                  /\ closed
                  /\ spc' = [spc EXCEPT ![k] = "idle"]
                  /\ lockq' = Tail(lockq)
                  /\ UNCHANGED <<state, open, cst, close, receive, cancelled,
                                 sends, sconn, piece, wire>>

SendMore(k) == /\ spc[k] = "sending" /\ piece[k] < Pieces
               /\ WritePiece(k, sconn[k], piece[k] + 1)
               /\ UNCHANGED <<state, open, cst, close, receive, cancelled,
                              spc, sends, lockq>>

(* All is written; or the write raised or the sender was cancelled in it,  *)
(* perhaps in the middle of the frame.                                     *)
SendEnd(k) == /\ spc[k] = "sending"
              /\ spc' = [spc EXCEPT ![k] = "idle"]
              /\ lockq' = Tail(lockq)
              /\ UNCHANGED <<state, open, cst, close, receive, cancelled,
                             sends, sconn, piece, wire>>

(* A sender is cancelled while it waits for the lock.                      *)
SendCancelled(k) == /\ spc[k] = "waiting"
                    /\ spc' = [spc EXCEPT ![k] = "idle"]
                    /\ \E i \in 1..Len(lockq) :
                         lockq[i] = k /\ lockq' = RemoveAt(lockq, i)
                    /\ UNCHANGED <<state, open, cst, close, receive, cancelled,
                                   sends, sconn, piece, wire>>
-----------------------------------------------------------------------------
Next == \/ \E o \in Openers : OpenCall(o) \/ OpenReturn(o) \/ OpenRaise(o)
        \/ ServiceOpen \/ CloseCall
        \/ \E g \in Gens : \/ CloseStart(g) \/ CloseEnd(g)
                           \/ RecvStart(g) \/ FrameArrives(g) \/ HandlerReturn(g)
                           \/ RecvCancelled(g) \/ RecvEof(g) \/ RecvError(g)
        \/ \E k \in Senders : \/ SendCall(k) \/ SendFirst(k) \/ SendRefused(k)
                              \/ SendMore(k) \/ SendEnd(k) \/ SendCancelled(k)

Spec == Init /\ [][Next]_vars

(* The loop runs every task that is ready; writes of a frame end.  Nothing *)
(* makes the peer send, nor anybody open, send or close.                   *)
Fairness == /\ \A g \in Gens : /\ WF_vars(CloseStart(g))
                               /\ WF_vars(CloseEnd(g))
                               /\ WF_vars(RecvStart(g))
                               /\ WF_vars(RecvCancelled(g))
            /\ \A k \in Senders : /\ WF_vars(SendFirst(k) \/ SendRefused(k))
                                  /\ WF_vars(SendEnd(k))

FairSpec == Spec /\ Fairness
-----------------------------------------------------------------------------
TypeOK == /\ service \in BOOLEAN /\ closed \in BOOLEAN /\ overlapped \in BOOLEAN
          /\ conn \in 0..opens /\ recv \in 0..opens /\ opens \in 0..MaxOpens
          /\ cst \in [Gens -> {"none", "open", "closing", "closed"}]
          /\ opening \in [Openers -> 0..opens]
          /\ earlier \in [Openers -> SUBSET Gens]
          /\ cl \in [Gens -> {"none", "scheduled", "closing", "done"}]
          /\ victim \in [Gens -> 0..opens]
          /\ rpc \in [Gens -> {"none", "scheduled", "reading", "handling", "ended"}]
          /\ rconn \in [Gens -> 0..opens]
          /\ cancelled \in [Gens -> BOOLEAN]
          /\ spc \in [Senders -> {"idle", "waiting", "sending"}]
          /\ sends \in [Senders -> 0..MaxSends]
          /\ sconn \in [Senders -> 0..opens]
          /\ piece \in [Senders -> 0..Pieces]
          /\ lockq \in Seq(Senders)
          /\ wire \in [0..MaxOpens -> (Senders \cup {Nobody}) \X (1..Pieces)]
          /\ closed <=> conn = 0
          /\ closed <=> recv = 0

(* One receive loop at a time: as long as open() calls do not overlap, the *)
(* only task that may still go round its loop while the client is open is  *)
(* the one of the current connection, and each loop reads its own          *)
(* connection, although it asks self._conn again for every frame.          *)
OneReader ==
  overlapped \/ \A g \in Gens :
    /\ rpc[g] = "reading" => rconn[g] = g
    /\ rpc[g] \in {"scheduled", "reading", "handling"} /\ ~cancelled[g] /\ ~closed
         => recv = g

(* The connection of g can still be closed.                                *)
Kept(g) == \/ conn = g
           \/ \E o \in Openers : opening[o] = g
           \/ cl[g] = "scheduled"

(* No connection is lost: one that is still open is the current one, or    *)
(* its open() is still running, or its _close() is due.  Every variable    *)
(* keeps its type, and a client is closed just when it has no connection.  *)
NoLeak ==
  /\ TypeOK
  /\ overlapped \/ \A g \in Gens : cst[g] = "open" => Kept(g)

PieceFollows == \A g \in Gens :
  wire'[g] # wire[g] /\ wire'[g][2] > 1 => wire[g] = <<wire'[g][1], wire'[g][2] - 1>>

(* Frames are not mixed: a piece other than the first follows the one      *)
(* before it of the same frame, on the same connection, whoever else sends *)
(* and whichever sends are cancelled half-way.                             *)
FramesNotMixed == [][PieceFollows]_vars

BeginsOnCurrent == \A k \in Senders :
  spc[k] = "waiting" /\ spc'[k] = "sending" =>
    ~closed /\ sconn'[k] = conn /\ cst[conn] = "open"

(* A send that waited for the lock across a close() does not touch the     *)
(* connection that is gone: a frame begins on the current connection only. *)
SendsOnCurrent == [][BeginsOnCurrent]_vars

(* After close() the receive task of that connection ends, and the         *)
(* connection gets closed.                                                 *)
CloseCompletes == \A g \in Gens :
  cl[g] = "scheduled" ~> (cst[g] = "closed" /\ rpc[g] = "ended")

(* A send never waits for ever for the lock.                               *)
SendsEnd == \A k \in Senders : spc[k] = "waiting" ~> spc[k] = "idle"
=============================================================================
