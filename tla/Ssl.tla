--------------------------------- MODULE Ssl ---------------------------------
(***************************************************************************)
(* comm/ssl_transformer.py at the two ends of one connection.  An end is   *)
(* an SslTransformer: the TLS engine of the ssl module, which never does   *)
(* I/O itself, between two MemoryBIOs, _in and _out; and two tasks that    *)
(* pump them, a reader (which ran prepare() before) and a writer.          *)
(*                                                                         *)
(* The n-th record an engine produces is two pieces <<n, 1>>, <<n, 2>>; a  *)
(* record is only understood when both are there and in order.  The layer  *)
(* below takes a write as a whole (TcpAdaptor, whose flush then waits for  *)
(* the peer) or in parts with an await between them (`short`: a speed      *)
(* limit, for instance).                                                   *)
(*                                                                         *)
(* External: the engine (flights of the handshake, session tickets, key    *)
(* updates that ask for a reply, close_notify) and the stream below.       *)
(***************************************************************************)
EXTENDS Naturals, Sequences, FiniteSets, SequencesExt, FiniteSetsExt

CONSTANTS Client, Server,
          FlightCounts, (* numbers of flights a handshake may have          *)
          Writes,       (* bound: records the writer of each end sends       *)
          Chatty,       (* ends whose engine sends key updates and a close  *)
          NCancels,     (* bound: calls that are cancelled                  *)
          LowWater      (* pieces on the wire at which flush goes on        *)

ASSUME EndsAssumption == Client # Server /\ Chatty \subseteq {Client, Server}
ASSUME CountsAssumption == /\ FlightCounts \subseteq Nat \ {0, 1}
                           /\ Writes \in [{Client, Server} -> Nat]
                           /\ NCancels \in Nat
                           /\ LowWater \in Nat

Ends == {Client, Server}
Peer(e) == IF e = Client THEN Server ELSE Client
Tasks == {"reader", "writer"}
Kinds == {"flight", "ticket", "data", "update", "reply", "close"}

VARIABLES
  flights,  (* of this handshake; the client sends the odd ones             *)
  short,    (* the layer below takes writes in parts                        *)
  pc,       (* where each task of each end is                               *)
  after,    (* where it goes on when its write_all is done                  *)
  hs,       (* flights the engine has sent and received                     *)
  gen,      (* kinds of the records the engine has produced                 *)
  seen,     (* records of the peer it has taken from _in                    *)
  in, out,  (* the two MemoryBIOs                                           *)
  rest,     (* what is left of the write_all of each task                   *)
  wire,     (* pieces an end has written and its peer not yet read          *)
  hand,     (* a decrypted record a read is about to return, or 0           *)
  wrote,    (* calls of write                                               *)
  got, dropped, torn, mixed, cancels    (* history, see below               *)

engine == <<hs, gen, seen, in>>
below == <<flights, short>>
history == <<torn, mixed, cancels>>
vars == <<flights, short, pc, after, hs, gen, seen, in, out, rest, wire,
          hand, wrote, got, dropped, torn, mixed, cancels>>

Init == /\ flights \in FlightCounts
        /\ short \in BOOLEAN
        /\ pc = [e \in Ends |-> [t \in Tasks |-> "unborn"]]
        /\ after = [e \in Ends |-> [t \in Tasks |-> "idle"]]
        /\ hs = [e \in Ends |-> 0]
        /\ gen = [e \in Ends |-> <<>>]
        /\ seen = [e \in Ends |-> 0]
        /\ in = [e \in Ends |-> <<>>]
        /\ out = [e \in Ends |-> <<>>]
        /\ rest = [e \in Ends |-> [t \in Tasks |-> <<>>]]
        /\ wire = [e \in Ends |-> <<>>]
        /\ hand = [e \in Ends |-> 0]
        /\ wrote = [e \in Ends |-> 0]
        /\ got = [e \in Ends |-> <<>>]
        /\ dropped = [e \in Ends |-> {}]
        /\ torn = [e \in Ends |-> FALSE]
        /\ mixed = [e \in Ends |-> FALSE]
        /\ cancels = 0
-----------------------------------------------------------------------------
(* The k-th piece after record m, and the pieces of records m + 1 to n.    *)
Piece(m, k) == <<m + (k + 1) \div 2, 2 - (k % 2)>>
Stream(m, n) == [k \in 1..2 * (n - m) |-> Piece(m, k)]

(* How many whole records stand at the head of bio for the engine of e.    *)
Whole(e, bio) ==
  LET good == {k \in 1..Len(bio) \div 2 :
                 \A i \in 1..2 * k : bio[i] = Piece(seen[e], i)}
  IN Cardinality(good)

(* The engine of e takes n records from bio and produces others.           *)
Engine(e, bio, n, kinds) ==
  /\ seen' = [seen EXCEPT ![e] = @ + n]
  /\ in' = [in EXCEPT ![e] = SubSeq(bio, 2 * n + 1, Len(bio))]
  /\ gen' = [gen EXCEPT ![e] = @ \o kinds]

(* What is in _out once the engine has produced these records.             *)
Pending(e, kinds) == out[e] \o Stream(Len(gen[e]), Len(gen[e]) + Len(kinds))

GoTo(e, t, to) == pc' = [pc EXCEPT ![e][t] = to]

(* Faulty variant: _out is looked at, but not emptied.                     *)
Flush_Peeks(e, t, w, data, to) ==
  /\ out' = [out EXCEPT ![e] = data]
  /\ GoTo(e, t, to)
  /\ wire' = [w EXCEPT ![e] = @ \o data]
  /\ UNCHANGED <<after, rest, mixed>>

(* if self._out.pending > 0: data = self._out.read(); write_all(data).     *)
(* Nothing awaits between the engine and _out.read(), so each task takes   *)
(* the records it caused.                                                  *)
Flush(e, t, w, data, to) ==
  /\ out' = [out EXCEPT ![e] = <<>>]
  /\ IF data = <<>>
     THEN /\ GoTo(e, t, to)
          /\ wire' = w
          /\ UNCHANGED <<after, rest, mixed>>
     ELSE /\ GoTo(e, t, "flush")
          /\ after' = [after EXCEPT ![e][t] = to]
          /\ rest' = [rest EXCEPT ![e][t] = IF short THEN data ELSE <<>>]
          /\ wire' = [w EXCEPT ![e] = IF short THEN @ ELSE @ \o data]
          /\ mixed' = [mixed EXCEPT ![e] =
                         @ \/ \E u \in Tasks \ {t} : rest[e][u] # <<>>]

(* Whatever is in _out stays there, and the task goes on.                  *)
NoFlush(e, t, w, data, to) == /\ out' = [out EXCEPT ![e] = data]
                              /\ GoTo(e, t, to)
                              /\ wire' = w
                              /\ UNCHANGED <<after, rest, mixed>>

(* Faulty variant: the last flight is left in _out.                        *)
DoWantWrite_Skipped(e, t, w, data, to) == NoFlush(e, t, w, data, to)

(* await self._do_want_write(), then on to the end of the call.            *)
DoWantWrite(e, t, w, data, to) == Flush(e, t, w, data, to)

(* await self._do_want_read(): the flush comes first, then the read from   *)
(* below (HandshakeRead, ReadMore).                                        *)
DoWantRead(e, w, data, to) == Flush(e, "reader", w, data, to)

(* The write_all of a flush, one part after the other, where the layer     *)
(* below takes them in parts; then its flush, which waits for the peer.    *)
WritePart(e, t) ==
  /\ pc[e][t] = "flush" /\ rest[e][t] # <<>>
  /\ wire' = [wire EXCEPT ![e] = Append(@, Head(rest[e][t]))]
  /\ rest' = [rest EXCEPT ![e][t] = Tail(@)]
  /\ UNCHANGED <<below, pc, after, engine, out, hand, wrote, got, dropped, history>>

(* Faulty variant: what the engine returned is lost in the flush.          *)
Flushed_Forgets(e, t) ==
  /\ pc[e][t] = "flush" /\ rest[e][t] = <<>>
  /\ Len(wire[e]) <= LowWater
  /\ GoTo(e, t, after[e][t])
  /\ hand' = [hand EXCEPT ![e] = IF t = "reader" THEN 0 ELSE @]
  /\ UNCHANGED <<below, after, engine, out, rest, wire, wrote, got, dropped, history>>

Flushed(e, t) ==
  /\ pc[e][t] = "flush" /\ rest[e][t] = <<>>
  /\ Len(wire[e]) <= LowWater
  /\ GoTo(e, t, after[e][t])
  /\ IF t = "reader" /\ hand[e] # 0
     THEN /\ got' = [got EXCEPT ![e] = Append(@, hand[e])]
          /\ hand' = [hand EXCEPT ![e] = 0]
     ELSE UNCHANGED <<got, hand>>
  /\ UNCHANGED <<below, after, engine, out, rest, wire, wrote, dropped, history>>
-----------------------------------------------------------------------------
(* prepare().  A call of do_handshake takes the flight it waits for, if it *)
(* is there, and answers it; the server sends a ticket at the end if the   *)
(* last flight was not its own.                                            *)
Mine(e, f) == (e = Client) <=> (f % 2 = 1)

Handshake(e, w, bio) ==
  LET n == IF ~Mine(e, hs[e] + 1) /\ Whole(e, bio) > 0 THEN 1 ELSE 0
      sends == hs[e] + n < flights /\ Mine(e, hs[e] + n + 1)
      done == hs[e] + n + (IF sends THEN 1 ELSE 0)
      kinds == CASE sends -> <<"flight">>
                 [] ~sends /\ done = flights /\ e = Server -> <<"ticket">>
                 [] OTHER -> <<>>
  IN /\ Engine(e, bio, n, kinds)
     /\ hs' = [hs EXCEPT ![e] = done]
     /\ \/ /\ done = flights
           /\ DoWantWrite(e, "reader", w, Pending(e, kinds), "prepared")
        \/ /\ done < flights
           /\ DoWantRead(e, w, Pending(e, kinds), "handshake")

PrepareCall(e) ==
  /\ pc[e]["reader"] = "unborn"
  /\ Handshake(e, wire, in[e])
  /\ UNCHANGED <<below, hand, wrote, got, dropped, torn, cancels>>

(* data = await self._nxt.read(-1); self._in.write(data).                  *)
Taken(e, k) == in[e] \o SubSeq(wire[Peer(e)], 1, k)
Untaken(e, k) == [wire EXCEPT ![Peer(e)] = SubSeq(@, k + 1, Len(@))]

HandshakeRead(e) ==
  /\ pc[e]["reader"] = "handshake"
  /\ \E k \in 1..Len(wire[Peer(e)]) : Handshake(e, Untaken(e, k), Taken(e, k))
  /\ UNCHANGED <<below, hand, wrote, got, dropped, torn, cancels>>

(* prepare() has not returned yet.                                         *)
Preparing(e) == \/ pc[e]["reader"] \in {"unborn", "handshake"}
                \/ /\ pc[e]["reader"] = "flush"
                   /\ after[e]["reader"] \in {"handshake", "prepared"}
-----------------------------------------------------------------------------
(* read().  The engine takes records up to the first one with data, or a   *)
(* close_notify; a key update on the way gets its reply into _out.  With   *)
(* data it is flushed before read() returns it, without data (want read)   *)
(* before the next piece is read from below.                               *)
SslRead(e, w, bio) ==
  LET whole == Whole(e, bio)
      Kind(i) == gen[Peer(e)][seen[e] + i]
      ends == {i \in 1..whole : Kind(i) \in {"data", "close"}}
      n == IF ends = {} THEN whole ELSE Min(ends)
      garbled == Len(bio) >= 2 * whole + 2
      kinds == IF \E i \in 1..n : Kind(i) = "update" THEN <<"reply">> ELSE <<>>
      data == Pending(e, kinds)
      num == IF ends # {} /\ Kind(n) = "data" THEN seen[e] + n ELSE 0
  IN /\ Engine(e, bio, n, kinds)
     /\ hs' = hs
     /\ \/ /\ ends = {} /\ garbled
           /\ NoFlush(e, "reader", w, data, "failed")
        \/ /\ ends = {} /\ ~garbled
           /\ DoWantRead(e, w, data, "read")
        \/ /\ ends # {}
           /\ DoWantWrite(e, "reader", w, data, IF num = 0 THEN "eof" ELSE "idle")
     /\ IF num # 0 /\ data = <<>>
        THEN got' = [got EXCEPT ![e] = Append(@, num)] /\ hand' = hand
        ELSE got' = got /\ hand' = [hand EXCEPT ![e] = num]

(* Faulty variant: read() asks the layer below before it asks the engine.  *)
ReadCall_Waits(e) == /\ pc[e]["reader"] \in {"prepared", "idle"}
                     /\ GoTo(e, "reader", "read")
                     /\ UNCHANGED <<below, after, engine, out, rest, wire, hand,
                                    wrote, got, dropped, history>>

ReadCall(e) == /\ pc[e]["reader"] \in {"prepared", "idle"}
               /\ SslRead(e, wire, in[e])
               /\ UNCHANGED <<below, wrote, dropped, torn, cancels>>

ReadMore(e) ==
  /\ pc[e]["reader"] = "read"
  /\ \E k \in 1..Len(wire[Peer(e)]) : SslRead(e, Untaken(e, k), Taken(e, k))
  /\ UNCHANGED <<below, wrote, dropped, torn, cancels>>

(* write(): self._ssl_obj.write, then _do_want_write.  An engine that is   *)
(* not Python's may send a key update or close_notify as well.             *)
WriteCall(e, kind) ==
  /\ pc[e]["writer"] = "unborn" \/ pc[e]["writer"] = "idle"
  /\ ~Preparing(e)
  /\ wrote[e] < Writes[e]
  /\ \A i \in 1..Len(gen[e]) : gen[e][i] # "close"
  /\ kind = "data" \/ e \in Chatty
  /\ wrote' = [wrote EXCEPT ![e] = @ + 1]
  /\ Engine(e, in[e], 0, <<kind>>)
  /\ DoWantWrite(e, "writer", wire, Pending(e, <<kind>>), "idle")
  /\ UNCHANGED <<below, hs, hand, got, dropped, torn, cancels>>

(* A read or a write is cancelled in its await.  What it has not written   *)
(* of a record, and the data it was about to return, go with it.           *)
Cancel(e, t) ==
  /\ cancels < NCancels
  /\ pc[e][t] \in {"flush", "read"} /\ ~Preparing(e)
  /\ cancels' = cancels + 1
  /\ GoTo(e, t, "idle")
  /\ torn' = [torn EXCEPT ![e] = @ \/ rest[e][t] # <<>>]
  /\ rest' = [rest EXCEPT ![e][t] = <<>>]
  /\ IF t = "reader"
     THEN /\ dropped' = [dropped EXCEPT ![e] = @ \cup ({hand[e]} \ {0})]
          /\ hand' = [hand EXCEPT ![e] = 0]
     ELSE UNCHANGED <<dropped, hand>>
  /\ UNCHANGED <<below, after, engine, out, wire, wrote, got, mixed>>
-----------------------------------------------------------------------------
Reader(e) == \/ PrepareCall(e) \/ HandshakeRead(e) \/ ReadCall(e) \/ ReadMore(e)
             \/ WritePart(e, "reader") \/ Flushed(e, "reader")
Writer(e) == WritePart(e, "writer") \/ Flushed(e, "writer")

Next == \E e \in Ends :
          \/ Reader(e) \/ Writer(e)
          \/ \E kind \in {"data", "update", "close"} : WriteCall(e, kind)
          \/ \E t \in Tasks : Cancel(e, t)

(* Both ends prepare and go on reading, and the stream below conveys what  *)
(* it took; nobody need write.                                             *)
Spec == /\ Init /\ [][Next]_vars
        /\ \A e \in Ends : WF_vars(Reader(e)) /\ WF_vars(Writer(e))
-----------------------------------------------------------------------------
PC == {"unborn", "handshake", "prepared", "idle", "flush", "read", "eof", "failed"}
TypeOK == /\ flights \in FlightCounts /\ short \in BOOLEAN
          /\ pc \in [Ends -> [Tasks -> PC]]
          /\ after \in [Ends -> [Tasks -> PC]]
          /\ hs \in [Ends -> 0..flights]
          /\ gen \in [Ends -> Seq(Kinds)]
          /\ seen \in [Ends -> Nat] /\ hand \in [Ends -> Nat]
          /\ in \in [Ends -> Seq(Nat \X {1, 2})]
          /\ out \in [Ends -> Seq(Nat \X {1, 2})]
          /\ wire \in [Ends -> Seq(Nat \X {1, 2})]
          /\ rest \in [Ends -> [Tasks -> Seq(Nat \X {1, 2})]]
          /\ wrote \in [Ends -> Nat]
          /\ got \in [Ends -> Seq(Nat)] /\ dropped \in [Ends -> SUBSET Nat]
          /\ torn \in [Ends -> BOOLEAN] /\ mixed \in [Ends -> BOOLEAN]
          /\ cancels \in 0..NCancels

(* A stream is damaged if a write was cancelled in the middle of a record, *)
(* or if both tasks of an end were in write_all at the same time, and the  *)
(* layer below takes writes in parts.                                      *)
Damaged(e) == torn[e] \/ mixed[e]

(* _do_want_read and _do_want_write are called by two tasks on one _out.   *)
(* Still, unless the stream was damaged in one of the ways above, what is  *)
(* under way from an end to its peer is exactly the records the peer has   *)
(* not taken yet, whole and in order.  Over a layer that takes whole       *)
(* writes (TcpAdaptor) it never is damaged.  Every variable keeps its type.*)
StreamIntact == TypeOK /\ \A e \in Ends :
  /\ Damaged(e) => short
  /\ ~Damaged(e) =>
       in[Peer(e)] \o wire[e] \o rest[e]["reader"] \o rest[e]["writer"] \o out[e]
         = Stream(seen[Peer(e)], Len(gen[e]))

(* A record with data that the engine has decrypted is returned by read(), *)
(* in order and once, or is in the hands of the read that flushes a reply  *)
(* first (line 75), or went with such a read that was cancelled: a read    *)
(* that is cancelled while it waits for its peer loses nothing.            *)
ReadsAccounted == \A e \in Ends :
  LET theirs == gen[Peer(e)] IN
  /\ {n \in 1..seen[e] : theirs[n] = "data"}
       = ToSet(got[e]) \cup dropped[e] \cup ({hand[e]} \ {0})
  /\ \A i, j \in 1..Len(got[e]) : i < j => got[e][i] < got[e][j]
  /\ ToSet(got[e]) \cap (dropped[e] \cup {hand[e]}) = {}
  /\ Cardinality(dropped[e]) <= Cardinality({n \in 1..Len(gen[e]) : gen[e][n] = "reply"})

(* Both ends get out of prepare(): each flushes what the other waits for   *)
(* before it waits itself, and after the last call of do_handshake.        *)
HandshakeEnds == <>(\A e \in Ends : ~Preparing(e))

(* What an end writes is read by its peer, unless a cancelled read dropped *)
(* it or the stream was damaged; no end waits for the other for ever.      *)
UnderWay(e) == {n \in 1..Len(gen[e]) : gen[e][n] = "data"}
                 \ (ToSet(got[Peer(e)]) \cup dropped[Peer(e)])
DataArrive == []<>(\A e \in Ends : UnderWay(e) = {} \/ Damaged(e))
=============================================================================
