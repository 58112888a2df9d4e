----------------------------- MODULE CommBridge -----------------------------
(***************************************************************************)
(* pykedixa/comm/bridge.py with write_all and LoopbackAdaptor of           *)
(* comm/basic.py: a bridge copies a stream into a socket or into a         *)
(* LoopbackAdaptor, through one buffer it uses again and again.            *)
(*                                                                         *)
(* The bytes of the stream are 1, 2, 3, ... in their order.  What          *)
(* write_all hands to write() is a memoryview of the buffer of the bridge: *)
(* the list of a LoopbackAdaptor, which keeps a slice of it, holds         *)
(* positions of that buffer and not bytes.                                 *)
(***************************************************************************)
EXTENDS Integers, Sequences, SequencesExt, FiniteSetsExt

CONSTANTS MaxInput,   (* bound: length of the stream                      *)
          MaxPerRead, (* max_per_read                                     *)
          Budgets,    (* max_bytes of the bridge, -1 for none             *)
          Sinks,      (* what it may write to: "socket", "loopback"       *)
          MaxSize     (* maxsize of the LoopbackAdaptor                   *)

ASSUME SizesAssumption == /\ MaxInput \in Nat /\ MaxPerRead \in Nat \ {0}
                          /\ Budgets \subseteq Nat \cup {-1}
                          /\ MaxSize \in Nat
ASSUME SinksAssumption == Sinks \subseteq {"socket", "loopback"}

VARIABLES
  sink, budget,   (* what this bridge was made with                       *)
  pc,             (* where run() is                                       *)
  got,            (* bytes read from the stream so far                    *)
  total,          (* _total_read                                          *)
  stop,           (* _stop                                                *)
  rlen, nread,    (* the locals of run()                                  *)
  pos,            (* of write_all                                         *)
  buf,            (* the buffer: a byte in each position                  *)
  sent,           (* bytes the socket has accepted                        *)
  lst, size,      (* _lst and _size of the LoopbackAdaptor                *)
  fifo,           (* history: the positions lst should hold, in a row     *)
  out             (* bytes read from the LoopbackAdaptor                  *)

vars == <<sink, budget, pc, got, total, stop, rlen, nread, pos, buf,
          sent, lst, size, fifo, out>>
made == <<sink, budget>>
loop == <<lst, size, fifo>>

First(s, n) == SubSeq(s, 1, n)
Rest(s, n) == SubSeq(s, n + 1, Len(s))
MinOf(a, b) == IF a < b THEN a ELSE b

NextReadSize(tot) ==
  IF budget < 0 THEN MaxPerRead ELSE MinOf(budget - tot, MaxPerRead)

Init == /\ sink \in Sinks /\ budget \in Budgets
        /\ pc = "start"
        /\ got = 0 /\ total = 0 /\ stop = FALSE
        /\ rlen = 0 /\ nread = 0 /\ pos = 0
        /\ buf = [i \in 1..MaxPerRead |-> 0]
        /\ sent = <<>> /\ lst = <<>> /\ size = 0 /\ fifo = <<>> /\ out = <<>>
-----------------------------------------------------------------------------
(* The condition of the while loop, when total bytes have been copied.     *)
Turn(tot) == /\ rlen' = NextReadSize(tot)
             /\ pc' = IF rlen' > 0 /\ ~stop THEN "reading" ELSE "done"

RunCall == /\ pc = "start"
           /\ Turn(total)
           /\ UNCHANGED <<made, got, total, stop, nread, pos, buf, sent, loop, out>>

(* read(rlen, buffer=buf) fills the front of the buffer.                   *)
ReadReturn(n) ==
  /\ pc = "reading"
  /\ n \in 1..MinOf(rlen, MaxInput - got)
  /\ buf' = [i \in 1..MaxPerRead |-> IF i <= n THEN got + i ELSE buf[i]]
  /\ got' = got + n
  /\ nread' = n
  /\ pos' = 0
  /\ pc' = "writing"
  /\ UNCHANGED <<made, total, stop, rlen, sent, loop, out>>

(* The stream may end anywhere.                                            *)
ReadEof == /\ pc = "reading"
           /\ pc' = "done"
           /\ UNCHANGED <<made, got, total, stop, rlen, nread, pos, buf, sent,
                          loop, out>>

(* One turn of write_all: w of the nread - pos bytes were accepted.        *)
Wrote(w) == IF pos + w < nread
            THEN /\ pos' = pos + w
                 /\ UNCHANGED <<pc, total, rlen>>
            ELSE /\ pos' = nread
                 /\ total' = total + nread
                 /\ Turn(total + nread)

(* Faulty variant: write_all takes a short write for a whole one.          *)
SocketWrite_Once(w) ==
  /\ pc = "writing" /\ sink = "socket"
  /\ w \in 1..(nread - pos)
  /\ sent' = sent \o [i \in 1..w |-> buf[pos + i]]
  /\ Wrote(nread - pos)
  /\ UNCHANGED <<made, got, stop, nread, buf, loop, out>>

(* A socket takes a copy of some of it.                                    *)
SocketWrite(w) ==
  /\ pc = "writing" /\ sink = "socket"
  /\ w \in 1..(nread - pos)
  /\ sent' = sent \o [i \in 1..w |-> buf[pos + i]]
  /\ Wrote(w)
  /\ UNCHANGED <<made, got, stop, nread, buf, loop, out>>

(* A LoopbackAdaptor takes as much as it has room for, as a slice of the   *)
(* memoryview ...                                                          *)
LoopbackWrite ==
  LET blen == MinOf(nread - pos, MaxSize - size)
      slice == [i \in 1..blen |-> pos + i]
  IN  /\ pc = "writing" /\ sink = "loopback"
      /\ size < MaxSize
      /\ lst' = Append(lst, slice)
      /\ size' = size + blen
      /\ fifo' = fifo \o slice
      /\ Wrote(blen)
      /\ UNCHANGED <<made, got, stop, nread, buf, sent, out>>

(* ... and raises when it is full.                                         *)
LoopbackFull == /\ pc = "writing" /\ sink = "loopback"
                /\ size >= MaxSize
                /\ pc' = "failed"
                /\ UNCHANGED <<made, got, total, stop, rlen, nread, pos, buf, sent,
                               loop, out>>
-----------------------------------------------------------------------------
(* LoopbackAdaptor.read goes through the list up to the slice in which the *)
(* n bytes end: the first one of which not all fits before the end.        *)
Before(i) == Len(FlattenSeq(First(lst, i - 1)))

LastSlice(n) == Min({i \in 1..Len(lst) : Before(i) + Len(lst[i]) >= n})

(* Faulty variant: <= rather than <, so that reading all there is leaves   *)
(* the loop without trimming the list.                                     *)
LoopbackRead_Le(max_bytes) ==
  LET n == MinOf(max_bytes, size)
      cells == First(FlattenSeq(lst), n)
      i == Min({j \in 1..Len(lst) : Before(j) + Len(lst[j]) > n})
  IN  /\ size > 0
      /\ out' = out \o [j \in 1..n |-> buf[cells[j]]]
      /\ lst' = IF n = size THEN lst
                ELSE <<Rest(lst[i], n - Before(i))>> \o Rest(lst, i)
      /\ size' = size - n
      /\ fifo' = Rest(fifo, n)
      /\ UNCHANGED <<made, pc, got, total, stop, rlen, nread, pos, buf, sent>>

(* Some task reads up to max_bytes from the LoopbackAdaptor.               *)
LoopbackRead(max_bytes) ==
  LET n == MinOf(max_bytes, size)
      i == LastSlice(n)
      k == n - Before(i)
      cells == FlattenSeq(First(lst, i - 1)) \o First(lst[i], k)
  IN  /\ size > 0
      /\ out' = out \o [j \in 1..Len(cells) |-> buf[cells[j]]]
      /\ lst' = IF k = Len(lst[i]) THEN Rest(lst, i)
                ELSE <<Rest(lst[i], k)>> \o Rest(lst, i)
      /\ size' = size - n
      /\ fifo' = Rest(fifo, n)
      /\ UNCHANGED <<made, pc, got, total, stop, rlen, nread, pos, buf, sent>>

(* stop() may be called at any time.                                       *)
StopCall == /\ ~stop
            /\ stop' = TRUE
            /\ UNCHANGED <<made, pc, got, total, rlen, nread, pos, buf, sent,
                           loop, out>>
-----------------------------------------------------------------------------
Run == \/ RunCall \/ ReadEof \/ LoopbackWrite \/ LoopbackFull
       \/ \E n \in 1..MaxPerRead : ReadReturn(n) \/ SocketWrite(n)

Next == \/ Run \/ StopCall
        \/ \E n \in 1..MaxSize : LoopbackRead(n)

Spec == Init /\ [][Next]_vars
-----------------------------------------------------------------------------
TypeOK == /\ pc \in {"start", "reading", "writing", "done", "failed"}
          /\ got \in 0..MaxInput /\ total \in 0..got
          /\ buf \in [1..MaxPerRead -> 0..MaxInput]
          /\ size \in 0..MaxSize
          /\ pc = "writing" => pos < nread

Bytes(n) == [i \in 1..n |-> i]

(* What arrives at the socket is the stream, without gap or repetition,    *)
(* up to what was read; when run() returns, by itself or after stop(), no  *)
(* byte that was read is missing.  The bridge never takes more than        *)
(* max_bytes from the stream: the rest is somebody else's.                 *)
Conveyed == /\ budget >= 0 => got <= budget
            /\ sink = "socket" => /\ sent = Bytes(Len(sent))
                                  /\ pc = "done" => Len(sent) = got

(* The LoopbackAdaptor hands out its slices in order, whole or split, and  *)
(* never holds more than maxsize; every variable keeps its type.           *)
LoopbackInOrder == TypeOK /\ FlattenSeq(lst) = fifo /\ size = Len(fifo)

(* basic.py: "make a copy of buffer when save info local list, buffer may  *)
(* be a memoryview reference to another byte array".  What is read from    *)
(* the LoopbackAdaptor is what was written to it.                          *)
LoopbackKeepsBytes == out \o [i \in 1..Len(fifo) |-> buf[fifo[i]]]
                        = Bytes(Len(out) + Len(fifo))
=============================================================================
