----------------------------- MODULE ReadUntil ------------------------------
(***************************************************************************)
(* pykedixa/comm/read_until_transformer.py on a TcpAdaptor, with the       *)
(* read_exactly of comm/basic.py: how the messages of a connection are cut *)
(* out of a stream that arrives in pieces of any size.                     *)
(*                                                                         *)
(* One task reads.  A step runs from one await to the next; the task may   *)
(* be cancelled at any await and read on later, as after a timeout.        *)
(***************************************************************************)
EXTENDS Integers, Sequences, FiniteSetsExt

CONSTANTS Bytes,       (* the alphabet of the stream                        *)
          MaxInput,    (* bound: length of the stream                       *)
          Delimiters,  (* what read_until is called with                    *)
          Sizes,       (* what read and read_exactly are called with        *)
          Limits       (* max_bytes of read_until, -1 for no limit          *)

ASSUME DelimitersAssumption == Delimiters \subseteq Seq(Bytes) \ {<<>>}
ASSUME SizesAssumption == /\ MaxInput \in Nat
                          /\ Sizes \subseteq Nat \ {0}
                          /\ Limits \subseteq Nat \cup {-1}

VARIABLES
  input,    (* the whole stream (never changes)                             *)
  src,      (* what has not been received yet; then comes the end           *)
  data,     (* ReadUntilTransformer._data                                   *)
  taken,    (* all bytes that have left _data and the socket for a caller   *)
  pc,       (* the call in progress                                         *)
  delim,    (* its delimiter                                                *)
  limit,    (* its max_bytes; nbytes - pos for read_exactly                 *)
  size0,    (* history: length of _data when it was made                    *)
  part,     (* what a read_exactly in progress has gathered                 *)
  result    (* outcome of the last call, and what it returned               *)

vars == <<input, src, data, taken, pc, delim, limit, size0, part, result>>

NoResult == [kind |-> "none", value |-> <<>>, delim |-> <<>>]

Init == /\ input \in UNION {[1..n -> Bytes] : n \in 0..MaxInput}
        /\ src = input
        /\ data = <<>> /\ taken = <<>> /\ part = <<>> /\ delim = <<>>
        /\ pc = "idle"
        /\ limit = 0 /\ size0 = 0
        /\ result = NoResult

First(s, n) == SubSeq(s, 1, n)
Rest(s, n) == SubSeq(s, n + 1, Len(s))

(* bytearray.find: the first occurrence of d in s not before `from`, or -1. *)
Find(s, d, from) ==
  LET at == {i \in from..(Len(s) - Len(d)) : SubSeq(s, i + 1, i + Len(d)) = d}
  IN  IF at = {} THEN -1 ELSE Min(at)

(* A call returns or raises.                                               *)
Idle(kind, value) == /\ pc' = "idle"
                     /\ result' = [kind |-> kind, value |-> value, delim |-> delim']
                     /\ part' = <<>>
-----------------------------------------------------------------------------
(* Faulty variant: the delimiter is returned but left in the buffer.       *)
Deliver_KeepsDelimiter(buf, d, end_pos) ==
  /\ data' = Rest(buf, end_pos)
  /\ taken' = taken \o First(buf, end_pos + Len(d))
  /\ Idle("until", First(buf, end_pos + Len(d)))

(* The end of read_until: all up to and with the delimiter.                *)
Deliver(buf, d, end_pos) ==
  /\ data' = Rest(buf, end_pos + Len(d))
  /\ taken' = taken \o First(buf, end_pos + Len(d))
  /\ Idle("until", First(buf, end_pos + Len(d)))

(* Faulty variant: only what the last piece brought is searched.           *)
Search_NewOnly(buf, d, old_len) == Find(buf, d, old_len)

(* Faulty variant: the last delimiter that is there is taken.              *)
Search_Last(buf, d, old_len) ==
  Max({i \in 0..(Len(buf) - Len(d)) : SubSeq(buf, i + 1, i + Len(d)) = d}
      \cup {-1})

(* Where the search goes on: a delimiter may straddle the pieces.          *)
Search(buf, d, old_len) ==
  Find(buf, d, IF old_len > Len(d) THEN old_len - Len(d) ELSE 0)

(* read_until(d, max_bytes): at once, if _data holds the delimiter; else   *)
(* it waits, unless _data exceeds max_bytes already.                       *)
UntilCall(d, max_bytes) ==
  /\ pc = "idle"
  /\ delim' = d /\ limit' = max_bytes /\ size0' = Len(data)
  /\ \/ /\ Find(data, d, 0) >= 0
        /\ Deliver(data, d, Find(data, d, 0))
     \/ /\ Find(data, d, 0) < 0
        /\ max_bytes >= 0 /\ Len(data) > max_bytes
        /\ Idle("bad", <<>>)
        /\ UNCHANGED <<data, taken>>
     \/ /\ Find(data, d, 0) < 0
        /\ max_bytes < 0 \/ Len(data) <= max_bytes
        /\ pc' = "until"
        /\ UNCHANGED <<data, taken, part, result>>
  /\ UNCHANGED <<input, src>>

(* A piece of n bytes is what a read of mbytes may return.                 *)
MayRead(n) == n \in 1..Len(src) /\ (limit < 0 \/ n <= limit - Len(data))

(* A piece arrives: one turn of the loop.                                  *)
UntilMore(n) ==
  LET buf == data \o First(src, n)
      end_pos == Search(buf, delim, Len(data))
  IN  /\ pc = "until"
      /\ MayRead(n)
      /\ src' = Rest(src, n)
      /\ UNCHANGED delim
      /\ \/ end_pos >= 0 /\ Deliver(buf, delim, end_pos)
         \/ /\ end_pos < 0
            /\ data' = buf
            /\ UNCHANGED <<taken, pc, part, result>>
      /\ UNCHANGED <<input, limit, size0>>

(* Faulty variant: the end of the stream is taken for an empty piece.      *)
UntilEof_Ignored == /\ pc = "until" /\ src = <<>>
                    /\ UNCHANGED vars

(* The stream ends; or the limit is used up exactly, and the adaptor takes *)
(* the empty result of read(0) for the end.  _data is kept.                *)
UntilEof == /\ pc = "until"
            /\ src = <<>> \/ limit = Len(data)
            /\ UNCHANGED delim
            /\ Idle("eof", <<>>)
            /\ UNCHANGED <<input, src, data, taken, limit, size0>>
-----------------------------------------------------------------------------
(* read(max_bytes): from _data if there is any, else from the socket.      *)
ReadCall(max_bytes) ==
  LET n == IF max_bytes < 0 \/ max_bytes >= Len(data) THEN Len(data) ELSE max_bytes
  IN  /\ pc = "idle"
      /\ limit' = max_bytes /\ size0' = Len(data) /\ delim' = <<>>
      /\ \/ /\ data # <<>>
            /\ data' = Rest(data, n)
            /\ taken' = taken \o First(data, n)
            /\ Idle("read", First(data, n))
         \/ /\ data = <<>>
            /\ pc' = "read"
            /\ UNCHANGED <<data, taken, part, result>>
      /\ UNCHANGED <<input, src>>

ReadMore(n) == /\ pc = "read"
               /\ n \in 1..Len(src) /\ (limit < 0 \/ n <= limit)
               /\ src' = Rest(src, n)
               /\ taken' = taken \o First(src, n)
               /\ UNCHANGED delim
               /\ Idle("read", First(src, n))
               /\ UNCHANGED <<input, data, limit, size0>>

ReadEof == /\ pc = "read" /\ src = <<>>
           /\ UNCHANGED delim
           /\ Idle("eof", <<>>)
           /\ UNCHANGED <<input, src, data, taken, limit, size0>>

(* read_exactly(nbytes): reads what _data has, then piece by piece.        *)
Gather(got, n) == \/ /\ Len(got) = n
                     /\ Idle("exact", got)
                  \/ /\ Len(got) < n
                     /\ pc' = "exact" /\ part' = got
                     /\ UNCHANGED result

ExactCall(nbytes) ==
  LET n == IF nbytes >= Len(data) THEN Len(data) ELSE nbytes
  IN  /\ pc = "idle"
      /\ limit' = nbytes /\ size0' = Len(data) /\ delim' = <<>>
      /\ data' = Rest(data, n)
      /\ taken' = taken \o First(data, n)
      /\ Gather(First(data, n), nbytes)
      /\ UNCHANGED <<input, src>>

(* Faulty variant: each read asks for nbytes, not for what is missing.     *)
ExactMore_Whole(n) ==
  /\ pc = "exact"
  /\ n \in 1..Len(src) /\ n <= limit
  /\ src' = Rest(src, n)
  /\ taken' = taken \o First(src, n)
  /\ UNCHANGED delim
  /\ \/ Len(part) + n >= limit /\ Idle("exact", part \o First(src, n))
     \/ Len(part) + n < limit /\ Gather(part \o First(src, n), limit)
  /\ UNCHANGED <<input, data, limit, size0>>

ExactMore(n) == /\ pc = "exact"
                /\ n \in 1..Len(src) /\ n <= limit - Len(part)
                /\ src' = Rest(src, n)
                /\ taken' = taken \o First(src, n)
                /\ UNCHANGED delim
                /\ Gather(part \o First(src, n), limit)
                /\ UNCHANGED <<input, data, limit, size0>>

(* The stream ends inside: what was gathered is gone with the exception.   *)
ExactEof == /\ pc = "exact" /\ src = <<>>
            /\ UNCHANGED delim
            /\ Idle("eof", <<>>)
            /\ UNCHANGED <<input, src, data, taken, limit, size0>>

(* The reader is cancelled in its await.                                   *)
Cancel == /\ pc # "idle"
          /\ UNCHANGED delim
          /\ Idle("cancelled", <<>>)
          /\ UNCHANGED <<input, src, data, taken, limit, size0>>

(* finish() raises when _data holds something: no state changes.           *)
-----------------------------------------------------------------------------
Call == \/ \E d \in Delimiters, m \in Limits : UntilCall(d, m)
        \/ \E m \in Sizes \cup {-1} : ReadCall(m)
        \/ \E n \in Sizes \cup {0} : ExactCall(n)

Progress == \/ \E n \in 1..MaxInput : UntilMore(n) \/ ReadMore(n) \/ ExactMore(n)
            \/ UntilEof \/ ReadEof \/ ExactEof

Next == Call \/ Progress \/ Cancel

(* The peer sends the whole stream and closes.                             *)
Spec == Init /\ [][Next]_vars /\ WF_vars(Progress)
-----------------------------------------------------------------------------
TypeOK == /\ src \in Seq(Bytes) /\ data \in Seq(Bytes) /\ part \in Seq(Bytes)
          /\ pc \in {"idle", "until", "read", "exact"}
          /\ part # <<>> => pc = "exact"

(* No byte is lost, doubled or reordered between the socket, the buffer    *)
(* and the callers, whatever mixture of calls, pieces and cancellations.   *)
(* Every variable keeps its type.                                          *)
Conservation == TypeOK /\ input = taken \o data \o src

(* read_until returns the shortest prefix that ends with the delimiter,    *)
(* though it searches every byte only about once.                          *)
ShortestPrefix ==
  result.kind = "until" =>
    Find(result.value, result.delim, 0) = Len(result.value) - Len(result.delim)

(* read_until waits for input only when the delimiter is not there         *)
(* already, and with max_bytes it never buffers more than that.            *)
WaitsForReason == pc = "until" => /\ Find(data, delim, 0) < 0
                                  /\ limit >= 0 => Len(data) <= limit

(* read_exactly: what it returned is as long as asked for, and is the very *)
(* stretch of the stream before what is left.                              *)
ExactIsExact ==
  result.kind = "exact" /\ pc = "idle" =>
    /\ Len(result.value) = limit
    /\ result.value = SubSeq(input, Len(taken) - limit + 1, Len(taken))

(* read_until never hangs on a stream that ends.                           *)
CallsEnd == pc # "idle" ~> pc = "idle"
=============================================================================
