----------------------------- MODULE HttpStream -----------------------------
(***************************************************************************)
(* pykedixa/comm/http/http_message.py and http_chunk_transformer.py: the   *)
(* messages one side of a persistent connection sends, one after another,  *)
(* and how the other side cuts them out of the stream again.               *)
(*                                                                         *)
(* The stream is a sequence of symbols: the bytes of bodies, CR and LF,    *)
(* one symbol for the status line and headers of a head, and one for the   *)
(* hexadecimal length of a chunk.  The sender uses one message object for  *)
(* all its messages.  A message is "plain" (the body goes with it), "head" *)
(* (empty body, the answer to HEAD) or "chunked" (empty body, followed by  *)
(* what is written through a HttpChunkTransformer, up to one flush).       *)
(*                                                                         *)
(* Reads wait for what they need; module ReadUntil is about how the pieces *)
(* come in.                                                                *)
(***************************************************************************)
EXTENDS Integers, Sequences, FiniteSetsExt, Functions

CONSTANTS CR, LF,
          Bytes,        (* the other bytes of bodies                        *)
          Bodies,       (* bodies and chunks                                *)
          Lengths,      (* values of Content-Length set by the caller       *)
          MaxMessages,  (* bound: messages sent                             *)
          MaxEdits,     (* bound: changes to the message before it is sent  *)
          MaxChunks,    (* bound: chunks sent                               *)
          ReadSizes     (* max_bytes of the reads through the transformer   *)

CL == "Content-Length"
TE == "Transfer-Encoding"

(* The symbols for a head and for the length of a chunk.                   *)
HeadSymbol == [head : [{CL, TE} -> Seq(Nat) \cup Seq({"chunked", "gzip"})]]
HexSymbol == [hex : Nat]

(* What is assumed of the constants.                                       *)
Assumed == /\ CR # LF /\ CR \notin Bytes /\ LF \notin Bytes
           /\ \A s \in Bytes \cup {CR, LF} : s \notin HeadSymbol /\ s \notin HexSymbol
           /\ Bodies \subseteq Seq(Bytes \cup {CR, LF})
           /\ Lengths \subseteq Nat /\ ReadSizes \subseteq Nat \ {0}
           /\ MaxMessages \in Nat /\ MaxEdits \in Nat /\ MaxChunks \in Nat

(* The values a caller gives to the headers; names are case-insensitive.   *)
HeaderValues == [k \in {CL, TE} |-> IF k = CL THEN Lengths ELSE {"chunked", "gzip"}]
NoHeaders == [k \in {CL, TE} |-> <<>>]

VARIABLES
  out,      (* the message object of the sender: headers, body, empty_body  *)
  edits,    (* changes made to it since it was sent                         *)
  chunks,   (* chunks sent                                                  *)
  spc,      (* the sender: "idle", "chunks", "closed"                       *)
  log,      (* history: the messages sent, kind, headers, body and the      *)
            (* position in the stream where each ends, 0 while it is open   *)
  wire,     (* the stream, from where the receiver is                       *)
  layered,  (* a ReadUntilTransformer is bound; else decode() makes one     *)
  ahead,    (* how much of wire the one made by decode() has read already   *)
  rpc,      (* the receiver                                                 *)
  in,       (* its message object                                           *)
  via,      (* it reads chunks in decode() or through a HttpChunkTransformer*)
  clen,     (* length of the chunk                                          *)
  tbuf,     (* HttpChunkTransformer._buf                                    *)
  pos,      (* history: how much was consumed                               *)
  got       (* history: the messages received                               *)

sender == <<out, edits, chunks, spc, log>>
receiver == <<rpc, in, via, clen, tbuf, pos, got>>
vars == <<out, edits, chunks, spc, log, wire, layered, ahead, rpc, in, via, clen, tbuf,
          pos, got>>

Init == /\ out = [hdr |-> NoHeaders, body |-> <<>>, empty |-> FALSE]
        /\ edits = 0 /\ chunks = 0 /\ spc = "idle" /\ log = <<>> /\ wire = <<>>
        /\ layered \in BOOLEAN /\ ahead = 0
        /\ rpc = "idle" /\ via = "decode"
        /\ in = [hdr |-> NoHeaders, body |-> <<>>, empty |-> FALSE]
        /\ clen = 0 /\ tbuf = <<>> /\ pos = 0 /\ got = <<>>
-----------------------------------------------------------------------------
(* _content_length: the first value counts.                                *)
ContentLength(hdr) == IF hdr[CL] = <<>> THEN 0 ELSE hdr[CL][1]

(* _chunk_encoding: one of the values is "chunked".                        *)
ChunkEncoding(hdr) == "chunked" \in Range(hdr[TE])

(* The sender changes its message.                                         *)
Edit(m) == /\ spc = "idle" /\ Len(log) < MaxMessages
           /\ edits < MaxEdits /\ m # out
           /\ edits' = edits + 1
           /\ out' = m
           /\ UNCHANGED <<chunks, spc, log, wire, layered, ahead, receiver>>

AddHeader(k, v) == Edit([out EXCEPT !.hdr[k] = Append(@, v)])

SetHeader(k, v, overwrite) ==
  /\ overwrite \/ out.hdr[k] = <<>>
  /\ Edit([out EXCEPT !.hdr[k] = <<v>>])

DelHeader(k) == Edit([out EXCEPT !.hdr[k] = <<>>])
SetBody(b) == Edit([out EXCEPT !.body = b])
SetEmptyBody(empty) == Edit([out EXCEPT !.empty = empty])

(* Faulty variant: a Transfer-Encoding set for an earlier message stays.   *)
BodyHeaders_KeepsChunked(hdr, n) == [hdr EXCEPT ![CL] = <<n>>]

(* What encode() makes of the headers when the body goes with them.        *)
BodyHeaders(hdr, n) ==
  [hdr EXCEPT ![CL] = <<n>>, ![TE] = IF ChunkEncoding(hdr) THEN <<>> ELSE @]

(* encode(), of a request as of a response.  The headers it sets stay in   *)
(* the message object.                                                     *)
Encode(kind) ==
  LET hdr == IF out.empty THEN out.hdr ELSE BodyHeaders(out.hdr, Len(out.body))
      body == IF out.empty THEN <<>> ELSE out.body
  IN  /\ spc = "idle" /\ Len(log) < MaxMessages
      /\ out.empty <=> kind # "plain"
      /\ kind = "chunked" => ChunkEncoding(hdr)
      /\ wire' = wire \o <<[head |-> hdr], CR, LF, CR, LF>> \o body
      /\ out' = [out EXCEPT !.hdr = hdr]
      /\ edits' = 0
      /\ log' = Append(log, [kind |-> kind, hdr |-> hdr, body |-> body,
                             end |-> IF kind = "chunked" THEN 0 ELSE pos + Len(wire')])
      /\ spc' = IF kind = "chunked" THEN "chunks" ELSE "idle"
      /\ UNCHANGED <<chunks, layered, ahead, receiver>>

(* HttpChunkTransformer.write, called by write_all for what is not empty.  *)
ChunkWrite(b) ==
  /\ spc = "chunks" /\ b # <<>>
  /\ chunks < MaxChunks
  /\ wire' = wire \o <<[hex |-> Len(b)], CR, LF>> \o b \o <<CR, LF>>
  /\ chunks' = chunks + 1
  /\ log' = [log EXCEPT ![Len(log)].body = @ \o b]
  /\ UNCHANGED <<out, edits, spc, layered, ahead, receiver>>

(* HttpChunkTransformer.flush.  It writes the last chunk with write(), not *)
(* write_all(), and ignores how much was taken: all of it only because the *)
(* layer below is a TcpAdaptor, whose write() is never short.              *)
ChunkFlush == /\ spc = "chunks"
              /\ wire' = wire \o <<[hex |-> 0], CR, LF, CR, LF>>
              /\ log' = [log EXCEPT ![Len(log)].end = pos + Len(wire')]
              /\ spc' = "idle"
              /\ UNCHANGED <<out, edits, chunks, layered, ahead, receiver>>

(* The sender goes away in the middle of a message.  Between messages that *)
(* is the same as to send no more.                                         *)
CloseWire == /\ spc = "chunks"
             /\ spc' = "closed"
             /\ UNCHANGED <<out, edits, chunks, log, wire, layered, ahead, receiver>>
(* A peer that breaks the framing: a status line that is none, a chunk     *)
(* without a length (HttpChunkTransformer.write(b'') sends one), a chunk   *)
(* that is longer than it says.  It sends no more after that.              *)
Garble == \E x \in Bytes :
  /\ \/ /\ spc = "idle" /\ Len(log) < MaxMessages
        /\ wire' = wire \o <<x, CR, LF, CR, LF>>
        /\ log' = Append(log, [kind |-> "plain", hdr |-> NoHeaders, body |-> <<>>,
                               end |-> 0])
     \/ /\ spc = "chunks"
        /\ \/ wire' = wire \o <<CR, LF, CR, LF>>
           \/ wire' = wire \o <<[hex |-> 1], CR, LF, x, x, CR, LF>>
        /\ UNCHANGED log
  /\ spc' = "closed"
  /\ UNCHANGED <<out, edits, chunks, layered, ahead, receiver>>
-----------------------------------------------------------------------------
(* read_exactly(n): never more than n.                                     *)
TakeExactly(n) == /\ Len(wire) >= n
                  /\ wire' = SubSeq(wire, n + 1, Len(wire))
                  /\ pos' = pos + n
                  /\ ahead' = IF ahead > n THEN ahead - n ELSE 0

(* read_until(d): it may have read any amount beyond the delimiter.        *)
EndOf(d) == LET ends == {i \in Len(d)..Len(wire) : SubSeq(wire, i - Len(d) + 1, i) = d}
            IN  IF ends = {} THEN 0 ELSE Min(ends)

TakeUntil(d) == LET e == EndOf(d) IN
  /\ e > 0
  /\ wire' = SubSeq(wire, e + 1, Len(wire))
  /\ pos' = pos + e
  /\ ahead' \in IF layered THEN {0}
                ELSE IF ahead >= e THEN {ahead - e} ELSE 0..(Len(wire) - e)

(* Faulty variant: the finish() of the transformer decode() made is not    *)
(* called.                                                                 *)
Complete_NoFinish(m) == /\ rpc' = "idle"
                        /\ got' = Append(got, m)

(* The end of decode(): the transformer it made must be empty.             *)
Complete(m) == \/ /\ layered \/ ahead' = 0
                  /\ rpc' = "idle"
                  /\ got' = Append(got, m)
               \/ /\ ~layered /\ ahead' > 0
                  /\ rpc' = "failed"
                  /\ UNCHANGED got

(* The receiver decodes the next answer.  From what it asked for it knows  *)
(* that there is no body (HEAD), and it may decode the head only, to read  *)
(* the chunks itself.  Each message is decoded into a new object.          *)
DecodeCall(how) ==
  /\ rpc = "idle" /\ Len(got) < Len(log)
  /\ LET kind == log[Len(got) + 1].kind IN
       /\ how = "transformer" => layered /\ kind = "chunked"
       /\ in' = [hdr |-> NoHeaders, body |-> <<>>,
                 empty |-> kind = "head" \/ how = "transformer"]
  /\ via' = how
  /\ rpc' = "head"
  /\ UNCHANGED <<sender, wire, layered, ahead, clen, tbuf, pos, got>>

IsSymbol(s, kind) == s \notin Bytes \cup {CR, LF} /\ DOMAIN s = {kind}

(* _decode_header adds to what the object has; then the body, if any.  A   *)
(* status line that is none makes HttpResponse.decode raise.               *)
DecodeHead ==
  /\ rpc = "head"
  /\ TakeUntil(<<CR, LF, CR, LF>>)
  /\ \/ /\ IsSymbol(wire[1], "head")
        /\ in' = [in EXCEPT !.hdr = [k \in DOMAIN @ |-> @[k] \o wire[1].head[k]]]
        /\ \/ /\ in.empty /\ via = "decode"
              /\ Complete([hdr |-> in'.hdr, body |-> <<>>])
           \/ /\ in.empty /\ via = "transformer"
              /\ rpc' = "reading"
              /\ UNCHANGED got
           \/ /\ ~in.empty
              /\ rpc' = IF ChunkEncoding(in'.hdr) THEN "line" ELSE "body"
              /\ UNCHANGED got
     \/ /\ ~IsSymbol(wire[1], "head")
        /\ rpc' = "failed"
        /\ UNCHANGED <<in, got>>
  /\ UNCHANGED <<sender, layered, via, clen, tbuf>>

(* read_exactly(content_len).                                              *)
DecodeBody == LET n == ContentLength(in.hdr) IN
  /\ rpc = "body"
  /\ TakeExactly(n)
  /\ in' = [in EXCEPT !.body = SubSeq(wire, 1, n)]
  /\ Complete([hdr |-> in.hdr, body |-> in'.body])
  /\ UNCHANGED <<sender, layered, via, clen, tbuf>>

(* _decode_chunked_body and _next_chunk: the length, ...                   *)
ChunkLine ==
  /\ rpc = "line"
  /\ TakeUntil(<<CR, LF>>)
  /\ \/ /\ IsSymbol(wire[1], "hex")
        /\ clen' = wire[1].hex
        /\ rpc' = IF clen' > 0 THEN "data" ELSE "eol"
     \/ /\ ~IsSymbol(wire[1], "hex")
        /\ rpc' = "failed"
        /\ UNCHANGED clen
  /\ UNCHANGED <<sender, layered, in, via, tbuf, got>>

(* ... the data, ...                                                       *)
ChunkData ==
  /\ rpc = "data"
  /\ TakeExactly(clen)
  /\ \/ /\ via = "decode"
        /\ in' = [in EXCEPT !.body = @ \o SubSeq(wire, 1, clen)]
        /\ UNCHANGED tbuf
     \/ /\ via = "transformer"
        /\ tbuf' = tbuf \o SubSeq(wire, 1, clen)
        /\ UNCHANGED in
  /\ rpc' = "eol"
  /\ UNCHANGED <<sender, layered, via, clen, got>>

(* ... and the line end after them, which ends the body after the empty    *)
(* chunk (TransformerEofError, of a HttpChunkTransformer).                 *)
ChunkEol ==
  /\ rpc = "eol"
  /\ TakeExactly(2)
  /\ \/ /\ SubSeq(wire, 1, 2) # <<CR, LF>>
        /\ rpc' = "failed"
        /\ UNCHANGED got
     \/ /\ SubSeq(wire, 1, 2) = <<CR, LF>> /\ clen > 0
        /\ rpc' = IF via = "decode" THEN "line" ELSE "reading"
        /\ UNCHANGED got
     \/ /\ SubSeq(wire, 1, 2) = <<CR, LF>> /\ clen = 0
        /\ Complete([hdr |-> in.hdr, body |-> in.body])
  /\ UNCHANGED <<sender, layered, in, via, clen, tbuf>>

(* Faulty variant: what a read leaves of the chunk is dropped.             *)
TransformerRead_Drops(max_bytes) ==
  /\ rpc = "reading"
  /\ \/ /\ tbuf = <<>>
        /\ rpc' = "line"
        /\ UNCHANGED <<in, tbuf>>
     \/ /\ tbuf # <<>>
        /\ in' = [in EXCEPT !.body = @ \o SubSeq(tbuf, 1, Min({max_bytes, Len(tbuf)}))]
        /\ tbuf' = <<>>
        /\ UNCHANGED rpc
  /\ UNCHANGED <<sender, wire, layered, ahead, via, clen, pos, got>>

(* HttpChunkTransformer.read: from _buf, or from the next chunk.           *)
TransformerRead(max_bytes) ==
  /\ rpc = "reading"
  /\ \/ /\ tbuf = <<>>
        /\ rpc' = "line"
        /\ UNCHANGED <<in, tbuf>>
     \/ /\ tbuf # <<>>
        /\ LET nread == Min({max_bytes, Len(tbuf)}) IN
             /\ in' = [in EXCEPT !.body = @ \o SubSeq(tbuf, 1, nread)]
             /\ tbuf' = SubSeq(tbuf, nread + 1, Len(tbuf))
        /\ UNCHANGED rpc
  /\ UNCHANGED <<sender, wire, layered, ahead, via, clen, pos, got>>

(* The stream ends inside a message.                                       *)
RecvEof == /\ spc = "closed"
           /\ \/ rpc = "head" /\ EndOf(<<CR, LF, CR, LF>>) = 0
              \/ rpc = "line" /\ EndOf(<<CR, LF>>) = 0
              \/ rpc = "body" /\ Len(wire) < ContentLength(in.hdr)
              \/ rpc = "data" /\ Len(wire) < clen
              \/ rpc = "eol" /\ Len(wire) < 2
           /\ rpc' = "failed"
           /\ UNCHANGED <<sender, wire, layered, ahead, in, via, clen, tbuf, pos,
                          got>>
-----------------------------------------------------------------------------
Send == \/ \E k \in {CL, TE} :
             \/ DelHeader(k)
             \/ \E v \in HeaderValues[k] :
                  AddHeader(k, v) \/ \E ow \in BOOLEAN : SetHeader(k, v, ow)
        \/ \E b \in Bodies : SetBody(b) \/ ChunkWrite(b)
        \/ \E e \in BOOLEAN : SetEmptyBody(e)
        \/ \E kind \in {"plain", "head", "chunked"} : Encode(kind)
        \/ ChunkFlush \/ CloseWire \/ Garble

Receive == \/ DecodeHead \/ DecodeBody \/ ChunkLine \/ ChunkData \/ ChunkEol
           \/ \E n \in ReadSizes : TransformerRead(n)
           \/ RecvEof

(* A receiver that met an exception closes the connection.                 *)
Next == \/ rpc # "failed" /\ Send
        \/ Receive
        \/ \E how \in {"decode", "transformer"} : DecodeCall(how)

(* The receiver goes on with a message it has begun.                       *)
Spec == Init /\ [][Next]_vars /\ WF_vars(Receive)
-----------------------------------------------------------------------------
TypeOK == /\ \A hdr \in {out.hdr, in.hdr} :
                hdr[CL] \in Seq(Nat) /\ hdr[TE] \in Seq(HeaderValues[TE])
          /\ edits \in 0..MaxEdits /\ chunks \in 0..MaxChunks
          /\ spc \in {"idle", "chunks", "closed"}
          /\ Len(log) <= MaxMessages /\ Len(got) <= Len(log)
          /\ rpc \in {"idle", "head", "body", "line", "data", "eol", "reading", "failed"}
          /\ via \in {"decode", "transformer"}
          /\ ahead \in 0..Len(wire)
          /\ layered => ahead = 0
          /\ tbuf # <<>> => via = "transformer" /\ rpc \in {"eol", "reading", "failed"}

(* What was received is what was sent, message by message: headers, body,  *)
(* whole, in order, whatever the message object of the sender was used for *)
(* before, however chunks and reads are cut.  A message that was cut off   *)
(* or garbled is never taken for a whole one.                              *)
Faithful == \A i \in 1..Len(got) :
  /\ log[i].end > 0
  /\ got[i].hdr = log[i].hdr /\ got[i].body = log[i].body

(* Between two messages the receiver is at the beginning of the next one,  *)
(* and a transformer that decode() made for itself never takes anything of *)
(* the next message away without an exception.  Every variable keeps its   *)
(* type.                                                                   *)
Aligned == TypeOK /\ (rpc = "idle" =>
  /\ ahead = 0
  /\ pos = IF got = <<>> THEN 0 ELSE log[Len(got)].end)

(* A message that was sent to its end and that the receiver began to       *)
(* decode arrives: it neither waits for bytes that do not come nor takes   *)
(* the message for a bad one.  Only the transformer decode() makes may     *)
(* fail, when it has read ahead.                                           *)
Received == \A i \in 1..MaxMessages :
  (Len(log) >= i /\ log[i].end > 0 /\ Len(got) = i - 1 /\ rpc # "idle")
    ~> (Len(got) >= i \/ (rpc = "failed" /\ ~layered))
=============================================================================
