---------------------------- MODULE MCHttpStream ----------------------------
(***************************************************************************)
(* Messages and the streams they are cut out of: HttpStream has the two    *)
(* sides of a persistent connection, whose reads are those of ReadUntil.   *)
(*                                                                         *)
(* A behaviour of OneConnection is messages on their way; they take a read *)
(* for one step, and what ReadUntil has of it rests.                       *)
(***************************************************************************)
EXTENDS ReadUntil

CONSTANTS CR, LF, Others, Bodies, Lengths, MaxMessages, MaxEdits, MaxChunks, ReadSizes

VARIABLES out, edits, chunks, spc, log, wire, layered, ahead, rpc, in, via, clen, tbuf,
          pos, got

hvars == <<out, edits, chunks, spc, log, wire, layered, ahead, rpc, in, via, clen, tbuf,
           pos, got>>

Http == INSTANCE HttpStream WITH Bytes <- Others

ASSUME HttpAssumption == Http!Assumed

Calm(A) == A /\ UNCHANGED vars

HttpInit == Init /\ Http!Init

OneConnection == /\ HttpInit
                 /\ [][Calm(Http!Next)]_<<vars, hvars>>
                 /\ WF_<<vars, hvars>>(Calm(Http!Receive))

(* Faithful of HttpStream: what is received is what was sent, message by   *)
(* message.                                                                *)
Faithful == Http!Faithful

(* Aligned of HttpStream: between two messages the receiver is at the      *)
(* beginning of the next one.                                              *)
Aligned == Http!Aligned

(* Received of HttpStream: a whole message that the receiver began to      *)
(* decode arrives.                                                         *)
Received == Http!Received

(* Bodies and chunks for TLC: empty, or what looks like the end of a line. *)
MCBodies == {<<>>, <<CR, LF>>}
=============================================================================
