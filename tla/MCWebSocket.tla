----------------------------- MODULE MCWebSocket -----------------------------
(***************************************************************************)
(* The two sides of a WebSocketProcessor: the module of that name has the  *)
(* tasks and connections, and takes what one receive task reads for a      *)
(* frame that arrives; WebSocketFrames has what one receive task reads,    *)
(* and what its handler makes of it.                                       *)
(*                                                                         *)
(* A behaviour of OneStream is one receive task at work: the processor, a  *)
(* client's, rests.                                                        *)
(***************************************************************************)
EXTENDS WebSocketProcessor

CONSTANTS Lengths, MaxFrames

VARIABLES sent, inside, mixed, stream, loop, received, left, async, func,
          frames, tasks, delivered

fvars == <<sent, inside, mixed, stream, loop, received, left, async, func,
           frames, tasks, delivered>>

Frames == INSTANCE WebSocketFrames WITH wire <- stream, rpc <- loop, closed <- left

ASSUME FramesAssumption == Frames!Assumed

Rest(A) == A /\ UNCHANGED vars

StreamInit == Init /\ ~service /\ Frames!Init

OneStream == /\ StreamInit
             /\ [][Rest(Frames!Next)]_<<vars, fvars>>
             /\ WF_<<vars, fvars>>(Rest(Frames!Receive))
             /\ WF_<<vars, fvars>>(Rest(Frames!StartTask))

(* FramesExact of WebSocketFrames: what is decoded is what was encoded,    *)
(* within the lengths that encode() and decode() agree on.                 *)
FramesExact == Frames!FramesExact

(* MessagesInOrder of WebSocketFrames: a handler gets messages made of     *)
(* exactly their own frames, in the order they were sent.                  *)
MessagesInOrder == Frames!MessagesInOrder

(* MessagesArrive of WebSocketFrames: every frame that ends a message gets *)
(* the message delivered, unless the client was closed.                    *)
MessagesArrive == Frames!MessagesArrive
=============================================================================
