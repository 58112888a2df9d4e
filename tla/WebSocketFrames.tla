--------------------------- MODULE WebSocketFrames ---------------------------
(***************************************************************************)
(* pykedixa/comm/websocket/websocket_message.py and websocket_handler.py:  *)
(* frames become bytes, bytes become frames, and a WebSocketBasicHandler   *)
(* puts messages together and calls on_text, on_binary, ... for them.      *)
(*                                                                         *)
(* Lengths are the real ones.  The stream is a sequence of the parts of    *)
(* frames, each with its width in bytes: the two bytes of the head, the    *)
(* extended length, the mask key, the payload.  A payload is known by the  *)
(* number of its frame; masking and unmasking with the key that precedes   *)
(* it cancel out.                                                          *)
(***************************************************************************)
EXTENDS Naturals, Sequences, SequencesExt

CONSTANTS Lengths,    (* lengths of payloads                              *)
          MaxFrames   (* bound: frames sent                               *)

(* What is assumed of them.                                                *)
Assumed == Lengths \subseteq Nat /\ MaxFrames \in Nat

Data == {"text", "binary"}
Control == {"close", "ping"}

VARIABLES
  sent,       (* history: the frames sent                                 *)
  inside,     (* the sender is inside a fragmented message                *)
  mixed,      (* history: a control frame was sent inside a message       *)
  wire,       (* what has not been received                               *)
  rpc,        (* the receive loop: "reading", in a handler ("handling"),  *)
              (* "failed", out of step with the frames ("lost"), "ended"  *)
  received,   (* history: the frames decoded                              *)
  closed,     (* the client was closed                                    *)
  async,      (* async_process of the handler                             *)
  func,       (* it is a WebSocketFuncHandler without functions           *)
  frames,     (* _frames                                                  *)
  tasks,      (* process_frames tasks that have not started               *)
  delivered   (* history: the calls of on_text, ...: opcode, payloads     *)

sender == <<sent, inside, mixed>>
handler == <<closed, async, func, frames, tasks, delivered>>
vars == <<sent, inside, mixed, wire, rpc, received, closed, async, func,
          frames, tasks, delivered>>

Init == /\ sent = <<>> /\ inside = FALSE /\ mixed = FALSE
        /\ wire = <<>> /\ rpc = "reading" /\ received = <<>>
        /\ closed = FALSE
        /\ async \in BOOLEAN /\ func \in BOOLEAN
        /\ frames = <<>> /\ tasks = <<>> /\ delivered = <<>>
-----------------------------------------------------------------------------
(* Faulty variant: 127 taken for a length.                                 *)
Code_127(plen) == IF plen <= 127 THEN plen ELSE IF plen <= 65535 THEN 126 ELSE 127

(* The seven bits of the length in the head, ...                           *)
Code(plen) == IF plen <= 126 THEN plen ELSE IF plen <= 65535 THEN 126 ELSE 127

Part(name, width, value) == [part |-> name, width |-> width, value |-> value]

(* ... and the parts of a frame: encode().                                 *)
Encode(f) ==
  <<Part("head", 2, [f EXCEPT !.len = Code(f.len)])>>
  \o (CASE f.len <= 126 -> <<>>
        [] 126 < f.len /\ f.len <= 65535 -> <<Part("length", 2, f.len)>>
        [] f.len > 65535 -> <<Part("length", 8, f.len)>>)
  \o (IF f.masked THEN <<Part("key", 4, f.id)>> ELSE <<>>)
  \o <<Part("payload", f.len, f.id)>>

(* Whoever sends keeps to the order of fragments: a message begins with a  *)
(* frame of its own opcode, goes on with continuation frames and ends with *)
(* fin.  Control frames are short, one frame each, and may come anywhere.  *)
SendFrame(op, fin, len, masked) ==
  LET f == [op |-> op, fin |-> fin, len |-> len, masked |-> masked,
            id |-> Len(sent) + 1]
  IN  /\ Len(sent) < MaxFrames
      /\ op \in Data => ~inside
      /\ op = "continuation" => inside
      /\ op \in Control => fin /\ len <= 125
      /\ sent' = Append(sent, f)
      /\ inside' = IF op \in Control THEN inside ELSE ~fin
      /\ mixed' = (mixed \/ (inside /\ op \in Control))
      /\ wire' = wire \o Encode(f)
      /\ UNCHANGED <<rpc, received, handler>>
-----------------------------------------------------------------------------
(* decode() reads the parts one after another by their widths: what a      *)
(* two-byte length is followed by depends on what it finds there.          *)
Expect(i, name, width) ==
  i <= Len(wire) /\ wire[i].part = name /\ wire[i].width = width

(* The parts it takes for a frame that begins the stream, or 0 if they are *)
(* not the parts of that frame.                                            *)
PartsTaken ==
  LET h == wire[1].value
      extended == h.len = 126
      plen == IF extended THEN wire[2].value ELSE h.len
      k == IF extended THEN 2 ELSE 1
      n == IF h.masked THEN k + 1 ELSE k
  IN  IF /\ extended => Expect(2, "length", 2)
         /\ h.masked => Expect(n, "key", 4)
         /\ Expect(n + 1, "payload", plen)
      THEN n + 1 ELSE 0

Payload(f, parts) == [f EXCEPT !.len = wire[parts].width, !.id = wire[parts].value]

(* process_frames: the opcode of the first frame decides what is called.   *)
(* on_close closes the client; that of a WebSocketFuncHandler without a    *)
(* function calls super().on_close() without its argument and raises.      *)
ProcessFrames(list) ==
  /\ delivered' = Append(delivered,
                         [op |-> list[1].op,
                          ids |-> [i \in 1..Len(list) |-> list[i].id]])
  /\ closed' = (closed \/ (list[1].op = "close" /\ ~(func /\ async)))

(* Faulty variant: the frames of a message stay for the next one.          *)
OnFrame_KeepsFrames(f) ==
  LET list == Append(frames, f) IN
  \/ /\ ~f.fin
     /\ frames' = list /\ rpc' = IF closed THEN "ended" ELSE "reading"
     /\ UNCHANGED <<tasks, closed, delivered>>
  \/ /\ f.fin /\ async
     /\ frames' = list
     /\ tasks' = Append(tasks, list) /\ rpc' = IF closed THEN "ended" ELSE "reading"
     /\ UNCHANGED <<closed, delivered>>
  \/ /\ f.fin /\ ~async
     /\ frames' = list
     /\ ProcessFrames(list) /\ rpc' = "handling"
     /\ UNCHANGED tasks

(* on_frame: a frame with fin completes what was gathered, which is        *)
(* processed in a new task, or in the receive loop.                        *)
OnFrame(f) ==
  LET list == Append(frames, f) IN
  \/ /\ ~f.fin
     /\ frames' = list /\ rpc' = IF closed THEN "ended" ELSE "reading"
     /\ UNCHANGED <<tasks, closed, delivered>>
  \/ /\ f.fin /\ async
     /\ frames' = <<>>
     /\ tasks' = Append(tasks, list) /\ rpc' = IF closed THEN "ended" ELSE "reading"
     /\ UNCHANGED <<closed, delivered>>
  \/ /\ f.fin /\ ~async
     /\ frames' = <<>>
     /\ ProcessFrames(list) /\ rpc' = "handling"
     /\ UNCHANGED tasks

(* A frame is decoded and handled.                                         *)
ReceiveFrame ==
  /\ rpc = "reading" /\ wire # <<>>
  /\ wire[1].value.len # 127 /\ PartsTaken > 0
  /\ LET f == Payload(wire[1].value, PartsTaken) IN
       /\ received' = Append(received, f)
       /\ wire' = SubSeq(wire, PartsTaken + 1, Len(wire))
       /\ OnFrame(f)
  /\ UNCHANGED <<sender, async, func>>

(* Four bytes are unpacked as an eight-byte length: struct.error, and the  *)
(* receive loop closes the client.                                         *)
ReceiveTooLong ==
  /\ rpc = "reading" /\ wire # <<>>
  /\ wire[1].value.len = 127
  /\ rpc' = "failed" /\ closed' = TRUE
  /\ UNCHANGED <<sender, wire, received, async, func, frames, tasks, delivered>>

(* What follows the head of a frame of 126 bytes is not its length: from   *)
(* here on nothing is what it is taken for.                                *)
ReceiveLost ==
  /\ rpc = "reading" /\ wire # <<>>
  /\ wire[1].value.len # 127 /\ PartsTaken = 0
  /\ rpc' = "lost"
  /\ UNCHANGED <<sender, wire, received, handler>>

(* A task that process_frames was scheduled in: tasks start in order.      *)
StartTask == /\ tasks # <<>>
             /\ tasks' = Tail(tasks)
             /\ ProcessFrames(Head(tasks))
             /\ UNCHANGED <<sender, wire, rpc, received, async, func, frames>>

(* Faulty variant: the loop ends with its first handler.                   *)
HandlerReturn_Ends == /\ rpc = "handling"
                      /\ rpc' = "ended"
                      /\ UNCHANGED <<sender, wire, received, handler>>

(* The handler returns to the receive loop, or its exception ends it.      *)
HandlerReturn == /\ rpc = "handling"
                 /\ rpc' = IF closed THEN "ended" ELSE "reading"
                 /\ UNCHANGED <<sender, wire, received, handler>>

(* close() has the receive loop cancelled.                                 *)
Cancelled == /\ closed /\ rpc = "reading"
             /\ rpc' = "ended"
             /\ UNCHANGED <<sender, wire, received, handler>>
-----------------------------------------------------------------------------
Receive == ReceiveFrame \/ ReceiveTooLong \/ ReceiveLost \/ HandlerReturn \/ Cancelled

Next == \/ \E op \in Data \cup Control \cup {"continuation"}, fin, masked \in BOOLEAN,
              len \in Lengths : SendFrame(op, fin, len, masked)
        \/ Receive
        \/ StartTask

Spec == Init /\ [][Next]_vars /\ WF_vars(Receive) /\ WF_vars(StartTask)
-----------------------------------------------------------------------------
TypeOK == /\ inside \in BOOLEAN /\ mixed \in BOOLEAN /\ closed \in BOOLEAN
          /\ Len(received) <= Len(sent) /\ Len(sent) <= MaxFrames
          /\ rpc \in {"reading", "handling", "failed", "lost", "ended"}
          /\ \A i \in 1..Len(wire) :
               wire[i].part \in {"head", "length", "key", "payload"}
          /\ \A list \in {frames} \cup ToSet(tasks) : \A i \in 1..Len(list) :
               list[i].fin => i = Len(list) /\ list # frames

(* The lengths encode() and decode() agree on.                             *)
Agreed == \A i \in 1..Len(sent) : sent[i].len <= 65535 /\ sent[i].len # 126

(* Frames survive: as long as no payload is 126 bytes long (encode sends   *)
(* that length as if it announced a longer one) or longer than 65535       *)
(* (decode reads four of the eight bytes of its length), what is decoded   *)
(* is what was encoded, frame by frame, masked or not.  Every variable     *)
(* keeps its type, and only the last frame of a message has fin.           *)
FramesExact == TypeOK /\ (Agreed => /\ IsPrefix(received, sent)
                                   /\ rpc \notin {"failed", "lost"})

(* The messages in a sequence of frames, each ended by fin.                *)
MessagesIn(fs) ==
  LET ends == {i \in 1..Len(fs) : fs[i].fin}
      begins(e) == {i \in 1..e : \A j \in i..(e - 1) : ~fs[j].fin}
      first(e) == CHOOSE i \in begins(e) : \A j \in begins(e) : i <= j
  IN  {[last |-> e, op |-> fs[first(e)].op,
        ids |-> [i \in 1..(e + 1 - first(e)) |-> fs[first(e) + i - 1].id]] : e \in ends}

(* Messages are put together from exactly their own frames and are handed  *)
(* over in the order they were sent, also when each is processed in a task *)
(* of its own, unless a control frame came inside a message: its frames    *)
(* then go into one list with those of the message.                        *)
MessagesInOrder == Agreed /\ ~mixed =>
  /\ \A i \in 1..Len(delivered) : \E m \in MessagesIn(sent) :
       /\ m.op = delivered[i].op /\ m.ids = delivered[i].ids
       /\ m.op # "continuation"
  /\ \A i \in 1..Len(delivered) - 1 :
       Last(delivered[i].ids) + 1 = Head(delivered[i + 1].ids)
  /\ delivered # <<>> => delivered[1].ids[1] = 1

(* Every frame that ends a message gets the message delivered, unless the  *)
(* client was closed or a length the codec cannot do came first.           *)
MessagesArrive == \A n \in 1..MaxFrames :
  (Len(sent) >= n /\ sent[n].fin)
    ~> (\/ closed \/ ~Agreed
        \/ \E i \in 1..Len(delivered) : Last(delivered[i].ids) = n)
=============================================================================
