----------------------------- MODULE SpeedLimit -----------------------------
(***************************************************************************)
(* comm/speed_limit_transformer.py: the tasks of an event loop write, or   *)
(* one of them reads, through one SpeedLimitTransformer.  The two          *)
(* directions share no state, so a behaviour has one of them: `next`       *)
(* stands for _wnext or _rnext.                                            *)
(*                                                                         *)
(* Time is counted in ticks, the time the speed gives to one byte, and     *)
(* `next` is kept as a distance from now: a tick changes it.  A sleeper    *)
(* may wake late, never early.                                             *)
(*                                                                         *)
(* External: the layer below, which takes or has any part of a piece.      *)
(***************************************************************************)
EXTENDS Sums

CONSTANTS Tasks,     (* the tasks that use the transformer                 *)
          Speeds,    (* bytes per second given as r_bytes or w_bytes       *)
          MaxIter,   (* turns of one read or write; 10 in the code         *)
          MaxLen,    (* bound: bytes of one read or write                  *)
          MaxInput,  (* bound: bytes the peer sends                        *)
          NCancels   (* bound: calls that are cancelled                    *)

ASSUME SpeedAssumption == /\ IsFiniteSet(Tasks) /\ Tasks # {} /\ Speeds \subseteq Nat
                          /\ MaxIter \in Nat \ {0} /\ MaxLen \in Nat \ {0}
                          /\ MaxInput \in Nat /\ NCancels \in Nat

VARIABLES
  dir,                    (* chosen once: which of the two calls is used   *)
  hint,                   (* _whint or _rhint                              *)
  pc, wait,               (* where each task is, what is left of its sleep *)
  next,                   (* _wnext or _rnext                              *)
  len, pos, iter,         (* of the call a task is in                      *)
  input, eof,             (* bytes below that are not read; their end      *)
  sent, returned, lost,   (* history of these bytes                        *)
  cancels,                (* history: calls that were cancelled            *)
  level                   (* history: how far the bytes are ahead of speed *)

chosen == <<dir, hint>>
calls == <<pc, wait, next, len, pos, iter, returned, lost>>
vars == <<dir, hint, pc, wait, next, len, pos, iter, input, eof, sent,
          returned, lost, cancels, level>>
-----------------------------------------------------------------------------
(* _get_bps: 0 stands for an argument that is not given.                   *)
GetBps(b, kb, mb, dft) == Max({1, IF b # 0 THEN b ELSE
                                  IF kb # 0 THEN kb * 1024 ELSE
                                  IF mb # 0 THEN mb * 1024 * 1024 ELSE dft})

(* _get_hint: 2 ** int(log2(bps / 8)), where int() rounds towards 0.  Of   *)
(* four bytes per second or less it makes a fraction, for which 0 stands.  *)
(* 2 ^ 25 is above the cap already.                                        *)
GetHint(bps) ==
  IF bps <= 4 THEN 0
  ELSE Min({16 * 1024 * 1204, Max({1} \cup {2 ^ j : j \in {i \in 0..25 : 8 * 2 ^ i <= bps}})})

Active == IF dir = "write" THEN Tasks ELSE {CHOOSE t \in Tasks : TRUE}

Init == /\ dir \in {"write", "read"}
        /\ \E b \in Speeds : hint = GetHint(GetBps(b, 0, 0, 256 * 1024))
        /\ pc = [t \in Tasks |-> "idle"]
        /\ wait = [t \in Tasks |-> 0]
        /\ next = 0
        /\ len = [t \in Tasks |-> 0]
        /\ pos = [t \in Tasks |-> 0]
        /\ iter = [t \in Tasks |-> 0]
        /\ input = 0 /\ eof = "open"
        /\ sent = 0 /\ returned = 0 /\ lost = 0 /\ cancels = 0
        /\ level = 0
-----------------------------------------------------------------------------
(* Task t leaves its call, to the state `to`.                              *)
Leave(t, to) ==
  /\ pc' = [pc EXCEPT ![t] = to]
  /\ wait' = [wait EXCEPT ![t] = 0]
  /\ len' = [len EXCEPT ![t] = 0]
  /\ pos' = [pos EXCEPT ![t] = 0]
  /\ iter' = [iter EXCEPT ![t] = 0]

Return(t, p, nx) == /\ Leave(t, "idle")
                    /\ next' = nx
                    /\ returned' = IF dir = "read" THEN returned + p ELSE returned

(* Faulty variant: the time nobody used may be made up for.                *)
Turn_Credit(t, l, p, i, nx) ==
  \/ /\ i = MaxIter \/ p = l
     /\ Return(t, p, nx)
  \/ /\ i < MaxIter /\ p < l
     /\ pc' = [pc EXCEPT ![t] = IF nx > 0 THEN "delay" ELSE "below"]
     /\ wait' = [wait EXCEPT ![t] = Max({nx, 0})]
     /\ next' = nx
     /\ len' = [len EXCEPT ![t] = l]
     /\ pos' = [pos EXCEPT ![t] = p]
     /\ iter' = [iter EXCEPT ![t] = i + 1]
     /\ UNCHANGED returned

(* The head of the loop, with p of l bytes done in i turns: the call       *)
(* returns, or sleeps until `next`, or goes on at once and makes it now.   *)
Turn(t, l, p, i, nx) ==
  \/ /\ i = MaxIter \/ p = l
     /\ Return(t, p, nx)
  \/ /\ i < MaxIter /\ p < l
     /\ pc' = [pc EXCEPT ![t] = IF nx > 0 THEN "delay" ELSE "below"]
     /\ wait' = [wait EXCEPT ![t] = Max({nx, 0})]
     /\ next' = Max({nx, 0})
     /\ len' = [len EXCEPT ![t] = l]
     /\ pos' = [pos EXCEPT ![t] = p]
     /\ iter' = [iter EXCEPT ![t] = i + 1]
     /\ UNCHANGED returned

(* With a fraction for a hint, the slice of the first turn raises.         *)
Call(t) ==
  /\ pc[t] = "idle"
  /\ IF hint = 0
     THEN /\ Leave(t, "raised")
          /\ next' = Max({next, 0})
          /\ UNCHANGED returned
     ELSE \E l \in 1..MaxLen : Turn(t, l, 0, 0, next)
  /\ UNCHANGED <<chosen, input, eof, sent, lost, cancels, level>>

(* Faulty variant: after the sleep the time is looked at again.            *)
Wake_Again(t) ==
  /\ pc[t] = "delay" /\ wait[t] = 0
  /\ IF next > 0
     THEN wait' = [wait EXCEPT ![t] = next] /\ pc' = pc
     ELSE pc' = [pc EXCEPT ![t] = "below"] /\ wait' = wait
  /\ UNCHANGED <<chosen, next, len, pos, iter, returned, lost, input, eof, sent,
                 cancels, level>>

Wake(t) == /\ pc[t] = "delay" /\ wait[t] = 0
           /\ pc' = [pc EXCEPT ![t] = "below"]
           /\ UNCHANGED <<chosen, wait, next, len, pos, iter, returned, lost,
                          input, eof, sent, cancels, level>>

(* The layer below takes, or has, k bytes of a piece of at most `hint`.    *)
Below(t) ==
  /\ pc[t] = "below"
  /\ \E k \in 1..Min({hint, len[t] - pos[t]}) :
       /\ dir = "read" => k <= input
       /\ input' = IF dir = "read" THEN input - k ELSE input
       /\ level' = level + k
       /\ Turn(t, len[t], pos[t] + k, iter[t], next + k)
  /\ UNCHANGED <<chosen, eof, sent, lost, cancels>>

(* Faulty variant: the end of the stream is raised at once.                *)
ReadEof_Raises(t) ==
  /\ pc[t] = "below" /\ dir = "read"
  /\ input = 0 /\ eof # "open"
  /\ Leave(t, "raised")
  /\ lost' = lost + pos[t]
  /\ UNCHANGED <<chosen, next, returned, input, eof, sent, cancels, level>>

(* except AdaptorEofError: what was read before is returned.  The error    *)
(* of a transformer below (TransformerEofError) is not caught.             *)
ReadEof(t) ==
  /\ pc[t] = "below" /\ dir = "read"
  /\ input = 0 /\ eof # "open"
  /\ IF eof = "adaptor" /\ pos[t] > 0
     THEN Return(t, pos[t], next) /\ UNCHANGED lost
     ELSE /\ Leave(t, "raised")
          /\ lost' = lost + pos[t]
          /\ UNCHANGED <<next, returned>>
  /\ UNCHANGED <<chosen, input, eof, sent, cancels, level>>

(* A call is cancelled in a sleep or below; the buffer of a read goes with *)
(* it.                                                                     *)
Cancel(t) ==
  /\ pc[t] \in {"delay", "below"}
  /\ cancels < NCancels
  /\ cancels' = cancels + 1
  /\ Leave(t, "idle")
  /\ lost' = IF dir = "read" THEN lost + pos[t] ELSE lost
  /\ UNCHANGED <<chosen, next, returned, input, eof, sent, level>>

PeerSends == /\ dir = "read" /\ eof = "open" /\ sent < MaxInput
             /\ sent' = sent + 1 /\ input' = input + 1
             /\ UNCHANGED <<chosen, calls, eof, cancels, level>>

PeerEnds == /\ dir = "read" /\ eof = "open"
            /\ eof' \in {"adaptor", "transformer"}
            /\ UNCHANGED <<chosen, calls, input, sent, cancels, level>>

(* Time passes.  A `next` long ago is no better than one a little later.   *)
LongAgo == -(hint * 2 * (Cardinality(Tasks) + 1))
Less(x) == Max({0, x - 1})
Tick == /\ wait' = [t \in Tasks |-> Less(wait[t])]
        /\ next' = Max({next - 1, LongAgo})
        /\ level' = Less(level)
        /\ UNCHANGED <<chosen, pc, len, pos, iter, returned, lost, input, eof,
                       sent, cancels>>
-----------------------------------------------------------------------------
Step(t) == Wake(t) \/ Below(t) \/ ReadEof(t)
Next == \/ \E t \in Active : Call(t) \/ Step(t) \/ Cancel(t)
        \/ PeerSends \/ PeerEnds \/ Tick

(* Time passes, a task goes on when its sleep is over, and the layer below *)
(* answers; nobody need write, and the peer need not send.                 *)
Fairness == WF_vars(Tick) /\ \A t \in Tasks : WF_vars(Step(t))
Spec == Init /\ [][Next]_vars /\ Fairness
-----------------------------------------------------------------------------
TypeOK == /\ dir \in {"read", "write"} /\ hint \in Nat
          /\ pc \in [Tasks -> {"idle", "delay", "below", "raised"}]
          /\ wait \in [Tasks -> Nat] /\ next \in Int
          /\ len \in [Tasks -> 0..MaxLen] /\ pos \in [Tasks -> 0..MaxLen]
          /\ iter \in [Tasks -> 0..MaxIter]
          /\ input \in 0..MaxInput /\ sent \in 0..MaxInput
          /\ eof \in {"open", "adaptor", "transformer"}
          /\ returned \in 0..sent /\ lost \in 0..sent
          /\ cancels \in 0..NCancels /\ level \in Nat

(* In any stretch of time no more bytes go through than the speed allows   *)
(* for it and two pieces per task: one that was below when the time began  *)
(* to count, as late as that may be, and one that did not wait for it.     *)
(* Every variable keeps its type.                                          *)
WithinRate == TypeOK /\ level <= 2 * Cardinality(Active) * hint

(* Every byte of the peer is returned once, is still below or is in the    *)
(* buffer of the read at work; a read that is cancelled loses what it has, *)
(* and so does one that meets the end of a transformer, not an adaptor.    *)
ReadKeepsBytes ==
  /\ dir = "read" => sent = input + returned + lost + SumOver(pos, Tasks)
  /\ lost > 0 => cancels > 0 \/ eof = "transformer"

(* A task that is in a write.                                              *)
Writing(t) == dir = "write" /\ pc[t] \in {"delay", "below"}
=============================================================================
