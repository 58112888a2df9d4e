----------------------------- MODULE Connection -----------------------------
(***************************************************************************)
(* pykedixa/comm/connection.py: a stack of transformers on an adaptor,     *)
(* used by asyncio tasks.  A step runs from one await to the next; every   *)
(* await of a layer's coroutine may return or raise (its own failure, or   *)
(* the cancellation of the task).                                          *)
(*                                                                         *)
(* One task, the owner, opens the connection and builds the stack.  When   *)
(* it has handed the connection over, as WebSocketClient does after the    *)
(* last bind, other tasks use and close it too, and the stack is no more   *)
(* changed by bind or unbind.                                              *)
(***************************************************************************)
EXTENDS Naturals, Sequences, SequencesExt

CONSTANTS Transformers,  (* transformer objects, each bound at most once      *)
          PrepareOnly,   (* those whose prepare_only() is True: the upgraders *)
          Tasks,         (* tasks that use the connection                     *)
          Owner,         (* the one that opens and builds it                  *)
          Adaptor,       (* the BasicAdaptor at the bottom of the stack       *)
          MaxOpens,      (* bound: how often open() is called                 *)
          MaxUnbinds     (* bound: how often unbind() is called on one layer  *)

ASSUME LayersAssumption == /\ Adaptor \notin Transformers
                           /\ PrepareOnly \subseteq Transformers
ASSUME TasksAssumption == Owner \in Tasks
ASSUME UsageAssumption == /\ MaxOpens \in Nat \ {0}
                          /\ MaxUnbinds \in Nat

Layers == Transformers \cup {Adaptor}

VARIABLES
  closed,    (* Connection._closed                                            *)
  comms,     (* Connection._comms, bottom first                               *)
  c,         (* Connection._c                                                 *)
  nxt,       (* BasicTransformer._nxt of each transformer                     *)
  st,        (* life of each transformer                                      *)
  nfin,      (* how often finish() was called on each layer                   *)
  opens,     (* how often the adaptor was prepared                            *)
  unbound,   (* history: the transformers unbind() was called on              *)
  shared,    (* the owner has handed the connection over                      *)
  pc,        (* the await each task is in, "idle" outside Connection          *)
  todo,      (* rest of the local copy _comms[::-1] of a task in close()      *)
  use        (* the transformer or layer a task in bind, unbind, request uses *)

stack == <<closed, comms, c>>
layers == <<nxt, st, nfin>>
usage == <<opens, unbound, shared>>
vars == <<closed, comms, c, nxt, st, nfin, opens, unbound, shared,
          pc, todo, use>>

Life == {"new", "preparing", "ready", "failed", "finishing", "finished"}
TaskPC == {"idle", "opening", "binding", "unbinding", "encoding", "decoding",
           "finishing", "releasing", "forcing"}

Init == /\ closed = TRUE
        /\ comms = <<>>
        /\ c = Adaptor
        /\ nxt = [t \in Transformers |-> Adaptor]
        /\ st = [t \in Transformers |-> "new"]
        /\ nfin = [l \in Layers |-> 0]
        /\ opens = 0
        /\ unbound = {}
        /\ shared = FALSE
        /\ pc = [k \in Tasks |-> "idle"]
        /\ todo = [k \in Tasks |-> <<>>]
        /\ use = [k \in Tasks |-> Adaptor]

May(k) == pc[k] = "idle" /\ (k = Owner \/ shared)
Builds == pc[Owner] = "idle" /\ ~shared /\ ~closed
-----------------------------------------------------------------------------
(* open(): nothing unless closed.  The connection counts as open only when *)
(* the adaptor is prepared.                                                *)
OpenCall == /\ pc[Owner] = "idle" /\ ~shared /\ closed
            /\ opens < MaxOpens
            /\ pc' = [pc EXCEPT ![Owner] = "opening"]
            /\ UNCHANGED <<stack, layers, usage, todo, use>>

OpenReturn == /\ pc[Owner] = "opening"
              /\ closed' = FALSE
              /\ opens' = opens + 1
              /\ pc' = [pc EXCEPT ![Owner] = "idle"]
              /\ UNCHANGED <<comms, c, layers, unbound, shared, todo, use>>

OpenRaise == /\ pc[Owner] = "opening"
             /\ pc' = [pc EXCEPT ![Owner] = "idle"]
             /\ UNCHANGED <<stack, layers, usage, todo, use>>

Top == IF comms = <<>> THEN Adaptor ELSE Last(comms)

(* Faulty variant: the new layer is always put on the adaptor.             *)
BindCall_OnAdaptor(t) ==
  /\ Builds
  /\ st[t] = "new"
  /\ nxt' = [nxt EXCEPT ![t] = Adaptor]
  /\ st' = [st EXCEPT ![t] = "preparing"]
  /\ use' = [use EXCEPT ![Owner] = t]
  /\ pc' = [pc EXCEPT ![Owner] = "binding"]
  /\ UNCHANGED <<stack, nfin, usage, todo>>

(* bind(next): next is chained to the top, then prepared.                  *)
BindCall(t) == /\ Builds
               /\ st[t] = "new"
               /\ nxt' = [nxt EXCEPT ![t] = Top]
               /\ st' = [st EXCEPT ![t] = "preparing"]
               /\ use' = [use EXCEPT ![Owner] = t]
               /\ pc' = [pc EXCEPT ![Owner] = "binding"]
               /\ UNCHANGED <<stack, nfin, usage, todo>>

(* It becomes part of the stack unless it was only to be prepared.         *)
BindReturn(unbind_prepare_only) ==
  LET t == use[Owner]
      pushed == ~(t \in PrepareOnly /\ unbind_prepare_only)
  IN  /\ pc[Owner] = "binding"
      /\ st' = [st EXCEPT ![t] = "ready"]
      /\ comms' = IF pushed THEN Append(comms, t) ELSE comms
      /\ c' = IF pushed THEN t ELSE c
      /\ pc' = [pc EXCEPT ![Owner] = "idle"]
      /\ UNCHANGED <<closed, nxt, nfin, usage, todo, use>>

BindRaise == /\ pc[Owner] = "binding"
             /\ st' = [st EXCEPT ![use[Owner]] = "failed"]
             /\ pc' = [pc EXCEPT ![Owner] = "idle"]
             /\ UNCHANGED <<stack, nxt, nfin, usage, todo, use>>

(* unbind(): c becomes _comms[-1], and _comms is left as it is.            *)
UnbindCall == /\ Builds
              /\ comms # <<>> /\ nfin[c] < MaxUnbinds
              /\ use' = [use EXCEPT ![Owner] = c]
              /\ c' = Last(comms)
              /\ st' = [st EXCEPT ![c] = "finishing"]
              /\ nfin' = [nfin EXCEPT ![c] = nfin[c] + 1]
              /\ unbound' = unbound \cup {c}
              /\ pc' = [pc EXCEPT ![Owner] = "unbinding"]
              /\ UNCHANGED <<closed, comms, nxt, opens, shared, todo>>

UnbindDone == /\ pc[Owner] = "unbinding"
              /\ st' = [st EXCEPT ![use[Owner]] = "finished"]
              /\ pc' = [pc EXCEPT ![Owner] = "idle"]
              /\ UNCHANGED <<stack, nxt, nfin, usage, todo, use>>

(* The owner passes the finished stack on.                                 *)
Share == /\ Builds
         /\ shared' = TRUE
         /\ UNCHANGED <<stack, layers, opens, unbound, pc, todo, use>>
-----------------------------------------------------------------------------
(* request(): `self.c` is evaluated for encode and again for decode.       *)
Request(k) == /\ May(k) /\ ~closed
              /\ \E p \in {"encoding", "decoding"} : pc' = [pc EXCEPT ![k] = p]
              /\ use' = [use EXCEPT ![k] = c]
              /\ UNCHANGED <<stack, layers, usage, todo>>

EncodeReturn(k) == /\ pc[k] = "encoding"
                   /\ pc' = [pc EXCEPT ![k] = "decoding"]
                   /\ use' = [use EXCEPT ![k] = c]
                   /\ UNCHANGED <<stack, layers, usage, todo>>

RequestDone(k) == /\ pc[k] \in {"encoding", "decoding"}
                  /\ pc' = [pc EXCEPT ![k] = "idle"]
                  /\ UNCHANGED <<stack, layers, usage, todo, use>>
-----------------------------------------------------------------------------
(* close(), when the stack is done with: drop it, finish the adaptor.      *)
Release(k, where) == /\ comms' = <<>>
                     /\ c' = Adaptor
                     /\ nfin' = [nfin EXCEPT ![Adaptor] = nfin[Adaptor] + 1]
                     /\ pc' = [pc EXCEPT ![k] = where]
                     /\ todo' = [todo EXCEPT ![k] = <<>>]

(* The loop of close() over the copy of _comms, up to its next await.  s   *)
(* is what is left of the copy, life what the step made of the layers.     *)
FinishNext(k, s, life) ==
  \/ /\ s = <<>>
     /\ Release(k, "releasing")
     /\ st' = life
  \/ /\ s # <<>>
     /\ st' = [life EXCEPT ![Head(s)] = "finishing"]
     /\ nfin' = [nfin EXCEPT ![Head(s)] = nfin[Head(s)] + 1]
     /\ todo' = [todo EXCEPT ![k] = s]
     /\ pc' = [pc EXCEPT ![k] = "finishing"]
     /\ UNCHANGED <<comms, c>>

(* Faulty variant: close() does not mark the connection before it awaits.  *)
CloseCall_NoMark(k) == /\ May(k) /\ ~closed
                       /\ FinishNext(k, Reverse(comms), st)
                       /\ UNCHANGED <<closed, nxt, usage, use>>

(* Faulty variant: the layers are finished bottom up.                      *)
CloseCall_BottomUp(k) ==
  /\ May(k) /\ ~closed
  /\ closed' = TRUE
  /\ FinishNext(k, comms, st)
  /\ UNCHANGED <<nxt, usage, use>>

CloseCall(k) == /\ May(k) /\ ~closed
                /\ closed' = TRUE
                /\ FinishNext(k, Reverse(comms), st)
                /\ UNCHANGED <<nxt, usage, use>>

FinishReturn(k) ==
  /\ pc[k] = "finishing"
  /\ FinishNext(k, Tail(todo[k]), [st EXCEPT ![Head(todo[k])] = "finished"])
  /\ UNCHANGED <<closed, nxt, usage, use>>

(* Faulty variant: a failing finish is passed on without the force close.  *)
FinishRaise_NoForce(k) ==
  /\ pc[k] = "finishing"
  /\ st' = [st EXCEPT ![Head(todo[k])] = "finished"]
  /\ pc' = [pc EXCEPT ![k] = "idle"]
  /\ UNCHANGED <<stack, nxt, nfin, usage, todo, use>>

(* A finish() raised, or the task was cancelled in it: force close.        *)
FinishRaise(k) == /\ pc[k] = "finishing"
                  /\ Release(k, "forcing")
                  /\ st' = [st EXCEPT ![Head(todo[k])] = "finished"]
                  /\ UNCHANGED <<closed, nxt, usage, use>>

(* The adaptor's finish() gives the resource back before its first await,  *)
(* so it does not matter whether that await returns or raises.             *)
CloseDone(k) == /\ pc[k] \in {"releasing", "forcing"}
                /\ pc' = [pc EXCEPT ![k] = "idle"]
                /\ UNCHANGED <<stack, layers, usage, todo, use>>
-----------------------------------------------------------------------------
Build == \/ OpenCall \/ OpenReturn \/ OpenRaise
         \/ \E t \in Transformers : BindCall(t)
         \/ \E b \in BOOLEAN : BindReturn(b)
         \/ BindRaise \/ UnbindCall \/ UnbindDone \/ Share

Next == \/ Build
        \/ \E k \in Tasks :
             \/ Request(k) \/ EncodeReturn(k) \/ RequestDone(k)
             \/ CloseCall(k) \/ FinishReturn(k) \/ FinishRaise(k) \/ CloseDone(k)

Spec == Init /\ [][Next]_vars
-----------------------------------------------------------------------------
TypeOK == /\ closed \in BOOLEAN /\ shared \in BOOLEAN
          /\ comms \in Seq(Transformers)
          /\ c \in Layers
          /\ nxt \in [Transformers -> Layers]
          /\ st \in [Transformers -> Life]
          /\ nfin \in [Layers -> Nat]
          /\ opens \in 0..MaxOpens
          /\ unbound \subseteq Transformers
          /\ pc \in [Tasks -> TaskPC]
          /\ todo \in [Tasks -> Seq(Transformers)]
          /\ use \in [Tasks -> Layers]
          /\ \A k \in Tasks : todo[k] # <<>> <=> pc[k] = "finishing"

Closing(k) == pc[k] \in {"finishing", "releasing", "forcing"}

(* close() leaves nothing behind, whichever finish() of the stack failed   *)
(* and whichever task was cancelled: once no close is running, a closed    *)
(* connection has an empty stack and a finished adaptor, for each open.    *)
ClosedIsReleased ==
  closed /\ (\A k \in Tasks : ~Closing(k)) =>
    comms = <<>> /\ c = Adaptor /\ nfin[Adaptor] = opens

(* Two tasks that close at the same time do not finish anything twice.     *)
(* What unbind leaves in the stack is the one exception.                   *)
FinishedOnce == /\ \A t \in Transformers \ unbound : nfin[t] <= 1
                /\ nfin[Adaptor] <= opens

(* The stack is the chain the data take: each layer on the one below it,   *)
(* c on top, all of them prepared (but for those unbound), until a close   *)
(* begins.  Every variable keeps its type.                                 *)
ChainIsStack ==
  /\ TypeOK
  /\ \A i \in 1..Len(comms) :
       nxt[comms[i]] = IF i = 1 THEN Adaptor ELSE comms[i - 1]
  /\ ~closed => /\ c = Top
                /\ \A i \in 1..Len(comms) :
                     comms[i] \notin unbound => st[comms[i]] = "ready"

(* The layers of the stack that t writes through.                          *)
Below(t) == {comms[i] : i \in {j \in 1..Len(comms) :
                                \E k \in (j + 1)..Len(comms) : comms[k] = t}}
TopDown ==
  /\ \A t \in Transformers : closed' /\ nfin'[t] > nfin[t] =>
       /\ \A u \in Below(t) \ unbound : st[u] = "ready" /\ nfin'[u] = 0
       /\ \A u \in Transformers : t \in Below(u) => st'[u] = "finished"
  /\ nfin'[Adaptor] > nfin[Adaptor] =>
       \A t \in Transformers : st'[t] # "finishing"

(* close() finishes a layer only while everything it writes through is     *)
(* still prepared, and nothing above it is in use: top down, one by one.   *)
(* The adaptor goes last, never while a transformer's finish() is running. *)
FinishTopDown == [][TopDown]_vars

(* basic.py: `Call finish after use of read/write`.  An open connection    *)
(* does not expose a layer whose finish() was called.                      *)
ExposedNotFinished ==
  ~closed /\ c # Adaptor /\ pc[Owner] = "idle" => nfin[c] = 0
=============================================================================
