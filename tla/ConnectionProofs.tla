-------------------------- MODULE ConnectionProofs --------------------------
(***************************************************************************)
(* Proofs about Connection, for any set of transformers and tasks and any  *)
(* number of calls of open() and unbind().                                 *)
(***************************************************************************)
EXTENDS Connection, TLAPS

USE LayersAssumption, TasksAssumption, UsageAssumption

(* Who may be where: until the connection is shared only the owner does    *)
(* anything, and afterwards nobody opens, binds or unbinds.                *)
Turns ==
  /\ ~shared => \A k \in Tasks \ {Owner} : pc[k] = "idle"
  /\ \A k \in Tasks : pc[k] \in {"opening", "binding", "unbinding"} =>
       k = Owner /\ ~shared /\ (closed <=> pc[k] = "opening")
  /\ pc[Owner] = "opening" => opens < MaxOpens

(* At most one task is in close(), and the connection counts as closed.    *)
OneClose == /\ \A k \in Tasks : Closing(k) => closed
            /\ \A j, k \in Tasks : Closing(j) /\ Closing(k) => j = k

(* Before the loop of a close() is done the adaptor is due to be finished  *)
(* once, and afterwards there is nothing left.                             *)
Balance ==
  /\ closed /\ (\A k \in Tasks : pc[k] # "finishing") =>
       comms = <<>> /\ c = Adaptor /\ nfin[Adaptor] = opens
  /\ ~closed \/ (\E k \in Tasks : pc[k] = "finishing") => opens = nfin[Adaptor] + 1
  /\ ~closed => c = Top

(* The life of a layer and how often it was finished.                      *)
Lives ==
  /\ \A t \in Transformers : nfin[t] > 0 => st[t] \in {"finishing", "finished"}
  /\ \A t \in Transformers \ unbound : nfin[t] <= 1
  /\ \A t \in Transformers : st[t] = "finishing" =>
       \/ pc[Owner] = "unbinding" /\ use[Owner] = t
       \/ \E k \in Tasks : pc[k] = "finishing" /\ Head(todo[k]) = t

(* The stack: a chain of different layers, which were prepared.            *)
Chain ==
  /\ \A i, j \in 1..Len(comms) : comms[i] = comms[j] => i = j
  /\ \A i \in 1..Len(comms) :
       /\ nxt[comms[i]] = IF i = 1 THEN Adaptor ELSE comms[i - 1]
       /\ st[comms[i]] \in {"ready", "finishing", "finished"}
       /\ ~closed /\ comms[i] \notin unbound => st[comms[i]] = "ready"
  /\ pc[Owner] = "binding" =>
       /\ use[Owner] \in Transformers
       /\ st[use[Owner]] = "preparing" /\ nxt[use[Owner]] = Top
  /\ pc[Owner] = "unbinding" => use[Owner] \in unbound

(* The loop of close(): what is left of the copy is the lower part of the  *)
(* stack, top first; below its head nothing is finished, above it all is.  *)
Loop ==
  \A k \in Tasks : pc[k] = "finishing" =>
    LET n == Len(todo[k])
    IN  /\ n \in 1..Len(comms)
        /\ \A i \in 1..n : todo[k][i] = comms[n + 1 - i]
        /\ st[comms[n]] = "finishing"
        /\ \A i \in 1..n - 1 : comms[i] \notin unbound => st[comms[i]] = "ready"
        /\ \A i \in n + 1..Len(comms) : st[comms[i]] = "finished"

IInv == TypeOK /\ Turns /\ OneClose /\ Balance /\ Lives /\ Chain /\ Loop
-----------------------------------------------------------------------------
LEMMA InitIInv == Init => IInv
<1> SUFFICES ASSUME Init PROVE IInv
  OBVIOUS
<1>1. TypeOK
  <2>1. opens \in 0..MaxOpens
    BY DEF Init
  <2>2. todo \in [Tasks -> Seq(Transformers)]
    BY DEF Init
  <2>3. comms \in Seq(Transformers)
    BY DEF Init
  <2>4. QED
    BY <2>1, <2>2, <2>3 DEF Init, TypeOK, Layers, Life, TaskPC
<1>2. QED
  BY <1>1 DEF Init, IInv, Turns, OneClose, Closing, Balance, Lives, Chain, Loop, Layers

(* What Reverse makes of a stack.                                          *)
LEMMA ReverseProperties ==
  ASSUME NEW S, NEW s \in Seq(S)
  PROVE  /\ Reverse(s) \in Seq(S)
         /\ Len(Reverse(s)) = Len(s)
         /\ \A i \in 1..Len(s) : Reverse(s)[i] = s[Len(s) + 1 - i]
<1>1. Reverse(s) = [i \in 1..Len(s) |-> s[(Len(s) - i) + 1]]
  BY DEF Reverse
<1>2. \A i \in 1..Len(s) : s[(Len(s) - i) + 1] \in S
  OBVIOUS
<1>3. QED
  BY <1>1, <1>2

LEMMA TopIsLayer ==
  ASSUME TypeOK
  PROVE  Top \in Layers /\ (comms # <<>> => Top = comms[Len(comms)] /\ Top \in Transformers)
BY DEF TypeOK, Top, Last, Layers

LEMMA OpenCallStep == IInv /\ OpenCall => IInv'
<1> SUFFICES ASSUME IInv, OpenCall PROVE IInv'
  OBVIOUS
<1> USE DEF IInv, stack, layers, usage, OpenCall
<1>1. TypeOK'
  BY DEF TypeOK, Layers, Life, TaskPC, Builds
<1>2. Turns'
  BY DEF TypeOK, Turns, Builds, May
<1>3. OneClose'
  BY DEF TypeOK, Turns, OneClose, Closing, Builds, May
<1>4. Balance'
  BY DEF TypeOK, Turns, OneClose, Closing, Balance, Top, Builds, Layers, May
<1>5. Lives'
  BY DEF TypeOK, Turns, OneClose, Closing, Lives, Chain, Builds, Layers, Balance, Top
<1>6. Chain'
  BY DEF TypeOK, Turns, Chain, Builds, Top, Layers
<1>7. Loop'
  BY DEF TypeOK, Turns, OneClose, Closing, Chain, Loop, Builds, Layers
<1>8. QED
  BY <1>1, <1>2, <1>3, <1>4, <1>5, <1>6, <1>7

LEMMA OpenReturnStep == IInv /\ OpenReturn => IInv'
<1> SUFFICES ASSUME IInv, OpenReturn PROVE IInv'
  OBVIOUS
<1> USE DEF IInv, stack, layers, usage, OpenReturn
<1>1. TypeOK'
  <2>1. opens' \in 0..MaxOpens
    BY DEF TypeOK, Turns
  <2>2. pc' \in [Tasks -> TaskPC] /\ closed' \in BOOLEAN
    BY DEF TypeOK, TaskPC
  <2>3. \A k \in Tasks : todo'[k] # <<>> <=> pc'[k] = "finishing"
    BY DEF TypeOK
  <2>4. QED
    BY <2>1, <2>2, <2>3 DEF TypeOK
<1>2. Turns'
  BY DEF TypeOK, Turns, Builds, May
<1>3. OneClose'
  BY DEF TypeOK, Turns, OneClose, Closing, Builds, May
<1>4. Balance'
  BY DEF TypeOK, Turns, OneClose, Closing, Balance, Top, Builds, Layers, May
<1>5. Lives'
  BY DEF TypeOK, Turns, OneClose, Closing, Lives, Chain, Builds, Layers, Balance, Top
<1>6. Chain'
  <2>1. comms = <<>>
    BY DEF TypeOK, Turns, OneClose, Balance
  <2>2. QED
    BY <2>1 DEF TypeOK, Chain
<1>7. Loop'
  BY DEF TypeOK, Turns, OneClose, Closing, Chain, Loop, Builds, Layers
<1>8. QED
  BY <1>1, <1>2, <1>3, <1>4, <1>5, <1>6, <1>7

LEMMA OpenRaiseStep == IInv /\ OpenRaise => IInv'
<1> SUFFICES ASSUME IInv, OpenRaise PROVE IInv'
  OBVIOUS
<1> USE DEF IInv, stack, layers, usage, OpenRaise
<1>1. TypeOK'
  BY DEF TypeOK, Layers, Life, TaskPC, Builds
<1>2. Turns'
  BY DEF TypeOK, Turns, Builds, May
<1>3. OneClose'
  BY DEF TypeOK, Turns, OneClose, Closing, Builds, May
<1>4. Balance'
  BY DEF TypeOK, Turns, OneClose, Closing, Balance, Top, Builds, Layers, May
<1>5. Lives'
  BY DEF TypeOK, Turns, OneClose, Closing, Lives, Chain, Builds, Layers, Balance, Top
<1>6. Chain'
  BY DEF TypeOK, Turns, Chain, Builds, Top, Layers
<1>7. Loop'
  BY DEF TypeOK, Turns, OneClose, Closing, Chain, Loop, Builds, Layers
<1>8. QED
  BY <1>1, <1>2, <1>3, <1>4, <1>5, <1>6, <1>7

LEMMA UnbindCallStep == IInv /\ UnbindCall => IInv'
<1> SUFFICES ASSUME IInv, UnbindCall PROVE IInv'
  OBVIOUS
<1> USE DEF IInv, stack, layers, usage, UnbindCall, Last
<1>1. TypeOK'
  BY DEF TypeOK, Layers, Life, TaskPC, Builds, Balance, Top
<1>2. Turns'
  BY DEF TypeOK, Turns, Builds, May
<1>3. OneClose'
  BY DEF TypeOK, Turns, OneClose, Closing, Builds, May
<1>4. Balance'
  BY DEF TypeOK, Turns, OneClose, Closing, Balance, Top, Builds, Layers, May
<1>5. Lives'
  BY DEF TypeOK, Turns, OneClose, Closing, Lives, Chain, Builds, Layers, Balance, Top
<1>6. Chain'
  BY DEF TypeOK, Turns, Chain, Builds, Top, Layers
<1>7. Loop'
  BY DEF TypeOK, Turns, OneClose, Closing, Chain, Loop, Builds, Layers
<1>8. QED
  BY <1>1, <1>2, <1>3, <1>4, <1>5, <1>6, <1>7

LEMMA UnbindDoneStep == IInv /\ UnbindDone => IInv'
<1> SUFFICES ASSUME IInv, UnbindDone PROVE IInv'
  OBVIOUS
<1> USE DEF IInv, stack, layers, usage, UnbindDone
<1>1. TypeOK'
  BY DEF TypeOK, Layers, Life, TaskPC, Builds
<1>2. Turns'
  BY DEF TypeOK, Turns, Builds, May
<1>3. OneClose'
  BY DEF TypeOK, Turns, OneClose, Closing, Builds, May
<1>4. Balance'
  BY DEF TypeOK, Turns, OneClose, Closing, Balance, Top, Builds, Layers, May
<1>5. Lives'
  BY DEF TypeOK, Turns, OneClose, Closing, Lives, Chain, Builds, Layers, Balance, Top
<1>6. Chain'
  BY DEF TypeOK, Turns, Chain, Builds, Top, Layers
<1>7. Loop'
  BY DEF TypeOK, Turns, OneClose, Closing, Chain, Loop, Builds, Layers
<1>8. QED
  BY <1>1, <1>2, <1>3, <1>4, <1>5, <1>6, <1>7

LEMMA ShareStep == IInv /\ Share => IInv'
<1> SUFFICES ASSUME IInv, Share PROVE IInv'
  OBVIOUS
<1> USE DEF IInv, stack, layers, usage, Share
<1>1. TypeOK'
  BY DEF TypeOK, Layers, Life, TaskPC, Builds
<1>2. Turns'
  BY DEF TypeOK, Turns, Builds, May
<1>3. OneClose'
  BY DEF TypeOK, Turns, OneClose, Closing, Builds, May
<1>4. Balance'
  BY DEF TypeOK, Turns, OneClose, Closing, Balance, Top, Builds, Layers, May
<1>5. Lives'
  BY DEF TypeOK, Turns, OneClose, Closing, Lives, Chain, Builds, Layers, Balance, Top
<1>6. Chain'
  BY DEF TypeOK, Turns, Chain, Builds, Top, Layers
<1>7. Loop'
  BY DEF TypeOK, Turns, OneClose, Closing, Chain, Loop, Builds, Layers
<1>8. QED
  BY <1>1, <1>2, <1>3, <1>4, <1>5, <1>6, <1>7

LEMMA BindRaiseStep == IInv /\ BindRaise => IInv'
<1> SUFFICES ASSUME IInv, BindRaise PROVE IInv'
  OBVIOUS
<1> USE DEF IInv, stack, layers, usage, BindRaise
<1>1. TypeOK'
  BY DEF TypeOK, Layers, Life, TaskPC, Builds
<1>2. Turns'
  BY DEF TypeOK, Turns, Builds, May
<1>3. OneClose'
  BY DEF TypeOK, Turns, OneClose, Closing, Builds, May
<1>4. Balance'
  BY DEF TypeOK, Turns, OneClose, Closing, Balance, Top, Builds, Layers, May
<1>5. Lives'
  BY DEF TypeOK, Turns, OneClose, Closing, Lives, Chain, Builds, Layers, Balance, Top
<1>6. Chain'
  BY DEF TypeOK, Turns, Chain, Builds, Top, Layers
<1>7. Loop'
  BY DEF TypeOK, Turns, OneClose, Closing, Chain, Loop, Builds, Layers
<1>8. QED
  BY <1>1, <1>2, <1>3, <1>4, <1>5, <1>6, <1>7

LEMMA BindCallStep ==
  ASSUME IInv, NEW t \in Transformers, BindCall(t)
  PROVE  IInv'
<1> USE DEF IInv, stack, layers, usage, BindCall
<1>1. TypeOK'
  BY TopIsLayer DEF TypeOK, Layers, Life, TaskPC, Builds
<1>2. Turns'
  BY DEF TypeOK, Turns, Builds, May
<1>3. OneClose'
  BY DEF TypeOK, Turns, OneClose, Closing, Builds, May
<1>4. Balance'
  BY DEF TypeOK, Turns, OneClose, Closing, Balance, Top, Builds, Layers, May
<1>5. Lives'
  BY DEF TypeOK, Turns, OneClose, Closing, Lives, Chain, Builds, Layers, Balance, Top
<1>6. Chain'
  BY DEF TypeOK, Turns, Chain, Builds, Top, Layers
<1>7. Loop'
  BY DEF TypeOK, Turns, OneClose, Closing, Chain, Loop, Builds, Layers
<1>8. QED
  BY <1>1, <1>2, <1>3, <1>4, <1>5, <1>6, <1>7

LEMMA BindReturnStep ==
  ASSUME IInv, NEW b \in BOOLEAN, BindReturn(b)
  PROVE  IInv'
<1> USE DEF IInv, stack, layers, usage, BindReturn
<1> DEFINE t == use[Owner]
<1>0. t \in Transformers /\ pc' = [pc EXCEPT ![Owner] = "idle"]
      /\ st' = [st EXCEPT ![t] = "ready"]
  BY DEF Chain
<1>1. TypeOK'
  <2>1. comms' \in Seq(Transformers) /\ c' \in Layers
    BY <1>0 DEF TypeOK, Layers
  <2>2. st' \in [Transformers -> Life]
    BY <1>0 DEF TypeOK, Life
  <2>3. QED
    BY <1>0, <2>1, <2>2 DEF TypeOK, TaskPC
<1>2. Turns'
  BY DEF TypeOK, Turns, Builds, May
<1>3. OneClose'
  BY DEF TypeOK, Turns, OneClose, Closing, Builds, May
<1>4. Balance'
  <2>1. c' = Top'
    <3>1. c = Top
      BY DEF Turns, Balance
    <3>2. comms' = Append(comms, t) => Top' = t
      BY <1>0 DEF TypeOK, Top, Last
    <3>3. QED
      BY <3>1, <3>2 DEF Top, TypeOK
  <2>2. QED
    BY <1>0, <2>1 DEF TypeOK, Turns, Balance
<1>5. Lives'
  BY DEF TypeOK, Turns, OneClose, Closing, Lives, Chain, Builds, Layers, Balance, Top
<1>6. Chain'
  <2>1. \A i \in 1..Len(comms) : comms[i] # t
    BY DEF Chain
  <2>2. pc'[Owner] = "idle"
    BY <1>0 DEF TypeOK
  <2>3. CASE comms' = comms
    BY <1>0, <2>1, <2>2, <2>3 DEF TypeOK, Chain
  <2>4. CASE comms' = Append(comms, t)
    <3>1. /\ Len(comms') = Len(comms) + 1 /\ comms'[Len(comms) + 1] = t
          /\ \A i \in 1..Len(comms) : comms'[i] = comms[i]
      BY <1>0, <2>4 DEF TypeOK
    <3>2. nxt[t] = IF Len(comms) = 0 THEN Adaptor ELSE comms[Len(comms)]
      BY DEF Chain, Top, Last, TypeOK
    <3>3. \A i, j \in 1..Len(comms') : comms'[i] = comms'[j] => i = j
      <4>1. /\ \A i, j \in 1..Len(comms) : comms[i] = comms[j] => i = j
            /\ Len(comms) \in Nat
        BY DEF Chain, TypeOK
      <4>2. \A i \in 1..Len(comms') : i \in 1..Len(comms) \/ i = Len(comms) + 1
        BY <3>1, <4>1
      <4>3. QED
        BY <2>1, <3>1, <4>1, <4>2
    <3>4. QED
      BY <1>0, <2>1, <2>2, <3>1, <3>2, <3>3 DEF Chain, TypeOK
  <2>5. QED
    BY <2>3, <2>4
<1>7. Loop'
  BY DEF TypeOK, Turns, OneClose, Closing, Chain, Loop, Builds, Layers
<1>8. QED
  BY <1>1, <1>2, <1>3, <1>4, <1>5, <1>6, <1>7

LEMMA RequestStep ==
  ASSUME IInv, NEW k \in Tasks, Request(k)
  PROVE  IInv'
<1> USE DEF IInv, stack, layers, usage, Request
<1>0. PICK p \in {"encoding", "decoding"} : pc' = [pc EXCEPT ![k] = p]
  OBVIOUS
<1>1. TypeOK'
  <2>1. pc' \in [Tasks -> TaskPC] /\ use' \in [Tasks -> Layers]
    BY <1>0 DEF TypeOK, TaskPC
  <2>2. \A j \in Tasks : pc'[j] = "finishing" <=> pc[j] = "finishing"
    BY <1>0 DEF TypeOK, May
  <2>3. QED
    BY <2>1, <2>2 DEF TypeOK
<1>2. Turns'
  BY DEF TypeOK, Turns, Builds, May
<1>3. OneClose'
  BY DEF TypeOK, Turns, OneClose, Closing, Builds, May
<1>4. Balance'
  BY DEF TypeOK, Turns, OneClose, Closing, Balance, Top, Builds, Layers, May
<1>5. Lives'
  <2>1. \A j \in Tasks : pc[j] = "finishing" => pc'[j] = "finishing"
    BY <1>0 DEF TypeOK, May
  <2>2. k = Owner => pc[Owner] = "idle"
    BY DEF May
  <2>3. \A j \in Tasks : j # k => use'[j] = use[j] /\ pc'[j] = pc[j]
    BY <1>0 DEF TypeOK
  <2>4. QED
    BY <2>1, <2>2, <2>3 DEF Lives
<1>6. Chain'
  BY DEF TypeOK, Turns, Chain, Builds, Top, Layers
<1>7. Loop'
  BY DEF TypeOK, Turns, OneClose, Closing, Chain, Loop, Builds, Layers
<1>8. QED
  BY <1>1, <1>2, <1>3, <1>4, <1>5, <1>6, <1>7

LEMMA EncodeReturnStep ==
  ASSUME IInv, NEW k \in Tasks, EncodeReturn(k)
  PROVE  IInv'
<1> USE DEF IInv, stack, layers, usage, EncodeReturn
<1>1. TypeOK'
  BY DEF TypeOK, Layers, Life, TaskPC, Builds
<1>2. Turns'
  BY DEF TypeOK, Turns, Builds, May
<1>3. OneClose'
  BY DEF TypeOK, Turns, OneClose, Closing, Builds, May
<1>4. Balance'
  BY DEF TypeOK, Turns, OneClose, Closing, Balance, Top, Builds, Layers, May
<1>5. Lives'
  BY DEF TypeOK, Turns, OneClose, Closing, Lives, Chain, Builds, Layers, Balance, Top
<1>6. Chain'
  BY DEF TypeOK, Turns, Chain, Builds, Top, Layers
<1>7. Loop'
  BY DEF TypeOK, Turns, OneClose, Closing, Chain, Loop, Builds, Layers
<1>8. QED
  BY <1>1, <1>2, <1>3, <1>4, <1>5, <1>6, <1>7

LEMMA RequestDoneStep ==
  ASSUME IInv, NEW k \in Tasks, RequestDone(k)
  PROVE  IInv'
<1> USE DEF IInv, stack, layers, usage, RequestDone
<1>1. TypeOK'
  BY DEF TypeOK, Layers, Life, TaskPC, Builds
<1>2. Turns'
  BY DEF TypeOK, Turns, Builds, May
<1>3. OneClose'
  BY DEF TypeOK, Turns, OneClose, Closing, Builds, May
<1>4. Balance'
  BY DEF TypeOK, Turns, OneClose, Closing, Balance, Top, Builds, Layers, May
<1>5. Lives'
  BY DEF TypeOK, Turns, OneClose, Closing, Lives, Chain, Builds, Layers, Balance, Top
<1>6. Chain'
  BY DEF TypeOK, Turns, Chain, Builds, Top, Layers
<1>7. Loop'
  BY DEF TypeOK, Turns, OneClose, Closing, Chain, Loop, Builds, Layers
<1>8. QED
  BY <1>1, <1>2, <1>3, <1>4, <1>5, <1>6, <1>7

LEMMA CloseDoneStep ==
  ASSUME IInv, NEW k \in Tasks, CloseDone(k)
  PROVE  IInv'
<1> USE DEF IInv, stack, layers, usage, CloseDone
<1>1. TypeOK'
  BY DEF TypeOK, Layers, Life, TaskPC, Builds
<1>2. Turns'
  BY DEF TypeOK, Turns, Builds, May
<1>3. OneClose'
  BY DEF TypeOK, Turns, OneClose, Closing, Builds, May
<1>4. Balance'
  BY DEF TypeOK, Turns, OneClose, Closing, Balance, Top, Builds, Layers, May
<1>5. Lives'
  BY DEF TypeOK, Turns, OneClose, Closing, Lives, Chain, Builds, Layers, Balance, Top
<1>6. Chain'
  BY DEF TypeOK, Turns, Chain, Builds, Top, Layers
<1>7. Loop'
  BY DEF TypeOK, Turns, OneClose, Closing, Chain, Loop, Builds, Layers
<1>8. QED
  BY <1>1, <1>2, <1>3, <1>4, <1>5, <1>6, <1>7

LEMMA CloseCallStep ==
  ASSUME IInv, NEW k \in Tasks, CloseCall(k)
  PROVE  IInv'
<1> USE DEF IInv, stack, layers, usage, CloseCall
<1>0. /\ \A j \in Tasks : ~Closing(j)
      /\ pc[Owner] \notin {"opening", "binding", "unbinding"}
      /\ pc[k] = "idle"
  BY DEF May, OneClose, Turns
<1>1. CASE comms = <<>>
  <2>1. Reverse(comms) = <<>>
    <3>1. Reverse(comms) \in Seq(Transformers) /\ Len(Reverse(comms)) = 0
      BY <1>1, ReverseProperties DEF TypeOK
    <3>2. QED
      BY <3>1
  <2>2. Release(k, "releasing") /\ st' = st
    BY <2>1 DEF FinishNext
  <2>3. TypeOK'
    BY <2>2 DEF Release, TypeOK, Layers, TaskPC
  <2>0. \A j \in Tasks : pc'[j] = IF j = k THEN "releasing" ELSE pc[j]
    BY <2>2 DEF Release, TypeOK
  <2>4. Turns' /\ OneClose'
    BY <1>0, <2>0 DEF May, Turns, OneClose, Closing
  <2>7. Balance'
    BY <1>0, <1>1, <2>0, <2>2 DEF Release, TypeOK, Closing, Balance, Layers
  <2>5. Lives' /\ Chain' /\ Loop'
    BY <1>0, <1>1, <2>2 DEF Release, TypeOK, Lives, Chain, Loop, Closing, Layers
  <2>6. QED
    BY <2>3, <2>4, <2>5, <2>7
<1>2. CASE comms # <<>>
  <2> DEFINE s == Reverse(comms)
             n == Len(comms)
  <2>1. /\ s \in Seq(Transformers) /\ Len(s) = n /\ n \in Nat \ {0} /\ s # <<>>
        /\ \A i \in 1..n : s[i] = comms[n + 1 - i]
    BY <1>2, ReverseProperties DEF TypeOK
  <2>2. Head(s) = comms[n] /\ comms[n] \in Transformers
    BY <2>1 DEF TypeOK
  <2> HIDE DEF s, n
  <2>3. /\ st' = [st EXCEPT ![comms[n]] = "finishing"]
        /\ nfin' = [nfin EXCEPT ![comms[n]] = nfin[comms[n]] + 1]
        /\ todo' = [todo EXCEPT ![k] = s]
        /\ pc' = [pc EXCEPT ![k] = "finishing"]
        /\ UNCHANGED <<comms, c>>
    BY <2>1, <2>2 DEF FinishNext, s
  <2>4. TypeOK'
    BY <2>1, <2>2, <2>3 DEF TypeOK, Layers, Life, TaskPC
  <2>0. \A j \in Tasks : pc'[j] = IF j = k THEN "finishing" ELSE pc[j]
    BY <2>3 DEF TypeOK
  <2>5. Turns' /\ OneClose'
    BY <1>0, <2>0 DEF May, Turns, OneClose, Closing
  <2>6. Balance'
    BY <1>0, <2>2, <2>3 DEF TypeOK, Balance, Layers
  <2>7. Lives'
    <3>1. comms[n] \notin unbound => nfin[comms[n]] = 0
      <4>1. n \in 1..Len(comms) /\ comms[n] \in Transformers
        BY <2>1, <2>2 DEF n
      <4>2. comms[n] \notin unbound => st[comms[n]] = "ready"
        BY <4>1 DEF Chain
      <4>3. nfin[comms[n]] \in Nat
        BY <4>1 DEF TypeOK, Layers
      <4>4. QED
        BY <4>1, <4>2, <4>3 DEF Lives
    <3>2. \A t \in Transformers : st'[t] = "finishing" => t = comms[n]
      BY <1>0, <2>3 DEF TypeOK, Lives, Closing
    <3>3. pc'[k] = "finishing" /\ Head(todo'[k]) = comms[n]
      BY <2>2, <2>3 DEF TypeOK
    <3>4. \A t \in Transformers : t # comms[n] => st'[t] = st[t] /\ nfin'[t] = nfin[t]
      BY <2>2, <2>3 DEF TypeOK, Layers
    <3>5. nfin'[comms[n]] = nfin[comms[n]] + 1 /\ st'[comms[n]] = "finishing"
      BY <2>2, <2>3 DEF TypeOK, Layers
    <3>6. QED
      BY <3>1, <3>2, <3>3, <3>4, <3>5, <2>2 DEF Lives
  <2>8. Chain'
    BY <1>0, <2>2, <2>3 DEF TypeOK, Chain
  <2>9. Loop'
    <3>1. \A j \in Tasks : pc'[j] = "finishing" => j = k
      BY <1>0, <2>0 DEF Closing
    <3>2. todo'[k] = s /\ st'[comms[n]] = "finishing"
      BY <2>2, <2>3 DEF TypeOK
    <3>3. \A i \in 1..n - 1 : comms[i] \notin unbound => st'[comms[i]] = "ready"
      <4>1. \A i \in 1..n : comms[i] \notin unbound => st[comms[i]] = "ready"
        BY DEF Chain, n
      <4>2. \A i \in 1..n - 1 : comms[i] # comms[n] /\ comms[i] \in Transformers
        <5>1. /\ \A i, j \in 1..Len(comms) : comms[i] = comms[j] => i = j
              /\ \A i \in 1..Len(comms) : comms[i] \in Transformers
          BY DEF Chain, TypeOK
        <5>2. \A i \in 1..n - 1 : i \in 1..Len(comms) /\ n \in 1..Len(comms) /\ i # n
          BY <2>1 DEF n
        <5>3. QED
          BY <5>1, <5>2
      <4>3. QED
        BY <2>1, <2>3, <4>1, <4>2 DEF TypeOK
    <3>4. QED
      BY <2>1, <2>3, <3>1, <3>2, <3>3 DEF Loop, n
  <2>10. QED
    BY <2>4, <2>5, <2>6, <2>7, <2>8, <2>9
<1>3. QED
  BY <1>1, <1>2

LEMMA FinishRaiseStep ==
  ASSUME IInv, NEW k \in Tasks, FinishRaise(k)
  PROVE  IInv'
<1> USE DEF IInv, stack, layers, usage, FinishRaise, Release
<1>1. TypeOK'
  BY DEF TypeOK, Layers, Life, TaskPC, Builds
<1>2. Turns'
  BY DEF TypeOK, Turns, Builds, May
<1>3. OneClose'
  BY DEF TypeOK, Turns, OneClose, Closing, Builds, May
<1>4. Balance'
  BY DEF TypeOK, Turns, OneClose, Closing, Balance, Top, Builds, Layers, May
<1>5. Lives'
  BY DEF TypeOK, Turns, OneClose, Closing, Lives, Chain, Builds, Layers, Balance, Top
<1>6. Chain'
  BY DEF TypeOK, Turns, Chain, Builds, Top, Layers
<1>7. Loop'
  BY DEF TypeOK, Turns, OneClose, Closing, Chain, Loop, Builds, Layers
<1>8. QED
  BY <1>1, <1>2, <1>3, <1>4, <1>5, <1>6, <1>7

(* The loop of close() goes on to the next layer, or is done.              *)
LEMMA FinishReturnStep ==
  ASSUME IInv, NEW k \in Tasks, FinishReturn(k)
  PROVE  IInv'
<1> USE DEF IInv
<1> DEFINE m == Len(todo[k])
           h == comms[m]
           s == Tail(todo[k])
           life == [st EXCEPT ![h] = "finished"]
<1>1. /\ pc[k] = "finishing" /\ closed
      /\ \A j \in Tasks \ {k} : ~Closing(j)
      /\ pc[Owner] \notin {"opening", "binding", "unbinding"} \/ k = Owner
      /\ UNCHANGED <<closed, nxt, opens, unbound, shared, use>>
  BY DEF FinishReturn, OneClose, Closing, Turns, usage
<1>2. /\ m \in 1..Len(comms) /\ Len(comms) \in Nat
      /\ \A i \in 1..Len(comms) : comms[i] \in Transformers
      /\ \A i, j \in 1..Len(comms) : comms[i] = comms[j] => i = j
      /\ Head(todo[k]) = h /\ h \in Transformers
  <2>1. m \in 1..Len(comms) /\ todo[k][1] = comms[m]
    BY <1>1 DEF Loop, TypeOK
  <2>2. Head(todo[k]) = todo[k][1]
    BY <1>1 DEF TypeOK
  <2>3. QED
    BY <2>1, <2>2 DEF Chain, TypeOK
<1>3. /\ s \in Seq(Transformers) /\ Len(s) = m - 1
      /\ \A i \in 1..m - 1 : s[i] = comms[m - i]
  <2>1. /\ s \in Seq(Transformers) /\ Len(s) = m - 1
        /\ \A i \in 1..m - 1 : s[i] = todo[k][i + 1]
    BY <1>1 DEF TypeOK
  <2>2. \A i \in 1..m : todo[k][i] = comms[m + 1 - i]
    BY <1>1 DEF Loop
  <2>3. \A i \in 1..m - 1 : i + 1 \in 1..m /\ m + 1 - (i + 1) = m - i
    <3>1. m \in Nat
      BY <1>2
    <3> HIDE DEF m, IInv
    <3>2. QED
      BY <3>1
  <2>4. \A i \in 1..m - 1 : todo[k][i + 1] = comms[m - i]
    <3>1. SUFFICES ASSUME NEW i \in 1..m - 1 PROVE todo[k][i + 1] = comms[m - i]
      OBVIOUS
    <3>2. todo[k][i + 1] = comms[m + 1 - (i + 1)]
      BY <2>2, <2>3
    <3>3. QED
      BY <2>3, <3>2
  <2>5. QED
    BY <2>1, <2>4
<1>4. FinishNext(k, s, life)
  BY <1>2 DEF FinishReturn
<1>5. /\ \A i \in 1..m - 1 : comms[i] \notin unbound => st[comms[i]] = "ready"
      /\ \A i \in m + 1..Len(comms) : st[comms[i]] = "finished"
  BY <1>1 DEF Loop
<1>6. \A t \in Transformers : st[t] = "finishing" => t = h
  BY <1>1, <1>2 DEF Lives, Closing
<1>7. /\ life \in [Transformers -> Life]
      /\ \A t \in Transformers : life[t] = IF t = h THEN "finished" ELSE st[t]
  BY <1>2 DEF TypeOK, Life
<1> HIDE DEF m, h, s, life
<1>8. CASE s = <<>>
  <2>1. Release(k, "releasing") /\ st' = life
    BY <1>4, <1>8 DEF FinishNext
  <2>2. \A j \in Tasks : pc'[j] = IF j = k THEN "releasing" ELSE pc[j]
    BY <2>1 DEF Release, TypeOK
  <2>3. TypeOK'
    BY <1>1, <1>7, <2>1 DEF Release, TypeOK, Layers, TaskPC
  <2>4. Turns' /\ OneClose'
    BY <1>1, <2>2 DEF Turns, OneClose, Closing
  <2>5. Balance'
    BY <1>1, <2>1, <2>2 DEF Release, TypeOK, Closing, Balance, Layers
  <2>6. Lives'
    BY <1>1, <1>2, <1>6, <1>7, <2>1 DEF Release, TypeOK, Lives, Layers
  <2>7. Chain' /\ Loop'
    BY <1>1, <2>1, <2>2 DEF Release, Chain, Loop, Closing
  <2>8. QED
    BY <2>3, <2>4, <2>5, <2>6, <2>7
<1>9. CASE s # <<>>
  <2> DEFINE g == comms[m - 1]
  <2>1. /\ m - 1 \in 1..Len(comms) /\ Head(s) = g /\ g \in Transformers /\ g # h
    <3>1. m - 1 \in 1..Len(comms)
      BY <1>2, <1>3, <1>9
    <3>2. Head(s) = s[1] /\ s[1] = g
      BY <1>2, <1>3, <1>9, <3>1
    <3>3. QED
      BY <1>2, <3>1, <3>2 DEF h
  <2> HIDE DEF g
  <2>2. /\ st' = [life EXCEPT ![g] = "finishing"]
        /\ nfin' = [nfin EXCEPT ![g] = nfin[g] + 1]
        /\ todo' = [todo EXCEPT ![k] = s]
        /\ pc' = [pc EXCEPT ![k] = "finishing"]
        /\ UNCHANGED <<comms, c>>
    BY <1>4, <1>9, <2>1 DEF FinishNext
  <2>3. /\ \A t \in Transformers : st'[t] = IF t = g THEN "finishing" ELSE
                                              IF t = h THEN "finished" ELSE st[t]
        /\ \A l \in Layers : nfin'[l] = IF l = g THEN nfin[l] + 1 ELSE nfin[l]
        /\ g \in Layers
    BY <1>7, <2>1, <2>2 DEF TypeOK, Layers
  <2>4. pc' = pc
    BY <1>1, <2>2 DEF TypeOK
  <2>5. TypeOK'
    <3>1. st' \in [Transformers -> Life] /\ nfin' \in [Layers -> Nat]
      <4>1. nfin[g] + 1 \in Nat
        BY <2>3 DEF TypeOK
      <4>2. QED
        BY <1>7, <2>2, <4>1 DEF TypeOK, Life
    <3>2. /\ todo' \in [Tasks -> Seq(Transformers)]
          /\ \A j \in Tasks : todo'[j] # <<>> <=> pc'[j] = "finishing"
      BY <1>1, <1>3, <1>9, <2>2, <2>4 DEF TypeOK
    <3>3. QED
      BY <1>1, <2>2, <2>4, <3>1, <3>2 DEF TypeOK
  <2>6. Turns' /\ OneClose'
    BY <1>1, <2>4 DEF Turns, OneClose, Closing
  <2>7. Balance'
    BY <1>1, <2>1, <2>2, <2>3, <2>4 DEF Balance, Layers
  <2>8. Lives'
    <3>1. g \notin unbound => nfin[g] = 0
      <4>1. g \notin unbound => st[g] = "ready"
        BY <1>2, <1>5, <2>1 DEF g
      <4>2. nfin[g] \in Nat
        BY <2>3 DEF TypeOK
      <4>3. QED
        BY <2>1, <4>1, <4>2 DEF Lives
    <3>2. pc'[k] = "finishing" /\ Head(todo'[k]) = g
      BY <2>1, <2>2 DEF TypeOK
    <3>3. \A t \in Transformers : t \in Layers
      BY DEF Layers
    <3>4. QED
      BY <1>1, <1>6, <2>3, <3>1, <3>2, <3>3 DEF Lives
  <2>9. Chain'
    BY <1>1, <1>2, <2>1, <2>2, <2>3, <2>4 DEF Chain
  <2>10. Loop'
    <3>1. todo'[k] = s /\ \A j \in Tasks : pc'[j] = "finishing" => j = k
      BY <1>1, <2>2, <2>4 DEF TypeOK, Closing
    <3>2. st'[comms[m - 1]] = "finishing"
      BY <2>1, <2>3 DEF g
    <3>3. \A i \in 1..m - 2 : comms[i] \notin unbound => st'[comms[i]] = "ready"
      BY <1>2, <1>5, <2>1, <2>3 DEF g, h
    <3>4. \A i \in m..Len(comms) : st'[comms[i]] = "finished"
      BY <1>2, <1>5, <2>1, <2>3 DEF g, h
    <3>5. QED
      BY <1>1, <1>2, <1>3, <2>1, <2>2, <3>1, <3>2, <3>3, <3>4 DEF Loop
  <2>11. QED
    BY <2>5, <2>6, <2>7, <2>8, <2>9, <2>10
<1>10. QED
  BY <1>8, <1>9

(* Every step keeps the invariant.                                         *)
LEMMA StepIInv == IInv /\ [Next]_vars => IInv'
<1> SUFFICES ASSUME IInv, [Next]_vars PROVE IInv'
  OBVIOUS
<1>1. CASE Build
  BY <1>1, OpenCallStep, OpenReturnStep, OpenRaiseStep, BindCallStep,
    BindReturnStep, BindRaiseStep, UnbindCallStep, UnbindDoneStep, ShareStep
  DEF Build
<1>2. ASSUME NEW k \in Tasks,
             \/ Request(k) \/ EncodeReturn(k) \/ RequestDone(k)
             \/ CloseCall(k) \/ FinishReturn(k) \/ FinishRaise(k) \/ CloseDone(k)
      PROVE  IInv'
  BY <1>2, RequestStep, EncodeReturnStep, RequestDoneStep, CloseCallStep,
    FinishReturnStep, FinishRaiseStep, CloseDoneStep
<1>3. CASE UNCHANGED vars
  BY <1>3 DEF vars, IInv, TypeOK, Turns, OneClose, Closing, Balance, Top,
    Lives, Chain, Loop
<1>4. QED
  BY <1>1, <1>2, <1>3 DEF Next

(* The inductive invariant holds in every reachable state.                 *)
THEOREM ConnectionInvariance == Spec => []IInv
<1>1. QED
  BY InitIInv, StepIInv, PTL DEF Spec

(* Connection.close() leaves nothing behind: a closed connection that no   *)
(* task is closing any more has given its adaptor back once per open().    *)
THEOREM Released == Spec => []ClosedIsReleased
<1>1. IInv => ClosedIsReleased
  BY DEF IInv, ClosedIsReleased, Balance, Closing
<1>2. QED
  BY <1>1, ConnectionInvariance, PTL

(* Concurrent calls of close() finish no layer twice, but for those that   *)
(* unbind() left in the stack.                                             *)
THEOREM Once == Spec => []FinishedOnce
<1>1. IInv => FinishedOnce
  <2>1. SUFFICES ASSUME IInv PROVE nfin[Adaptor] <= opens
    BY DEF IInv, Lives, FinishedOnce
  <2>2. nfin[Adaptor] \in Nat
    BY <2>1 DEF IInv, TypeOK, Layers
  <2>3. QED
    BY <2>1, <2>2 DEF IInv, Balance
<1>2. QED
  BY <1>1, ConnectionInvariance, PTL

(* What bind() and close() keep: the stack is the chain of the layers.     *)
THEOREM Chained == Spec => []ChainIsStack
<1>1. IInv => ChainIsStack
  BY DEF IInv, ChainIsStack, Balance, Chain
<1>2. QED
  BY <1>1, ConnectionInvariance, PTL

(* Where the layers below the i-th of the stack are.                       *)
LEMMA BelowPosition ==
  ASSUME TypeOK, Chain, NEW i \in 1..Len(comms)
  PROVE  /\ \A u \in Below(comms[i]) : \E j \in 1..i - 1 : u = comms[j]
         /\ \A u : comms[i] \in Below(u) => \E j \in i + 1..Len(comms) : u = comms[j]
<1>1. Len(comms) \in Nat
  BY DEF TypeOK
<1>2. \A j, k \in 1..Len(comms) : comms[j] = comms[k] => j = k
  BY DEF Chain
<1>3. ASSUME NEW u \in Below(comms[i])
      PROVE  \E j \in 1..i - 1 : u = comms[j]
  <2>1. PICK j \in 1..Len(comms) :
          u = comms[j] /\ \E k \in (j + 1)..Len(comms) : comms[k] = comms[i]
    BY <1>3 DEF Below
  <2>2. PICK k \in (j + 1)..Len(comms) : comms[k] = comms[i]
    BY <2>1
  <2>3. k = i
    BY <1>1, <1>2, <2>1, <2>2
  <2>4. j \in 1..i - 1
    BY <1>1, <2>2, <2>3
  <2>5. QED
    BY <2>1, <2>4
<1>4. ASSUME NEW u, comms[i] \in Below(u)
      PROVE  \E j \in i + 1..Len(comms) : u = comms[j]
  <2>1. PICK j \in 1..Len(comms) :
          comms[i] = comms[j] /\ \E k \in (j + 1)..Len(comms) : comms[k] = u
    BY <1>4 DEF Below
  <2>2. i = j
    BY <1>2, <2>1
  <2>3. QED
    BY <2>1, <2>2
<1>5. QED
  BY <1>3, <1>4

LEMMA StackType ==
  ASSUME TypeOK
  PROVE  /\ Len(comms) \in Nat
         /\ \A j \in 1..Len(comms) : comms[j] \in Transformers
BY DEF TypeOK

(* A step that finishes the i-th layer, when those below it are as they    *)
(* were after bind() and those above it are finished, goes top down.       *)
LEMMA FinishOneIsTopDown ==
  ASSUME IInv, NEW i \in 1..Len(comms), IInv',
         \A t \in Transformers : nfin'[t] > nfin[t] => t = comms[i],
         nfin'[Adaptor] = nfin[Adaptor],
         \A j \in 1..i - 1 : comms[j] \notin unbound =>
            st[comms[j]] = "ready" /\ st'[comms[j]] = "ready",
         \A j \in i + 1..Len(comms) : st'[comms[j]] = "finished"
  PROVE  TopDown
<1>1. Len(comms) \in Nat /\ \A j \in 1..Len(comms) : comms[j] \in Transformers
  BY StackType DEF IInv
<1>2. \A t \in Transformers : nfin'[t] \in Nat
  BY DEF IInv, TypeOK, Layers
<1>3. nfin[Adaptor] \in Nat
  BY DEF IInv, TypeOK, Layers
<1>4. ASSUME NEW u \in Below(comms[i]) \ unbound
      PROVE  st[u] = "ready" /\ nfin'[u] = 0
  <2>1. PICK j \in 1..i - 1 : u = comms[j]
    BY <1>4, BelowPosition DEF IInv
  <2>2. u \in Transformers /\ st[u] = "ready" /\ st'[u] = "ready"
    BY <1>1, <1>4, <2>1
  <2>3. QED
    BY <1>2, <2>2 DEF IInv, Lives
<1>5. ASSUME NEW u \in Transformers, comms[i] \in Below(u)
      PROVE  st'[u] = "finished"
  BY <1>5, BelowPosition DEF IInv
<1>6. QED
  BY <1>3, <1>4, <1>5 DEF TopDown

(* The same, for a step into the finish() of a layer in close().            *)
LEMMA FinishNextIsTopDown ==
  ASSUME IInv, IInv', NEW k \in Tasks,
         UNCHANGED <<comms, unbound>>,
         pc'[k] = "finishing",
         NEW h \in Transformers, h = comms[Len(todo'[k])],
         nfin' = [nfin EXCEPT ![h] = nfin[h] + 1],
         \A j \in 1..Len(todo'[k]) - 1 : comms[j] \notin unbound => st[comms[j]] = "ready"
  PROVE  TopDown
<1> DEFINE i == Len(todo'[k])
<1>1. /\ i \in 1..Len(comms)
      /\ \A j \in 1..i - 1 : comms[j] \notin unbound => st'[comms[j]] = "ready"
      /\ \A j \in i + 1..Len(comms) : st'[comms[j]] = "finished"
  BY DEF IInv, Loop
<1>2. /\ \A t \in Transformers : nfin'[t] > nfin[t] => t = h
      /\ nfin'[Adaptor] = nfin[Adaptor]
  <2>1. \A l \in Layers : l # h => nfin'[l] = nfin[l]
    BY DEF IInv, TypeOK, Layers
  <2>2. \A l \in Layers : nfin[l] \in Nat
    BY DEF IInv, TypeOK
  <2>3. QED
    BY <2>1, <2>2 DEF Layers
<1>3. QED
  BY <1>1, <1>2, FinishOneIsTopDown

(* A step that releases the adaptor, when nothing is left in its finish(). *)
LEMMA ReleaseIsTopDown ==
  ASSUME IInv, NEW k \in Tasks, NEW p, Release(k, p),
         \A t \in Transformers : st'[t] # "finishing"
  PROVE  TopDown
<1>1. \A t \in Transformers : nfin'[t] = nfin[t] /\ nfin[t] \in Nat
  BY DEF Release, IInv, TypeOK, Layers
<1>2. QED
  BY <1>1 DEF TopDown

(* Nothing but close() finishes a layer of a closed connection.            *)
LEMMA OthersAreTopDown ==
  ASSUME IInv, nfin' = nfin \/ (~closed' /\ nfin'[Adaptor] = nfin[Adaptor])
  PROVE  TopDown
<1>1. \A l \in Layers : nfin[l] \in Nat
  BY DEF IInv, TypeOK
<1>2. QED
  BY <1>1 DEF TopDown, Layers

LEMMA TopDownStep == IInv /\ [Next]_vars => [TopDown]_vars
<1> SUFFICES ASSUME IInv, Next PROVE TopDown
  OBVIOUS
<1>0. IInv'
  BY StepIInv
<1>1. ASSUME NEW k \in Tasks, CloseCall(k) PROVE TopDown
  <2>1. /\ \A j \in Tasks : ~Closing(j)
        /\ pc[Owner] # "unbinding"
        /\ ~closed /\ UNCHANGED unbound
    BY <1>1 DEF CloseCall, May, IInv, OneClose, Turns, usage
  <2>2. \A t \in Transformers : st[t] # "finishing"
    BY <2>1 DEF IInv, Lives, Closing
  <2>3. CASE Reverse(comms) = <<>>
    BY <1>1, <2>2, <2>3, ReleaseIsTopDown DEF CloseCall, FinishNext
  <2>4. CASE Reverse(comms) # <<>>
    <3> DEFINE h == Head(Reverse(comms))
    <3>1. /\ nfin' = [nfin EXCEPT ![h] = nfin[h] + 1]
          /\ todo' = [todo EXCEPT ![k] = Reverse(comms)]
          /\ pc' = [pc EXCEPT ![k] = "finishing"]
          /\ UNCHANGED comms
      BY <1>1, <2>4 DEF CloseCall, FinishNext
    <3>2. /\ Reverse(comms) \in Seq(Transformers)
          /\ Len(Reverse(comms)) = Len(comms) /\ Len(comms) \in Nat
          /\ \A i \in 1..Len(comms) : Reverse(comms)[i] = comms[Len(comms) + 1 - i]
      BY ReverseProperties DEF IInv, TypeOK
    <3>3. h = comms[Len(comms)] /\ h \in Transformers
      BY <2>4, <3>2
    <3>4. todo'[k] = Reverse(comms) /\ pc'[k] = "finishing"
      BY <3>1 DEF IInv, TypeOK
    <3>5. \A j \in 1..Len(comms) : comms[j] \notin unbound => st[comms[j]] = "ready"
      BY <2>1 DEF IInv, Chain
    <3>6. /\ \A j \in 1..Len(todo'[k]) - 1 : comms[j] \notin unbound => st[comms[j]] = "ready"
          /\ h = comms[Len(todo'[k])]
      BY <3>2, <3>3, <3>4, <3>5
    <3> HIDE DEF h
    <3>7. QED
      BY <1>0, <2>1, <3>1, <3>3, <3>4, <3>6, FinishNextIsTopDown
  <2>5. QED
    BY <2>3, <2>4
<1>2. ASSUME NEW k \in Tasks, FinishReturn(k) PROVE TopDown
  <2> DEFINE m == Len(todo[k])
             g == Head(todo[k])
             s == Tail(todo[k])
  <2>1. /\ pc[k] = "finishing" /\ pc[Owner] # "unbinding"
        /\ \A j \in Tasks \ {k} : pc[j] # "finishing"
        /\ UNCHANGED unbound
    BY <1>2 DEF FinishReturn, IInv, OneClose, Closing, Turns, usage
  <2>2. FinishNext(k, s, [st EXCEPT ![g] = "finished"])
    BY <1>2 DEF FinishReturn
  <2>3. \A t \in Transformers : t # g => st[t] # "finishing"
    BY <2>1 DEF IInv, Lives
  <2>4. CASE s = <<>>
    <3>1. Release(k, "releasing") /\ st' = [st EXCEPT ![g] = "finished"]
      BY <2>2, <2>4 DEF FinishNext
    <3>2. \A t \in Transformers : st'[t] # "finishing"
      BY <2>3, <3>1 DEF IInv, TypeOK
    <3>3. QED
      BY <3>1, <3>2, ReleaseIsTopDown
  <2>5. CASE s # <<>>
    <3> DEFINE h == Head(s)
    <3>1. /\ nfin' = [nfin EXCEPT ![h] = nfin[h] + 1]
          /\ todo' = [todo EXCEPT ![k] = s]
          /\ pc' = [pc EXCEPT ![k] = "finishing"]
          /\ UNCHANGED comms
      BY <2>2, <2>5 DEF FinishNext
    <3>2. todo'[k] = s /\ pc'[k] = "finishing"
      BY <3>1 DEF IInv, TypeOK
    <3>3. s \in Seq(Transformers) /\ Len(s) = m - 1 /\ m \in Nat /\ m - 1 > 0
      BY <2>1, <2>5 DEF IInv, TypeOK
    <3>4. h = comms[Len(s)] /\ h \in Transformers
      <4>1. h = s[1] /\ h \in Transformers
        BY <2>5, <3>3
      <4>2. s[1] = comms[Len(s) + 1 - 1]
        <5>1. \A i \in 1..m : todo[k][i] = comms[m + 1 - i]
          BY <2>1 DEF IInv, Loop
        <5>2. s[1] = todo[k][2]
          BY <2>1, <3>3 DEF IInv, TypeOK
        <5> HIDE DEF m, s
        <5>3. 2 \in 1..m /\ m + 1 - 2 = Len(s) + 1 - 1
          BY <3>3
        <5>4. QED
          BY <5>1, <5>2, <5>3
      <4>3. QED
        BY <3>3, <4>1, <4>2
    <3>5. \A j \in 1..m - 1 : comms[j] \notin unbound => st[comms[j]] = "ready"
      BY <2>1 DEF IInv, Loop
    <3>6. /\ \A j \in 1..Len(todo'[k]) - 1 : comms[j] \notin unbound => st[comms[j]] = "ready"
          /\ h = comms[Len(todo'[k])]
      BY <3>2, <3>3, <3>4, <3>5
    <3> HIDE DEF h, s
    <3>7. QED
      BY <1>0, <2>1, <3>1, <3>2, <3>4, <3>6, FinishNextIsTopDown
  <2>6. QED
    BY <2>4, <2>5
<1>3. ASSUME NEW k \in Tasks, FinishRaise(k) PROVE TopDown
  <2>1. /\ pc[k] = "finishing" /\ pc[Owner] # "unbinding"
        /\ \A j \in Tasks \ {k} : pc[j] # "finishing"
    BY <1>3 DEF FinishRaise, IInv, OneClose, Closing, Turns
  <2>2. \A t \in Transformers : t # Head(todo[k]) => st[t] # "finishing"
    BY <2>1 DEF IInv, Lives
  <2>3. \A t \in Transformers : st'[t] # "finishing"
    BY <1>3, <2>2 DEF FinishRaise, IInv, TypeOK
  <2>4. QED
    BY <1>3, <2>3, ReleaseIsTopDown DEF FinishRaise
<1>4. CASE UnbindCall
  <2>1. c \in Transformers /\ ~closed'
    BY <1>4, TopIsLayer DEF UnbindCall, Builds, IInv, Balance
  <2>2. nfin'[Adaptor] = nfin[Adaptor]
    BY <1>4, <2>1 DEF UnbindCall, IInv, TypeOK, Layers
  <2>3. QED
    BY <2>1, <2>2, OthersAreTopDown
<1>5. CASE OpenCall \/ OpenReturn \/ OpenRaise \/ BindRaise \/ UnbindDone \/ Share
  BY <1>5, OthersAreTopDown DEF OpenCall, OpenReturn, OpenRaise, BindRaise,
    UnbindDone, Share, layers
<1>6. ASSUME NEW t \in Transformers, BindCall(t) PROVE TopDown
  BY <1>6, OthersAreTopDown DEF BindCall
<1>7. ASSUME NEW b \in BOOLEAN, BindReturn(b) PROVE TopDown
  BY <1>7, OthersAreTopDown DEF BindReturn
<1>8. ASSUME NEW k \in Tasks, Request(k) \/ EncodeReturn(k) \/ RequestDone(k) \/ CloseDone(k)
      PROVE  TopDown
  BY <1>8, OthersAreTopDown DEF Request, EncodeReturn, RequestDone, CloseDone, layers
<1>9. QED
  BY <1>1, <1>2, <1>3, <1>4, <1>5, <1>6, <1>7, <1>8 DEF Next, Build

(* close() finishes each layer while all below it is still prepared and    *)
(* after all above it, and the adaptor last.                               *)
THEOREM TopDownAlways == Spec => FinishTopDown
<1>1. QED
  BY TopDownStep, ConnectionInvariance, PTL DEF Spec, FinishTopDown
=============================================================================
