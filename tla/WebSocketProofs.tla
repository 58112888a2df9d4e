-------------------------- MODULE WebSocketProofs ---------------------------
(***************************************************************************)
(* Proofs about WebSocketProcessor, for any number of connections, openers *)
(* and senders, of calls of send() and of pieces of a frame; and about the *)
(* frames and messages of WebSocketFrames, as MCWebSocket has them, for    *)
(* any number of frames and payloads of any lengths.                       *)
(***************************************************************************)
EXTENDS MCWebSocket, SequenceTheorems, TLAPS

(***************************************************************************)
(* The frames on the stream of one connection.                             *)
(***************************************************************************)
LEMMA Sizes == Lengths \subseteq Nat /\ MaxFrames \in Nat
  BY FramesAssumption DEF Frames!Assumed

(* The frames and the parts of a stream.                                   *)
Frame == [op : Frames!Data \cup Frames!Control \cup {"continuation"}, fin : BOOLEAN,
          len : Nat, masked : BOOLEAN, id : Nat]
Portion == [part : {"head", "length", "key", "payload"}, width : Nat,
            value : Frame \cup Nat]

(* What decode() finds where encode() has put a frame.                     *)
Short(n) == n <= 126
Long(n) == 126 < n /\ n <= 65535
Huge(n) == n > 65535
Before(f) == IF Short(f.len) THEN 1 ELSE 2
Parts(f) == Before(f) + (IF f.masked THEN 2 ELSE 1)
Fits(f) == f.len <= 65535 /\ f.len # 126

(* s[a + 1] to s[b], and the numbers a + 1 to b.                           *)
Slice(s, a, b) == [i \in 1..(b - a) |-> s[a + i]]
Ids(a, b) == [i \in 1..(b - a) |-> a + i]

(* Frames keep their numbers.  Unless a control frame came inside one, a   *)
(* message begins with an opcode of its own.                               *)
Numbered ==
  /\ sent \in Seq(Frame) /\ inside \in BOOLEAN /\ mixed \in BOOLEAN
  /\ Len(sent) <= MaxFrames
  /\ \A i \in 1..Len(sent) : sent[i].id = i
  /\ ~mixed => /\ inside <=> Len(sent) > 0 /\ ~sent[Len(sent)].fin
               /\ \A i \in 1..Len(sent) : sent[i].op = "continuation"
                                            => i > 1 /\ ~sent[i - 1].fin

(* Frame i of those not received is between at[i - 1] and at[i].           *)
OnWire(at) ==
  /\ at \in [Len(received)..Len(sent) -> 0..Len(stream)]
  /\ at[Len(received)] = 0 /\ at[Len(sent)] = Len(stream)
  /\ \A i, j \in Len(received)..Len(sent) : i <= j => at[i] <= at[j]
  /\ \A i \in Len(received) + 1..Len(sent) :
       /\ at[i] = at[i - 1] + Parts(sent[i])
       /\ \A j \in 1..Parts(sent[i]) : stream[at[i - 1] + j] = Frames!Encode(sent[i])[j]

Coded == /\ stream \in Seq(Portion)
         /\ received \in Seq(Frame) /\ Len(received) <= Len(sent)
         /\ \A i \in 1..Len(received) : received[i] = sent[i]
         /\ \E at : OnWire(at)
         /\ loop \in {"reading", "handling", "failed", "lost", "ended"}
         /\ loop \in {"failed", "lost"} => \E i \in 1..Len(sent) : ~Fits(sent[i])

(* A message is the frames a + 1 to b of fs, and only the last has fin.    *)
Whole(fs, a, b) == a < b /\ fs[b].fin /\ \A i \in a + 1..b - 1 : ~fs[i].fin
Message(fs, a, b) == [op |-> fs[a + 1].op, ids |-> Ids(a, b)]

(* Message k, of those delivered (dl) and those in tasks (tk), is the      *)
(* frames from cut[k - 1] + 1 to cut[k].                                   *)
Cuts(fs, cut, dl, tk) ==
  /\ cut \in [0..Len(dl) + Len(tk) -> 0..Len(fs)] /\ cut[0] = 0
  /\ \A k \in 1..Len(dl) + Len(tk) : Whole(fs, cut[k - 1], cut[k])
  /\ \A k \in 1..Len(dl) : dl[k] = Message(fs, cut[k - 1], cut[k])
  /\ \A k \in 1..Len(tk) : tk[k] = Slice(fs, cut[Len(dl) + k - 1], cut[Len(dl) + k])

(* The last of them ends with frame b.                                     *)
CutsTo(fs, cut, dl, tk, b) == Cuts(fs, cut, dl, tk) /\ cut[Len(dl) + Len(tk)] = b

CutUp(cut) ==
  \E b \in 0..Len(received) :
    /\ CutsTo(received, cut, delivered, tasks, b)
    /\ frames = Slice(received, b, Len(received))
    /\ \A i \in b + 1..Len(received) : ~received[i].fin

HandlerCall == [op : Frames!Data \cup Frames!Control \cup {"continuation"}, ids : Seq(Nat)]

Gathered == /\ left \in BOOLEAN /\ async \in BOOLEAN /\ func \in BOOLEAN
            /\ delivered \in Seq(HandlerCall)
            /\ tasks \in Seq(Seq(Frame)) /\ frames \in Seq(Frame)
            /\ ~async => tasks = <<>>
            /\ \E cut : CutUp(cut)

FramesInv == Numbered /\ Coded /\ Gathered
-----------------------------------------------------------------------------
LEMMA Widths ==
  ASSUME NEW n \in Nat
  PROVE  /\ Short(n) \/ Long(n) \/ Huge(n)
         /\ Short(n) => ~Long(n) /\ ~Huge(n)
         /\ Long(n) => ~Huge(n)
         /\ Frames!Code(n) \in Nat
         /\ Short(n) => Frames!Code(n) = n
         /\ Long(n) => Frames!Code(n) = 126
         /\ Huge(n) <=> Frames!Code(n) = 127
<1>1. Long(n) <=> (126 < n /\ n <= 65535)
  BY DEF Long
<1>2. CASE n <= 126
  <2>1. Frames!Code(n) = n
    BY <1>2 DEF Frames!Code
  <2>2. Short(n) /\ ~Long(n) /\ ~Huge(n)
    BY <1>1, <1>2 DEF Short, Huge
  <2>3. n # 127
    BY <1>2
  <2>4. QED
    BY <2>1, <2>2, <2>3
<1>3. CASE 126 < n /\ n <= 65535
  <2>1. Frames!Code(n) = 126
    BY <1>3 DEF Frames!Code
  <2>2. ~Short(n) /\ Long(n) /\ ~Huge(n)
    BY <1>1, <1>3 DEF Short, Huge
  <2>3. QED
    BY <2>1, <2>2
<1>4. CASE n > 65535
  <2>1. Frames!Code(n) = 127
    BY <1>4 DEF Frames!Code
  <2>2. ~Short(n) /\ ~Long(n) /\ Huge(n)
    BY <1>1, <1>4 DEF Short, Huge
  <2>3. QED
    BY <2>1, <2>2
<1>5. QED
  BY <1>2, <1>3, <1>4

LEMMA ThreeWays ==
  ASSUME NEW A \in BOOLEAN, NEW B \in BOOLEAN, NEW C \in BOOLEAN, NEW x, NEW y, NEW z
  PROVE  /\ A /\ ~B /\ ~C => (CASE A -> x [] B -> y [] C -> z) = x
         /\ B /\ ~A /\ ~C => (CASE A -> x [] B -> y [] C -> z) = y
         /\ C /\ ~A /\ ~B => (CASE A -> x [] B -> y [] C -> z) = z
  BY Zenon

LEMMA Single ==
  ASSUME NEW S, NEW x \in S
  PROVE  <<x>> \in Seq(S) /\ Len(<<x>>) = 1 /\ <<x>>[1] = x
  OBVIOUS

Chained(h, m, k, p, a, b, z) ==
  a = <<h>> \o m /\ b = a \o k /\ z = b \o <<p>>

Linked(S, h, m, k, p, z) ==
  /\ z \in Seq(S) /\ Len(z) = 2 + Len(m) + Len(k)
  /\ z[1] = h /\ z[2 + Len(m) + Len(k)] = p
  /\ Len(m) = 1 => z[2] = m[1]
  /\ Len(k) = 1 => z[2 + Len(m)] = k[1]

LEMMA ChainIs ==
  ASSUME NEW S, NEW h \in S, NEW p \in S, NEW m \in Seq(S), NEW k \in Seq(S),
         Len(m) <= 1, Len(k) <= 1,
         NEW a, NEW b, NEW z, Chained(h, m, k, p, a, b, z)
  PROVE  Linked(S, h, m, k, p, z)
<1>0. a = <<h>> \o m /\ b = a \o k /\ z = b \o <<p>>
  BY Zenon DEF Chained
<1>1. PICK hs \in Seq(S) : hs = <<h>> /\ Len(hs) = 1 /\ hs[1] = h
  <2>1. <<h>> \in Seq(S)
    OBVIOUS
  <2>2. QED
    BY <2>1
<1>2. PICK ps \in Seq(S) : ps = <<p>> /\ Len(ps) = 1 /\ ps[1] = p
  <2>1. <<p>> \in Seq(S)
    OBVIOUS
  <2>2. QED
    BY <2>1
<1>3. PICK x \in 0..1 : x = Len(m)
  <2>1. PICK n \in Nat : n = Len(m)
    BY LenProperties
  <2>2. n \in 0..1
    BY <2>1
  <2>3. QED
    BY <2>1, <2>2
<1>4. PICK y \in 0..1 : y = Len(k)
  <2>1. PICK n \in Nat : n = Len(k)
    BY LenProperties
  <2>2. n \in 0..1
    BY <2>1
  <2>3. QED
    BY <2>1, <2>2
<1>5. /\ a \in Seq(S) /\ Len(a) = 1 + x
      /\ a[1] = h /\ (x = 1 => a[2] = m[1])
  <2>1. /\ hs \o m \in Seq(S) /\ Len(hs \o m) = 1 + x
        /\ \A i \in 1..1 + x : (hs \o m)[i] = IF i <= 1 THEN hs[i] ELSE m[i - 1]
    BY <1>1, <1>3, ConcatProperties
  <2>2. 1 \in 1..1 + x /\ (x = 1 => 2 \in 1..1 + x /\ ~(2 <= 1) /\ 2 - 1 = 1)
    BY <1>3
  <2>3. (hs \o m)[1] = h /\ (x = 1 => (hs \o m)[2] = m[1])
    BY <1>1, <2>1, <2>2
  <2>4. a = hs \o m
    BY <1>0, <1>1, Zenon
  <2>5. QED
    BY <2>1, <2>3, <2>4, Zenon
<1>6. /\ b \in Seq(S) /\ Len(b) = 1 + x + y
      /\ b[1] = h /\ (x = 1 => b[2] = m[1]) /\ (y = 1 => b[2 + x] = k[1])
  <2>1. /\ a \o k \in Seq(S) /\ Len(a \o k) = 1 + x + y
        /\ \A i \in 1..1 + x + y : (a \o k)[i] = IF i <= 1 + x THEN a[i] ELSE k[i - (1 + x)]
    BY <1>4, <1>5, ConcatProperties
  <2>2. /\ 1 \in 1..1 + x + y /\ 1 <= 1 + x
        /\ x = 1 => 2 \in 1..1 + x + y /\ 2 <= 1 + x
        /\ y = 1 => 2 + x \in 1..1 + x + y /\ ~(2 + x <= 1 + x) /\ 2 + x - (1 + x) = 1
    BY <1>3, <1>4
  <2>3. /\ (a \o k)[1] = h /\ (x = 1 => (a \o k)[2] = m[1])
        /\ (y = 1 => (a \o k)[2 + x] = k[1])
    BY <1>5, <2>1, <2>2
  <2>4. QED
    BY <1>0, <2>1, <2>3, Zenon
<1>7. /\ z \in Seq(S) /\ Len(z) = 2 + x + y
      /\ z[1] = h /\ (x = 1 => z[2] = m[1]) /\ (y = 1 => z[2 + x] = k[1])
      /\ z[2 + x + y] = p
  <2>1. /\ b \o ps \in Seq(S) /\ Len(b \o ps) = 2 + x + y
        /\ \A i \in 1..2 + x + y :
             (b \o ps)[i] = IF i <= 1 + x + y THEN b[i] ELSE ps[i - (1 + x + y)]
    BY <1>2, <1>3, <1>4, <1>6, ConcatProperties
  <2>2. /\ 1 \in 1..2 + x + y /\ 1 <= 1 + x + y
        /\ x = 1 => 2 \in 1..2 + x + y /\ 2 <= 1 + x + y
        /\ y = 1 => 2 + x \in 1..2 + x + y /\ 2 + x <= 1 + x + y
        /\ 2 + x + y \in 1..2 + x + y /\ ~(2 + x + y <= 1 + x + y)
        /\ 2 + x + y - (1 + x + y) = 1
    BY <1>3, <1>4
  <2>3. /\ (b \o ps)[1] = h /\ (x = 1 => (b \o ps)[2] = m[1])
        /\ (y = 1 => (b \o ps)[2 + x] = k[1]) /\ (b \o ps)[2 + x + y] = p
    <3>1. (b \o ps)[1] = h /\ (x = 1 => (b \o ps)[2] = m[1])
      BY <1>6, <2>1, <2>2
    <3>2. y = 1 => (b \o ps)[2 + x] = k[1]
      BY <1>6, <2>1, <2>2
    <3>3. (b \o ps)[2 + x + y] = p
      <4>1. PICK i \in 1..2 + x + y : /\ i = 2 + x + y /\ ~(i <= 1 + x + y)
                                      /\ i - (1 + x + y) = 1
        BY <2>2
      <4>2. (b \o ps)[i] = IF i <= 1 + x + y THEN b[i] ELSE ps[i - (1 + x + y)]
        BY <2>1, Zenon
      <4>3. QED
        BY <1>2, <4>1, <4>2, Zenon
    <3>4. QED
      BY <3>1, <3>2, <3>3
  <2>4. z = b \o ps
    BY <1>0, <1>2, Zenon
  <2>5. QED
    BY <2>1, <2>3, <2>4, Zenon
<1>8. QED
  BY <1>3, <1>4, <1>7 DEF Linked

LEMMA EncodeIs ==
  ASSUME NEW f \in Frame
  PROVE  /\ Frames!Encode(f) \in Seq(Portion) /\ Len(Frames!Encode(f)) = Parts(f)
         /\ Parts(f) \in Nat /\ Parts(f) >= 2 /\ Before(f) \in 1..2
         /\ Frames!Encode(f)[1] = Frames!Part("head", 2, [f EXCEPT !.len = Frames!Code(f.len)])
         /\ Long(f.len) => Frames!Encode(f)[2] = Frames!Part("length", 2, f.len)
         /\ f.masked => Frames!Encode(f)[Before(f) + 1] = Frames!Part("key", 4, f.id)
         /\ Frames!Encode(f)[Parts(f)] = Frames!Part("payload", f.len, f.id)
<1>1. PICK n \in Nat : n = f.len
  BY DEF Frame
<1>2. /\ f.id \in Nat /\ f.masked \in BOOLEAN
      /\ [f EXCEPT !.len = Frames!Code(n)] \in Frame
  BY Widths DEF Frame
<1> DEFINE h == Frames!Part("head", 2, [f EXCEPT !.len = Frames!Code(n)])
           short == Frames!Part("length", 2, n)
           long == Frames!Part("length", 8, n)
           key == Frames!Part("key", 4, f.id)
           m == CASE Short(n) -> <<>> [] Long(n) -> <<short>> [] Huge(n) -> <<long>>
           k == IF f.masked THEN <<key>> ELSE <<>>
           p == Frames!Part("payload", n, f.id)
<1>3. Frames!Encode(f) = <<h>> \o m \o k \o <<p>>
  BY <1>1 DEF Frames!Encode, Short, Long, Huge
<1>4. /\ h \in Portion /\ p \in Portion /\ short \in Portion /\ long \in Portion
      /\ key \in Portion
  BY <1>2 DEF Frames!Part, Portion
<1>5. /\ h = Frames!Part("head", 2, [f EXCEPT !.len = Frames!Code(f.len)])
      /\ p = Frames!Part("payload", f.len, f.id)
      /\ short = Frames!Part("length", 2, f.len) /\ key = Frames!Part("key", 4, f.id)
  BY <1>1
<1> HIDE DEF h, short, long, key, p
<1>6. /\ Short(n) => m = <<>>
      /\ Long(n) => m = <<short>>
      /\ Huge(n) => m = <<long>>
  <2>1. /\ Short(n) \in BOOLEAN /\ Long(n) \in BOOLEAN /\ Huge(n) \in BOOLEAN
    BY DEF Short, Long, Huge
  <2>2. /\ Short(n) => ~Long(n) /\ ~Huge(n)
        /\ Long(n) => ~Short(n) /\ ~Huge(n)
        /\ Huge(n) => ~Short(n) /\ ~Long(n)
    BY Widths
  <2>3. QED
    BY <2>1, <2>2, ThreeWays, Zenon
<1>7. /\ f.masked => k = <<key>>
      /\ ~f.masked => k = <<>>
  OBVIOUS
<1> HIDE DEF m, k
<1>8. PICK x \in 0..1 : /\ m \in Seq(Portion) /\ Len(m) = x
                        /\ x = (IF Short(n) THEN 0 ELSE 1)
                        /\ Long(n) => m[1] = short
  <2>1. CASE Short(n)
    <3>1. m \in Seq(Portion) /\ Len(m) = 0 /\ ~Long(n)
      BY <1>6, <2>1, EmptySeq, Widths
    <3>2. QED
      BY <2>1, <3>1
  <2>2. CASE Long(n)
    <3>1. m = <<short>> /\ ~Short(n)
      BY <1>6, <2>2, Widths
    <3>2. m \in Seq(Portion) /\ Len(m) = 1 /\ m[1] = short
      BY <1>4, <3>1, Single, Zenon
    <3>3. QED
      BY <3>1, <3>2
  <2>3. CASE Huge(n)
    <3>1. m = <<long>> /\ ~Short(n) /\ ~Long(n)
      BY <1>6, <2>3, Widths
    <3>2. m \in Seq(Portion) /\ Len(m) = 1
      BY <1>4, <3>1, Single, Zenon
    <3>3. QED
      BY <3>1, <3>2
  <2>4. QED
    BY <2>1, <2>2, <2>3, Widths
<1>9. PICK y \in 0..1 : /\ k \in Seq(Portion) /\ Len(k) = y
                        /\ y = (IF f.masked THEN 1 ELSE 0)
                        /\ f.masked => k[1] = key
  <2>1. CASE f.masked
    <3>1. k = <<key>>
      BY <1>7, <2>1
    <3>2. k \in Seq(Portion) /\ Len(k) = 1 /\ k[1] = key
      BY <1>4, <3>1, Single, Zenon
    <3>3. QED
      BY <2>1, <3>2
  <2>2. CASE ~f.masked
    <3>1. k \in Seq(Portion) /\ Len(k) = 0
      BY <1>7, <2>2, EmptySeq
    <3>2. QED
      BY <2>2, <3>1
  <2>3. QED
    BY <2>1, <2>2
<1>10. PICK b \in 1..2 : b = 1 + x /\ b = Before(f)
  <2>1. 1 + x \in 1..2 /\ 1 + x = Before(f)
    BY <1>1, <1>8 DEF Before
  <2>2. QED
    BY <2>1
<1>11. PICK c \in Nat : c = 2 + x + y /\ c = Parts(f) /\ c >= 2
  <2>1. 2 + x + y \in Nat /\ 2 + x + y = Parts(f) /\ 2 + x + y >= 2
    BY <1>9, <1>10 DEF Parts
  <2>2. QED
    BY <2>1
<1>12. PICK u, v, e : u = <<h>> \o m /\ v = u \o k /\ e = v \o <<p>>
  OBVIOUS
<1>13. /\ e \in Seq(Portion) /\ Len(e) = 2 + x + y
       /\ e[1] = h /\ e[2 + x + y] = p
       /\ x = 1 => e[2] = m[1]
       /\ y = 1 => e[2 + x] = k[1]
  <2>1. Len(m) <= 1 /\ Len(k) <= 1
    BY <1>8, <1>9
  <2>2. /\ e \in Seq(Portion) /\ Len(e) = 2 + Len(m) + Len(k)
        /\ e[1] = h /\ e[2 + Len(m) + Len(k)] = p
        /\ Len(m) = 1 => e[2] = m[1]
        /\ Len(k) = 1 => e[2 + Len(m)] = k[1]
    <3>1. Chained(h, m, k, p, u, v, e)
      BY <1>12, Zenon DEF Chained
    <3>2. h \in Portion /\ p \in Portion /\ m \in Seq(Portion) /\ k \in Seq(Portion)
      BY <1>4, <1>8, <1>9
    <3>3. Linked(Portion, h, m, k, p, e)
      BY <2>1, <3>1, <3>2, ChainIs
    <3>4. QED
      BY <3>3 DEF Linked
  <2>3. QED
    BY <1>8, <1>9, <2>2, Zenon
<1>14. e = Frames!Encode(f)
  BY <1>3, <1>12, Zenon
<1>15. Long(f.len) => e[2] = short
  BY <1>1, <1>8, <1>13, Widths
<1>16. f.masked => e[b + 1] = key
  <2>1. b + 1 = 2 + x
    BY <1>10
  <2>2. QED
    BY <1>9, <1>13, <2>1
<1>17. e[c] = p /\ Len(e) = c
  BY <1>11, <1>13
<1>18. QED
  BY <1>5, <1>10, <1>11, <1>13, <1>14, <1>15, <1>16, <1>17, Zenon

(* The stream begins with the parts of a frame.                            *)
Begins(f) == /\ stream \in Seq(Portion) /\ Parts(f) <= Len(stream)
             /\ \A j \in 1..Parts(f) : stream[j] = Frames!Encode(f)[j]

HeadOf(f) == [f EXCEPT !.len = Frames!Code(f.len)]

LEMMA Counts ==
  ASSUME NEW f \in Frame
  PROVE  /\ Before(f) \in 1..2 /\ Parts(f) \in Nat /\ Parts(f) >= 2
         /\ Short(f.len) => Before(f) = 1
         /\ ~Short(f.len) => Before(f) = 2 /\ Parts(f) >= 3
         /\ f.masked => Parts(f) = Before(f) + 2
         /\ ~f.masked => Parts(f) = Before(f) + 1
<1>1. Before(f) \in 1..2
  BY DEF Before
<1>2. f.masked \in BOOLEAN
  BY DEF Frame
<1>3. QED
  BY <1>1, <1>2 DEF Before, Parts

(* What decode() looks at when a frame begins the stream.                  *)
LEMMA PartsFound ==
  ASSUME NEW f \in Frame, Begins(f)
  PROVE  /\ stream[1].value = HeadOf(f)
         /\ stream[1].value.len = Frames!Code(f.len) /\ stream[1].value.masked = f.masked
         /\ Long(f.len) => /\ stream[2].part = "length" /\ stream[2].width = 2
                           /\ stream[2].value = f.len
         /\ f.masked => /\ stream[Before(f) + 1].part = "key"
                        /\ stream[Before(f) + 1].width = 4
         /\ /\ stream[Parts(f)].part = "payload" /\ stream[Parts(f)].width = f.len
            /\ stream[Parts(f)].value = f.id
<1>1. /\ 1 \in 1..Parts(f) /\ 2 \in 1..Parts(f) /\ Parts(f) \in 1..Parts(f)
      /\ f.masked => Before(f) + 1 \in 1..Parts(f)
  BY Counts
<1>2. PICK h : /\ h = [f EXCEPT !.len = Frames!Code(f.len)]
               /\ h.len = Frames!Code(f.len) /\ h.masked = f.masked
  <2>1. /\ [f EXCEPT !.len = Frames!Code(f.len)].len = Frames!Code(f.len)
        /\ [f EXCEPT !.len = Frames!Code(f.len)].masked = f.masked
    BY DEF Frame
  <2>2. QED
    BY <2>1, Zenon
<1>3. stream[1] = Frames!Part("head", 2, h)
  BY <1>1, <1>2, EncodeIs, Zenon DEF Begins
<1>4. Long(f.len) => stream[2] = Frames!Part("length", 2, f.len)
  BY <1>1, EncodeIs, Zenon DEF Begins
<1>5. f.masked => stream[Before(f) + 1] = Frames!Part("key", 4, f.id)
  BY <1>1, EncodeIs, Zenon DEF Begins
<1>6. stream[Parts(f)] = Frames!Part("payload", f.len, f.id)
  BY <1>1, EncodeIs, Zenon DEF Begins
<1>7. stream[1].value = h
  BY <1>3 DEF Frames!Part
<1>8. Long(f.len) => /\ stream[2].part = "length" /\ stream[2].width = 2
                     /\ stream[2].value = f.len
  BY <1>4 DEF Frames!Part
<1>9. f.masked => /\ stream[Before(f) + 1].part = "key"
                  /\ stream[Before(f) + 1].width = 4
  BY <1>5 DEF Frames!Part
<1>10. /\ stream[Parts(f)].part = "payload" /\ stream[Parts(f)].width = f.len
       /\ stream[Parts(f)].value = f.id
  BY <1>6 DEF Frames!Part
<1>11. QED
  BY <1>2, <1>7, <1>8, <1>9, <1>10, Zenon DEF HeadOf

(* decode() takes a frame for what it is when its length is one that       *)
(* encode() and decode() agree on, and takes nothing else for a frame.     *)
LEMMA TakesTheParts ==
  ASSUME NEW f \in Frame, Begins(f)
  PROVE  /\ stream[1].value.len = 127 <=> Huge(f.len)
         /\ Fits(f) => Frames!PartsTaken = Parts(f)
         /\ Frames!PartsTaken > 0 /\ stream[1].value.len # 127 => Fits(f)
         /\ Frames!Payload(stream[1].value, Parts(f)) = f
<1>1. PICK n \in Nat : n = f.len
  BY DEF Frame
<1>2. stream[1].value.len = Frames!Code(n) /\ stream[1].value.masked = f.masked
  BY <1>1, PartsFound
<1>3. /\ f.masked \in BOOLEAN /\ Len(stream) \in Nat
      /\ Parts(f) \in Nat /\ Parts(f) <= Len(stream)
  BY Counts, LenProperties DEF Frame, Begins
<1>4. Frames!Payload(stream[1].value, Parts(f)) = f
  <2>1. [[f EXCEPT !.len = Frames!Code(f.len)] EXCEPT !.len = f.len, !.id = f.id] = f
    BY DEF Frame
  <2>2. QED
    BY <2>1, PartsFound, Zenon DEF Frames!Payload, HeadOf
<1>5. stream[1].value.len = 127 <=> Huge(n)
  BY <1>2, Widths
<1>6. CASE Short(n) /\ n # 126
  <2>1. Frames!Code(n) = n /\ n # 126 /\ Before(f) = 1 /\ Fits(f)
    BY <1>1, <1>6, Widths DEF Before, Fits, Short
  <2>2. Frames!PartsTaken = Parts(f)
    <3>1. CASE f.masked
      <4>1. /\ Parts(f) = 3 /\ 3 <= Len(stream)
            /\ stream[2].part = "key" /\ stream[2].width = 4
            /\ stream[3].part = "payload" /\ stream[3].width = n
        BY <1>1, <1>3, <2>1, <3>1, PartsFound, Counts
      <4>2. QED
        BY <1>2, <1>3, <2>1, <3>1, <4>1, SMTT(60)
          DEF Frames!PartsTaken, Frames!Expect
    <3>2. CASE ~f.masked
      <4>1. /\ Parts(f) = 2 /\ 2 <= Len(stream)
            /\ stream[2].part = "payload" /\ stream[2].width = n
        BY <1>1, <1>3, <2>1, <3>2, PartsFound, Counts
      <4>2. QED
        BY <1>2, <1>3, <2>1, <3>2, <4>1, SMTT(60)
          DEF Frames!PartsTaken, Frames!Expect
    <3>3. QED
      BY <3>1, <3>2
  <2>3. QED
    BY <1>1, <1>4, <1>5, <2>1, <2>2
<1>7. CASE n = 126
  <2>1. Frames!Code(n) = 126 /\ Before(f) = 1 /\ ~Fits(f)
    BY <1>1, <1>7, Widths DEF Before, Fits, Short
  <2>2. stream[2].part # "length"
    <3>1. CASE f.masked
      BY <2>1, <3>1, PartsFound, Counts
    <3>2. CASE ~f.masked
      BY <2>1, <3>2, PartsFound, Counts
    <3>3. QED
      BY <3>1, <3>2
  <2>3. Frames!PartsTaken = 0
    BY <1>2, <2>1, <2>2, SMTT(60)
          DEF Frames!PartsTaken, Frames!Expect
  <2>4. QED
    BY <1>1, <1>4, <1>5, <2>1, <2>3
<1>8. CASE Long(n)
  <2>1. Frames!Code(n) = 126 /\ Before(f) = 2 /\ Fits(f)
    <3>1. Fits(f)
      BY <1>1, <1>8 DEF Fits, Long
    <3>2. Frames!Code(n) = 126 /\ ~Short(n)
      BY <1>8, Widths
    <3>3. QED
      BY <1>1, <3>1, <3>2, Counts
  <2>2. stream[2].part = "length" /\ stream[2].width = 2 /\ stream[2].value = n
    BY <1>1, <1>8, PartsFound
  <2>3. Frames!PartsTaken = Parts(f)
    <3>1. CASE f.masked
      <4>1. /\ Parts(f) = 4 /\ 4 <= Len(stream)
            /\ stream[3].part = "key" /\ stream[3].width = 4
            /\ stream[4].part = "payload" /\ stream[4].width = n
        BY <1>1, <1>3, <2>1, <3>1, PartsFound, Counts
      <4>2. QED
        BY <1>2, <1>3, <2>1, <2>2, <3>1, <4>1, SMTT(60)
          DEF Frames!PartsTaken, Frames!Expect
    <3>2. CASE ~f.masked
      <4>1. /\ Parts(f) = 3 /\ 3 <= Len(stream)
            /\ stream[3].part = "payload" /\ stream[3].width = n
        BY <1>1, <1>3, <2>1, <3>2, PartsFound, Counts
      <4>2. QED
        BY <1>2, <1>3, <2>1, <2>2, <3>2, <4>1, SMTT(60)
          DEF Frames!PartsTaken, Frames!Expect
    <3>3. QED
      BY <3>1, <3>2
  <2>4. QED
    BY <1>1, <1>4, <1>5, <2>1, <2>3
<1>9. CASE Huge(n)
  <2>1. ~Fits(f)
    BY <1>1, <1>9 DEF Huge, Fits
  <2>2. QED
    BY <1>1, <1>4, <1>5, <1>9, <2>1
<1>10. QED
  BY <1>6, <1>7, <1>8, <1>9, Widths
-----------------------------------------------------------------------------
LEMMA Appended ==
  ASSUME NEW S, NEW s \in Seq(S), NEW x \in S
  PROVE  /\ Append(s, x) \in Seq(S) /\ Len(Append(s, x)) = Len(s) + 1
         /\ \A i \in 1..Len(s) : Append(s, x)[i] = s[i]
         /\ Append(s, x)[Len(s) + 1] = x
  OBVIOUS

LEMMA SliceIs ==
  ASSUME NEW S, NEW s \in Seq(S), NEW a \in Nat, NEW b \in Nat, a <= b, b <= Len(s)
  PROVE  /\ Slice(s, a, b) \in Seq(S) /\ Len(Slice(s, a, b)) = b - a
         /\ \A i \in 1..b - a : Slice(s, a, b)[i] = s[a + i]
<1>1. \A i \in 1..b - a : s[a + i] \in S
  <2>1. \A i \in 1..b - a : a + i \in 1..Len(s)
    BY LenProperties
  <2>2. QED
    BY <2>1, ElementOfSeq
<1>2. b - a \in Nat
  OBVIOUS
<1>3. QED
  BY <1>1, <1>2 DEF Slice

LEMMA SliceKept ==
  ASSUME NEW S, NEW s \in Seq(S), NEW x \in S,
         NEW a \in Nat, NEW b \in Nat, a <= b, b <= Len(s)
  PROVE  Slice(Append(s, x), a, b) = Slice(s, a, b)
<1>1. \A i \in 1..b - a : a + i \in 1..Len(s)
  BY LenProperties
<1>2. \A i \in 1..b - a : Append(s, x)[a + i] = s[a + i]
  BY <1>1, Appended
<1>3. QED
  BY <1>2, Zenon DEF Slice

LEMMA SliceGrows ==
  ASSUME NEW S, NEW s \in Seq(S), NEW x \in S, NEW a \in Nat, a <= Len(s)
  PROVE  Append(Slice(s, a, Len(s)), x) = Slice(Append(s, x), a, Len(s) + 1)
<1>1. PICK n \in Nat : n = Len(s) /\ a <= n
  BY LenProperties
<1>2. PICK t \in Seq(S) : /\ t = Append(s, x) /\ Len(t) = n + 1
                          /\ \A i \in 1..n : t[i] = s[i]
                          /\ t[n + 1] = x
  BY <1>1, Appended
<1>3. PICK u \in Seq(S) : /\ u = Slice(s, a, n) /\ Len(u) = n - a
                          /\ \A i \in 1..n - a : u[i] = s[a + i]
  <2>1. /\ Slice(s, a, n) \in Seq(S) /\ Len(Slice(s, a, n)) = n - a
        /\ \A i \in 1..n - a : Slice(s, a, n)[i] = s[a + i]
    <3>1. a <= n /\ n <= Len(s)
      BY <1>1
    <3>2. QED
      BY <3>1, SliceIs
  <2>2. QED
    BY <2>1, Zenon
<1>4. PICK v \in Seq(S) : /\ v = Append(u, x) /\ Len(v) = n - a + 1
                          /\ \A i \in 1..n - a : v[i] = u[i]
                          /\ v[n - a + 1] = x
  <2>1. /\ Append(u, x) \in Seq(S) /\ Len(Append(u, x)) = n - a + 1
        /\ \A i \in 1..n - a : Append(u, x)[i] = u[i]
        /\ Append(u, x)[n - a + 1] = x
    <3>1. /\ Append(u, x) \in Seq(S) /\ Len(Append(u, x)) = Len(u) + 1
          /\ \A i \in 1..Len(u) : Append(u, x)[i] = u[i]
          /\ Append(u, x)[Len(u) + 1] = x
      BY Appended
    <3>2. QED
      BY <1>3, <3>1
  <2>2. QED
    BY <2>1, Zenon
<1>5. PICK w \in Seq(S) : /\ w = Slice(t, a, n + 1) /\ Len(w) = n + 1 - a
                          /\ \A i \in 1..n + 1 - a : w[i] = t[a + i]
  <2>1. PICK b \in Nat : b = n + 1 /\ a <= b /\ b <= Len(t)
    BY <1>1, <1>2
  <2>2. /\ Slice(t, a, b) \in Seq(S) /\ Len(Slice(t, a, b)) = b - a
        /\ \A i \in 1..b - a : Slice(t, a, b)[i] = t[a + i]
    BY <2>1, SliceIs
  <2>3. /\ Slice(t, a, n + 1) \in Seq(S) /\ Len(Slice(t, a, n + 1)) = n + 1 - a
        /\ \A i \in 1..n + 1 - a : Slice(t, a, n + 1)[i] = t[a + i]
    BY <2>1, <2>2
  <2>4. QED
    BY <2>3, Zenon
<1>6. v = w
  <2>1. Len(v) = Len(w)
    BY <1>1, <1>4, <1>5
  <2>2. ASSUME NEW i \in 1..Len(v)
        PROVE  v[i] = w[i]
    <3>1. i \in 1..n + 1 - a
      BY <1>1, <1>4
    <3>2. CASE i <= n - a
      <4>1. i \in 1..n - a /\ a + i \in 1..n
        BY <1>1, <3>1, <3>2
      <4>2. v[i] = s[a + i] /\ w[i] = s[a + i]
        BY <1>2, <1>3, <1>4, <1>5, <3>1, <4>1
      <4>3. QED
        BY <4>2
    <3>3. CASE i = n - a + 1
      <4>1. a + i = n + 1
        BY <1>1, <3>3
      <4>2. QED
        BY <1>2, <1>4, <1>5, <3>1, <3>3, <4>1
    <3>4. i <= n - a \/ i = n - a + 1
      BY <1>1, <3>1
    <3>5. QED
      BY <3>2, <3>3, <3>4
  <2>3. QED
    BY <2>1, <2>2, SeqEqual
<1>7. QED
  BY <1>1, <1>2, <1>3, <1>4, <1>5, <1>6
-----------------------------------------------------------------------------
LEMMA FramesBegin == Frames!Init => FramesInv
<1> SUFFICES ASSUME Frames!Init PROVE FramesInv
  OBVIOUS
<1>1. /\ sent = <<>> /\ inside = FALSE /\ mixed = FALSE /\ stream = <<>>
      /\ loop = "reading" /\ received = <<>> /\ left = FALSE
      /\ async \in BOOLEAN /\ func \in BOOLEAN
      /\ frames = <<>> /\ tasks = <<>> /\ delivered = <<>>
  BY DEF Frames!Init
<1>2. /\ \A S : <<>> \in Seq(S)
      /\ Len(<<>>) = 0
  OBVIOUS
<1>3. Numbered
  <2>1. sent \in Seq(Frame) /\ Len(sent) = 0 /\ Len(sent) <= MaxFrames
    BY <1>1, <1>2, Sizes
  <2>2. (\A i : i \notin 1..Len(sent)) /\ ~(Len(sent) > 0)
    BY <2>1
  <2>3. inside = FALSE /\ mixed = FALSE
    BY <1>1
  <2>4. QED
    BY <2>1, <2>2, <2>3, Zenon DEF Numbered
<1>4. Coded
  <2>1. OnWire([i \in 0..0 |-> 0])
    BY <1>1, <1>2 DEF OnWire
  <2>2. QED
    BY <1>1, <1>2, <2>1 DEF Coded
<1>5. Gathered
  <2>1. CutUp([k \in 0..0 |-> 0])
    <3>1. Slice(<<>>, 0, 0) = <<>>
      BY DEF Slice
    <3>2. QED
      BY <1>1, <1>2, <3>1 DEF CutUp, CutsTo, Cuts
  <2>2. QED
    BY <1>1, <1>2, <2>1 DEF Gathered
<1>6. QED
  BY <1>3, <1>4, <1>5 DEF FramesInv
-----------------------------------------------------------------------------
LEMMA Joined ==
  ASSUME NEW S, NEW s \in Seq(S), NEW t \in Seq(S)
  PROVE  /\ s \o t \in Seq(S) /\ Len(s \o t) = Len(s) + Len(t)
         /\ \A i \in 1..Len(s) : (s \o t)[i] = s[i]
         /\ \A j \in 1..Len(t) : (s \o t)[Len(s) + j] = t[j]
<1>1. /\ s \o t \in Seq(S) /\ Len(s \o t) = Len(s) + Len(t)
      /\ \A i \in 1..Len(s) + Len(t) : (s \o t)[i] = IF i <= Len(s) THEN s[i] ELSE t[i - Len(s)]
  BY ConcatProperties
<1>2. PICK m \in Nat, n \in Nat : m = Len(s) /\ n = Len(t)
  BY LenProperties
<1>3. ASSUME NEW i \in 1..Len(s) PROVE (s \o t)[i] = s[i]
  BY <1>1, <1>2
<1>4. ASSUME NEW j \in 1..Len(t) PROVE (s \o t)[Len(s) + j] = t[j]
  <2>1. /\ Len(s) + j \in 1..Len(s) + Len(t) /\ ~(Len(s) + j <= Len(s))
        /\ Len(s) + j - Len(s) = j
    BY <1>2
  <2>2. (s \o t)[Len(s) + j] = t[Len(s) + j - Len(s)]
    BY <1>1, <2>1
  <2>3. QED
    BY <2>1, <2>2
<1>5. QED
  BY <1>1, <1>3, <1>4

LEMMA SendKeepsInv ==
  ASSUME FramesInv, NEW op \in Frames!Data \cup Frames!Control \cup {"continuation"},
         NEW fin \in BOOLEAN, NEW masked \in BOOLEAN, NEW len \in Lengths,
         Frames!SendFrame(op, fin, len, masked)
  PROVE  FramesInv'
<1>1. PICK n \in Nat, r \in Nat, w \in Nat :
        n = Len(sent) /\ r = Len(received) /\ w = Len(stream) /\ r <= n /\ n < MaxFrames
  <2>1. sent \in Seq(Frame) /\ received \in Seq(Frame) /\ stream \in Seq(Portion)
    BY DEF FramesInv, Numbered, Coded
  <2>2. Len(received) <= Len(sent) /\ Len(sent) < MaxFrames
    BY DEF FramesInv, Coded, Frames!SendFrame
  <2>3. QED
    BY <2>1, <2>2, LenProperties
<1>2. PICK f : /\ f = [op |-> op, fin |-> fin, len |-> len, masked |-> masked, id |-> n + 1]
               /\ f \in Frame /\ f.op = op /\ f.fin = fin /\ f.id = n + 1
  <2>1. len \in Nat /\ n + 1 \in Nat
    BY <1>1, Sizes
  <2>2. [op |-> op, fin |-> fin, len |-> len, masked |-> masked, id |-> n + 1] \in Frame
    BY <2>1 DEF Frame
  <2>3. QED
    BY <2>2
<1>3. /\ op \in Frames!Data => ~inside
      /\ op = "continuation" => inside
      /\ op \in Frames!Control => fin
      /\ sent' = Append(sent, f)
      /\ inside' = IF op \in Frames!Control THEN inside ELSE ~fin
      /\ mixed' = (mixed \/ (inside /\ op \in Frames!Control))
      /\ stream' = stream \o Frames!Encode(f)
      /\ UNCHANGED <<loop, received, left, async, func, frames, tasks, delivered>>
  BY <1>1, <1>2 DEF Frames!SendFrame, Frames!handler
<1>4. /\ sent' \in Seq(Frame) /\ Len(sent') = n + 1
      /\ \A i \in 1..n : sent'[i] = sent[i]
      /\ sent'[n + 1] = f
  BY <1>1, <1>2, <1>3, Appended DEF FramesInv, Numbered
<1>5. /\ stream' \in Seq(Portion) /\ Len(stream') = w + Parts(f)
      /\ \A i \in 1..w : stream'[i] = stream[i]
      /\ \A j \in 1..Parts(f) : stream'[w + j] = Frames!Encode(f)[j]
  <2>1. /\ stream \in Seq(Portion) /\ Frames!Encode(f) \in Seq(Portion)
        /\ Len(Frames!Encode(f)) = Parts(f)
    BY <1>2, EncodeIs DEF FramesInv, Coded
  <2>2. /\ stream' \in Seq(Portion) /\ Len(stream') = Len(stream) + Len(Frames!Encode(f))
        /\ \A i \in 1..Len(stream) : stream'[i] = stream[i]
        /\ \A j \in 1..Len(Frames!Encode(f)) : stream'[Len(stream) + j] = Frames!Encode(f)[j]
    <3>1. PICK s \in Seq(Portion), t \in Seq(Portion) : s = stream /\ t = Frames!Encode(f)
      BY <2>1, Zenon
    <3>2. stream' = s \o t
      BY <1>3, <3>1, Zenon
    <3>3. /\ s \o t \in Seq(Portion) /\ Len(s \o t) = Len(s) + Len(t)
          /\ \A i \in 1..Len(s) : (s \o t)[i] = s[i]
          /\ \A j \in 1..Len(t) : (s \o t)[Len(s) + j] = t[j]
      BY Joined
    <3>4. QED
      BY <3>1, <3>2, <3>3
  <2>3. QED
    BY <1>1, <2>1, <2>2
<1>6. Numbered'
  <2>1. Len(sent') <= MaxFrames
    BY <1>1, <1>4, Sizes
  <2>2. inside' \in BOOLEAN /\ mixed' \in BOOLEAN
    BY <1>3 DEF FramesInv, Numbered
  <2>3. ASSUME NEW i \in 1..Len(sent') PROVE sent'[i].id = i
    <3>1. CASE i = n + 1
      BY <1>2, <1>4, <3>1
    <3>2. CASE i # n + 1
      <4>1. i \in 1..n
        BY <1>1, <1>4, <3>2
      <4>2. QED
        BY <1>1, <1>4, <4>1 DEF FramesInv, Numbered
    <3>3. QED
      BY <3>1, <3>2
  <2>4. ASSUME ~mixed'
        PROVE  /\ inside' <=> Len(sent') > 0 /\ ~sent'[Len(sent')].fin
               /\ \A i \in 1..Len(sent') : sent'[i].op = "continuation"
                                             => i > 1 /\ ~sent'[i - 1].fin
    <3>1. ~mixed /\ ~(inside /\ op \in Frames!Control)
      BY <1>3, <2>4
    <3>2. /\ inside <=> n > 0 /\ ~sent[n].fin
          /\ \A i \in 1..n : sent[i].op = "continuation" => i > 1 /\ ~sent[i - 1].fin
      BY <1>1, <3>1 DEF FramesInv, Numbered
    <3>3. sent'[Len(sent')] = f /\ Len(sent') > 0
      BY <1>1, <1>4
    <3>4. inside' <=> ~fin
      <4>1. CASE op \in Frames!Control
        BY <1>3, <3>1, <4>1 DEF FramesInv, Numbered
      <4>2. CASE op \notin Frames!Control
        BY <1>3, <4>2
      <4>3. QED
        BY <4>1, <4>2
    <3>5. ASSUME NEW i \in 1..Len(sent'), sent'[i].op = "continuation"
          PROVE  i > 1 /\ ~sent'[i - 1].fin
      <4>1. CASE i = n + 1
        <5>1. op = "continuation"
          BY <1>2, <1>4, <3>5, <4>1
        <5>2. n > 0 /\ ~sent[n].fin
          BY <1>3, <3>2, <5>1
        <5>3. i > 1 /\ i - 1 = n /\ n \in 1..n
          BY <1>1, <4>1, <5>2
        <5>4. QED
          BY <1>4, <5>2, <5>3
      <4>2. CASE i # n + 1
        <5>1. i \in 1..n
          BY <1>1, <1>4, <4>2
        <5>2. i > 1 /\ ~sent[i - 1].fin
          BY <1>4, <3>2, <3>5, <5>1
        <5>3. i - 1 \in 1..n
          BY <1>1, <5>1, <5>2
        <5>4. QED
          BY <1>4, <5>2, <5>3
      <4>3. QED
        BY <4>1, <4>2
    <3>6. QED
      BY <1>2, <3>3, <3>4, <3>5
  <2>5. QED
    BY <1>4, <2>1, <2>2, <2>3, <2>4 DEF Numbered
<1>7. PICK at : OnWire(at)
  BY DEF FramesInv, Coded
<1>8. /\ at \in [r..n -> 0..w] /\ at[r] = 0 /\ at[n] = w
      /\ \A i, j \in r..n : i <= j => at[i] <= at[j]
      /\ \A i \in r + 1..n :
           /\ at[i] = at[i - 1] + Parts(sent[i])
           /\ \A j \in 1..Parts(sent[i]) : stream[at[i - 1] + j] = Frames!Encode(sent[i])[j]
  BY <1>1, <1>7 DEF OnWire
<1>9. PICK p \in Nat : p = Parts(f)
  BY <1>2, Counts
<1>10. PICK new : /\ new = [i \in r..n + 1 |-> IF i = n + 1 THEN w + p ELSE at[i]]
                  /\ \A i \in r..n : i \in r..n + 1 /\ new[i] = at[i] /\ at[i] \in 0..w
                  /\ new[n + 1] = w + p
  <2> DEFINE e == [i \in r..n + 1 |-> IF i = n + 1 THEN w + p ELSE at[i]]
  <2>1. /\ \A i \in r..n : i \in r..n + 1 /\ e[i] = at[i] /\ at[i] \in 0..w
        /\ e[n + 1] = w + p
    BY <1>1, <1>8
  <2>2. QED
    BY <2>1, Zenon
<1>11. /\ new \in [r..n + 1 -> 0..w + p] /\ new[r] = 0
       /\ \A i, j \in r..n + 1 : i <= j => new[i] <= new[j]
  <2>1. \A i \in r..n + 1 : i = n + 1 \/ i \in r..n
    BY <1>1
  <2>2. ASSUME NEW i \in r..n + 1 PROVE new[i] \in 0..w + p
    <3>1. CASE i = n + 1
      BY <1>1, <1>9, <1>10, <3>1
    <3>2. CASE i \in r..n
      <4>1. new[i] \in 0..w
        BY <1>10, <3>2
      <4>2. QED
        BY <1>1, <1>9, <4>1
    <3>3. QED
      BY <2>1, <3>1, <3>2
  <2>3. new[r] = 0
    BY <1>1, <1>8, <1>10
  <2>4. ASSUME NEW i \in r..n + 1, NEW j \in r..n + 1, i <= j
        PROVE  new[i] <= new[j]
    <3>1. CASE j = n + 1
      <4>1. i = n + 1 \/ new[i] \in 0..w
        BY <1>10, <2>1
      <4>2. QED
        BY <1>9, <1>10, <3>1, <4>1
    <3>2. CASE j # n + 1
      <4>1. i \in r..n /\ j \in r..n
        BY <1>1, <2>4, <3>2
      <4>2. QED
        BY <1>8, <1>10, <2>4, <4>1
    <3>3. QED
      BY <3>1, <3>2
  <2>5. new \in [r..n + 1 -> 0..w + p]
    BY <1>10, <2>2
  <2>6. QED
    BY <2>3, <2>4, <2>5
<1>12. ASSUME NEW i \in r + 1..n + 1
       PROVE  /\ new[i] = new[i - 1] + Parts(sent'[i])
              /\ \A j \in 1..Parts(sent'[i]) : stream'[new[i - 1] + j] = Frames!Encode(sent'[i])[j]
  <2>1. CASE i = n + 1
    <3>1. i - 1 = n /\ n \in r..n /\ sent'[i] = f
      BY <1>1, <1>4, <2>1
    <3>2. new[i - 1] = w
      BY <1>8, <1>10, <3>1
    <3>3. new[i] = w + p
      BY <1>10, <2>1
    <3>4. ASSUME NEW j \in 1..p PROVE stream'[w + j] = Frames!Encode(f)[j]
      BY <1>5, <1>9, <3>4
    <3>5. QED
      BY <1>9, <3>1, <3>2, <3>3, <3>4
  <2>2. CASE i # n + 1
    <3>1. i \in r + 1..n /\ i \in r..n /\ i - 1 \in r..n /\ i \in 1..n
      BY <1>1, <2>2
    <3>2. sent'[i] = sent[i] /\ new[i] = at[i] /\ new[i - 1] = at[i - 1]
      BY <1>4, <1>10, <3>1
    <3>3. PICK q \in Nat : q = Parts(sent[i])
      BY <1>1, <3>1, Counts, ElementOfSeq DEF FramesInv, Numbered
    <3>4. PICK a \in Nat : a = at[i - 1] /\ a + q <= w /\ at[i] = a + q
      <4>1. at[i] = at[i - 1] + q /\ at[i] \in 0..w /\ at[i - 1] \in 0..w
        BY <1>8, <1>10, <3>1, <3>3
      <4>2. QED
        BY <1>1, <4>1
    <3>5. ASSUME NEW j \in 1..q PROVE stream'[a + j] = stream[a + j]
      <4>1. a + j \in 1..w
        BY <1>1, <3>3, <3>4
      <4>2. QED
        BY <1>5, <4>1
    <3>6. \A j \in 1..q : stream[a + j] = Frames!Encode(sent[i])[j]
      BY <1>8, <3>1, <3>3, <3>4
    <3>7. QED
      BY <3>2, <3>3, <3>4, <3>5, <3>6
  <2>3. QED
    BY <2>1, <2>2
<1>13. OnWire(new)'
  <2>1. Len(received') = r /\ Len(sent') = n + 1 /\ Len(stream') = w + p
    BY <1>1, <1>3, <1>4, <1>5, <1>9
  <2>2. new[n + 1] = w + p
    BY <1>10
  <2>3. QED
    BY <1>11, <1>12, <2>1, <2>2 DEF OnWire
<1>14. Coded'
  <2>1. /\ received' \in Seq(Frame) /\ Len(received') <= Len(sent')
        /\ loop' \in {"reading", "handling", "failed", "lost", "ended"}
    BY <1>1, <1>3, <1>4 DEF FramesInv, Coded
  <2>2. ASSUME NEW i \in 1..Len(received') PROVE received'[i] = sent'[i]
    <3>1. i \in 1..n /\ received[i] = sent[i]
      BY <1>1, <1>3 DEF FramesInv, Coded
    <3>2. QED
      BY <1>3, <1>4, <3>1
  <2>3. ASSUME loop' \in {"failed", "lost"}
        PROVE  \E i \in 1..Len(sent') : ~Fits(sent'[i])
    <3>1. PICK i \in 1..n : ~Fits(sent[i])
      BY <1>1, <1>3, <2>3 DEF FramesInv, Coded
    <3>2. i \in 1..Len(sent') /\ sent'[i] = sent[i]
      BY <1>1, <1>4
    <3>3. QED
      BY <3>1, <3>2
  <2>4. QED
    BY <1>5, <1>13, <2>1, <2>2, <2>3 DEF Coded
<1>15. Gathered'
  BY <1>3 DEF FramesInv, Gathered, CutUp
<1>16. QED
  BY <1>6, <1>14, <1>15 DEF FramesInv
-----------------------------------------------------------------------------
(* What is left in the stream begins with the first frame not received.    *)
LEMMA NextFrame ==
  ASSUME FramesInv, stream # <<>>
  PROVE  /\ Len(received) < Len(sent)
         /\ sent[Len(received) + 1] \in Frame
         /\ sent[Len(received) + 1].id = Len(received) + 1
         /\ Begins(sent[Len(received) + 1])
<1>1. /\ sent \in Seq(Frame) /\ received \in Seq(Frame) /\ stream \in Seq(Portion)
      /\ Len(received) <= Len(sent)
      /\ \A i \in 1..Len(sent) : sent[i].id = i
  BY DEF FramesInv, Numbered, Coded
<1>2. PICK n \in Nat, r \in Nat, w \in Nat :
        n = Len(sent) /\ r = Len(received) /\ w = Len(stream) /\ r <= n
  BY <1>1, LenProperties
<1>3. w > 0
  BY <1>1, <1>2, EmptySeq
<1>4. PICK at : OnWire(at)
  BY DEF FramesInv, Coded
<1>5. /\ at \in [r..n -> 0..w] /\ at[r] = 0 /\ at[n] = w
      /\ \A i \in r + 1..n :
           /\ at[i] = at[i - 1] + Parts(sent[i])
           /\ \A j \in 1..Parts(sent[i]) : stream[at[i - 1] + j] = Frames!Encode(sent[i])[j]
  BY <1>2, <1>4 DEF OnWire
<1>6. r < n
  BY <1>2, <1>3, <1>5
<1>7. r + 1 \in 1..n /\ r + 1 \in r + 1..n /\ r + 1 \in r..n /\ r + 1 - 1 = r
  BY <1>2, <1>6
<1>8. PICK f \in Frame : f = sent[r + 1] /\ f.id = r + 1
  BY <1>1, <1>2, <1>7, ElementOfSeq
<1>9. PICK p \in Nat : p = Parts(f)
  BY Counts
<1>10. at[r + 1] = p /\ at[r + 1] \in 0..w
  BY <1>5, <1>7, <1>8, <1>9
<1>11. ASSUME NEW j \in 1..p PROVE stream[j] = Frames!Encode(f)[j]
  <2>1. stream[at[r] + j] = Frames!Encode(f)[j]
    BY <1>5, <1>7, <1>8, <1>9
  <2>2. at[r] + j = j
    BY <1>5, <1>9
  <2>3. QED
    BY <2>1, <2>2
<1>12. Begins(f)
  BY <1>1, <1>2, <1>9, <1>10, <1>11 DEF Begins
<1>13. QED
  BY <1>2, <1>6, <1>8, <1>12

(* What decode() returns is that frame, and its length is one encode() and *)
(* decode() agree on.                                                      *)
LEMMA Decodes ==
  ASSUME FramesInv, Frames!ReceiveFrame
  PROVE  \E f \in Frame :
           /\ Len(received) < Len(sent) /\ f = sent[Len(received) + 1]
           /\ f.id = Len(received) + 1 /\ Fits(f) /\ Begins(f)
           /\ received' = Append(received, f)
           /\ stream' = SubSeq(stream, Parts(f) + 1, Len(stream))
           /\ Frames!OnFrame(f)
<1>1. PICK f \in Frame : /\ Len(received) < Len(sent) /\ f = sent[Len(received) + 1]
                         /\ f.id = Len(received) + 1 /\ Begins(f)
  BY NextFrame DEF Frames!ReceiveFrame
<1>2. /\ stream[1].value.len # 127 /\ Frames!PartsTaken > 0
      /\ received' = Append(received, Frames!Payload(stream[1].value, Frames!PartsTaken))
      /\ stream' = SubSeq(stream, Frames!PartsTaken + 1, Len(stream))
      /\ Frames!OnFrame(Frames!Payload(stream[1].value, Frames!PartsTaken))
  BY Zenon DEF Frames!ReceiveFrame
<1>3. Fits(f) /\ Frames!PartsTaken = Parts(f) /\ Frames!Payload(stream[1].value, Parts(f)) = f
  BY <1>1, <1>2, TakesTheParts
<1>4. QED
  BY <1>1, <1>2, <1>3, Zenon

LEMMA DecodeKeepsCoded ==
  ASSUME FramesInv, Frames!ReceiveFrame
  PROVE  Coded'
<1>1. PICK f \in Frame :
        /\ Len(received) < Len(sent) /\ f = sent[Len(received) + 1]
        /\ f.id = Len(received) + 1 /\ Fits(f) /\ Begins(f)
        /\ received' = Append(received, f)
        /\ stream' = SubSeq(stream, Parts(f) + 1, Len(stream))
        /\ Frames!OnFrame(f)
  BY Decodes
<1>2. /\ sent \in Seq(Frame) /\ received \in Seq(Frame) /\ stream \in Seq(Portion)
      /\ Len(received) <= Len(sent)
      /\ \A i \in 1..Len(received) : received[i] = sent[i]
  BY DEF FramesInv, Numbered, Coded
<1>3. PICK n \in Nat, r \in Nat, w \in Nat :
        n = Len(sent) /\ r = Len(received) /\ w = Len(stream) /\ r < n
  BY <1>1, <1>2, LenProperties
<1>4. sent' = sent
  BY DEF Frames!ReceiveFrame, Frames!sender
<1>5. PICK p \in Nat : p = Parts(f) /\ p <= w
  BY <1>1, <1>3, Counts DEF Begins
<1>6. /\ received' \in Seq(Frame) /\ Len(received') = r + 1
      /\ \A i \in 1..r : received'[i] = received[i]
      /\ received'[r + 1] = f
  BY <1>1, <1>2, <1>3, Appended
<1>7. /\ stream' \in Seq(Portion) /\ Len(stream') = w - p
      /\ \A i \in 1..w - p : stream'[i] = stream[p + i]
  <2>1. p + 1 \in Int /\ w \in Int
    OBVIOUS
  <2>2. \A i \in p + 1..w : stream[i] \in Portion
    BY <1>2, <1>3, ElementOfSeq
  <2>3. /\ SubSeq(stream, p + 1, w) \in Seq(Portion)
        /\ Len(SubSeq(stream, p + 1, w)) = IF p + 1 <= w THEN w - (p + 1) + 1 ELSE 0
        /\ \A i \in 1..w - (p + 1) + 1 : SubSeq(stream, p + 1, w)[i] = stream[p + 1 + i - 1]
    BY <2>1, <2>2, SubSeqProperties
  <2>4. stream' = SubSeq(stream, p + 1, w)
    BY <1>1, <1>3, <1>5
  <2>5. Len(stream') = w - p
    BY <1>5, <2>3, <2>4
  <2>6. ASSUME NEW i \in 1..w - p PROVE stream'[i] = stream[p + i]
    <3>1. i \in 1..w - (p + 1) + 1 /\ p + 1 + i - 1 = p + i
      BY <1>5
    <3>2. QED
      BY <2>3, <2>4, <3>1
  <2>7. QED
    BY <2>3, <2>4, <2>5, <2>6
<1>8. PICK at : OnWire(at)
  BY DEF FramesInv, Coded
<1>9. /\ at \in [r..n -> 0..w] /\ at[r] = 0 /\ at[n] = w
      /\ \A i, j \in r..n : i <= j => at[i] <= at[j]
      /\ \A i \in r + 1..n :
           /\ at[i] = at[i - 1] + Parts(sent[i])
           /\ \A j \in 1..Parts(sent[i]) : stream[at[i - 1] + j] = Frames!Encode(sent[i])[j]
  BY <1>3, <1>8 DEF OnWire
<1>10. r + 1 \in r..n /\ r + 1 \in r + 1..n /\ r \in r..n /\ n \in r + 1..n
  BY <1>3
<1>11. at[r + 1] = p
  <2>1. at[r + 1] = at[r + 1 - 1] + Parts(sent[r + 1]) /\ r + 1 - 1 = r
    BY <1>9, <1>10
  <2>2. QED
    BY <1>1, <1>3, <1>5, <1>9, <2>1
<1>12. \A i \in r + 1..n : at[i] \in p..w
  BY <1>3, <1>9, <1>10, <1>11
<1>13. PICK new : /\ new = [i \in r + 1..n |-> at[i] - p]
                  /\ \A i \in r + 1..n : new[i] = at[i] - p
  <2> DEFINE e == [i \in r + 1..n |-> at[i] - p]
  <2>1. \A i \in r + 1..n : e[i] = at[i] - p
    OBVIOUS
  <2>2. QED
    BY <2>1, Zenon
<1>14. new \in [r + 1..n -> 0..w - p]
  <2>1. ASSUME NEW i \in r + 1..n PROVE at[i] - p \in 0..w - p
    BY <1>12
  <2>2. QED
    BY <1>13, <2>1
<1>15. new[r + 1] = 0 /\ new[n] = w - p
  BY <1>9, <1>10, <1>11, <1>13
<1>16. ASSUME NEW i \in r + 1..n, NEW j \in r + 1..n, i <= j
       PROVE  new[i] <= new[j]
  <2>1. i \in r..n /\ j \in r..n
    BY <1>3
  <2>2. at[i] <= at[j] /\ at[i] \in p..w /\ at[j] \in p..w
    BY <1>9, <1>12, <1>16, <2>1
  <2>3. QED
    BY <1>13, <2>2
<1>17. ASSUME NEW i \in r + 1 + 1..n
       PROVE  /\ new[i] = new[i - 1] + Parts(sent[i])
              /\ \A j \in 1..Parts(sent[i]) : stream'[new[i - 1] + j] = Frames!Encode(sent[i])[j]
  <2>1. i \in r + 1..n /\ i - 1 \in r + 1..n /\ i \in 1..n
    BY <1>3
  <2>2. PICK q \in Nat : q = Parts(sent[i])
    BY <1>2, <1>3, <2>1, Counts, ElementOfSeq
  <2>3. PICK a \in Nat : a = at[i - 1] /\ a >= p /\ at[i] = a + q /\ a + q <= w
    <3>1. at[i] = at[i - 1] + q /\ at[i] \in p..w /\ at[i - 1] \in p..w
      BY <1>9, <1>12, <2>1, <2>2
    <3>2. PICK z : z = at[i - 1] /\ z \in p..w /\ z + q \in p..w
      BY <3>1
    <3>3. z \in Nat /\ z >= p /\ z + q <= w
      BY <1>3, <1>5, <3>2
    <3>4. QED
      BY <3>1, <3>2, <3>3
  <2>4. new[i - 1] = a - p /\ new[i] = a + q - p
    BY <1>13, <2>1, <2>3
  <2>5. ASSUME NEW j \in 1..q PROVE stream'[new[i - 1] + j] = Frames!Encode(sent[i])[j]
    <3>1. a - p + j \in 1..w - p /\ p + (a - p + j) = a + j
      <4>1. j \in Nat /\ 1 <= j /\ j <= q /\ p <= a /\ a + q <= w
        BY <1>3, <1>5, <2>2, <2>3
      <4>2. p + (a - p + j) = a + j /\ 1 <= a - p + j /\ a - p + j <= w - p
        BY <4>1
      <4>3. QED
        BY <4>2
    <3>2. stream'[a - p + j] = stream[a + j]
      BY <1>7, <3>1
    <3>3. stream[a + j] = Frames!Encode(sent[i])[j]
      BY <1>9, <2>1, <2>2, <2>3
    <3>4. QED
      BY <2>4, <3>2, <3>3
  <2>6. QED
    BY <1>5, <2>2, <2>3, <2>4, <2>5
<1>18. OnWire(new)'
  <2>1. Len(received') = r + 1 /\ Len(sent') = n /\ Len(stream') = w - p
    BY <1>3, <1>4, <1>6, <1>7
  <2>2. QED
    BY <1>4, <1>14, <1>15, <1>16, <1>17, <2>1 DEF OnWire
<1>19. /\ Len(received') <= Len(sent')
       /\ \A i \in 1..Len(received') : received'[i] = sent'[i]
  BY <1>1, <1>2, <1>3, <1>4, <1>6
<1>20. loop' \in {"reading", "handling", "ended"}
  BY <1>1 DEF Frames!OnFrame
<1>21. QED
  BY <1>6, <1>7, <1>18, <1>19, <1>20 DEF Coded
-----------------------------------------------------------------------------
(* What process_frames calls for the frames of a message.                  *)
LEMMA MessageIs ==
  ASSUME NEW fs \in Seq(Frame), \A i \in 1..Len(fs) : fs[i].id = i,
         NEW a \in Nat, NEW b \in Nat, a < b, b <= Len(fs),
         NEW list, list = Slice(fs, a, b)
  PROVE  /\ [op |-> list[1].op, ids |-> [i \in 1..Len(list) |-> list[i].id]]
              = Message(fs, a, b)
         /\ Message(fs, a, b) \in HandlerCall
         /\ list \in Seq(Frame) /\ Len(list) = b - a
<1>1. /\ list \in Seq(Frame) /\ Len(list) = b - a
      /\ \A i \in 1..b - a : list[i] = fs[a + i]
  <2>1. a <= b
    OBVIOUS
  <2>2. /\ Slice(fs, a, b) \in Seq(Frame) /\ Len(Slice(fs, a, b)) = b - a
        /\ \A i \in 1..b - a : Slice(fs, a, b)[i] = fs[a + i]
    BY <2>1, SliceIs
  <2>3. QED
    BY <2>2, Zenon
<1>2. \A i \in 1..b - a : a + i \in 1..Len(fs)
  BY LenProperties
<1>3. \A i \in 1..b - a : list[i].id = a + i
  BY <1>1, <1>2
<1>4. [i \in 1..Len(list) |-> list[i].id] = Ids(a, b)
  BY <1>1, <1>3 DEF Ids
<1>5. 1 \in 1..b - a
  OBVIOUS
<1>6. list[1] = fs[a + 1] /\ fs[a + 1] \in Frame
  BY <1>1, <1>2, <1>5, ElementOfSeq
<1>7. Ids(a, b) \in Seq(Nat)
  <2>1. b - a \in Nat /\ \A i \in 1..b - a : a + i \in Nat
    OBVIOUS
  <2>2. QED
    BY <2>1 DEF Ids
<1>8. Message(fs, a, b) \in HandlerCall
  BY <1>6, <1>7 DEF Message, HandlerCall, Frame
<1>9. QED
  BY <1>1, <1>4, <1>6, <1>8 DEF Message

LEMMA CutsKept ==
  ASSUME NEW fs \in Seq(Frame), NEW x \in Frame, NEW dl \in Seq(HandlerCall),
         NEW tk \in Seq(Seq(Frame)), NEW cut, Cuts(fs, cut, dl, tk)
  PROVE  Cuts(Append(fs, x), cut, dl, tk)
<1>1. PICK r \in Nat, d \in Nat, t \in Nat : r = Len(fs) /\ d = Len(dl) /\ t = Len(tk)
  BY LenProperties
<1>2. PICK gs \in Seq(Frame) : /\ gs = Append(fs, x) /\ Len(gs) = r + 1
                               /\ \A i \in 1..r : gs[i] = fs[i]
  <2>1. /\ Append(fs, x) \in Seq(Frame) /\ Len(Append(fs, x)) = r + 1
        /\ \A i \in 1..r : Append(fs, x)[i] = fs[i]
    BY <1>1, Appended
  <2>2. QED
    BY <2>1, Zenon
<1>3. /\ cut \in [0..d + t -> 0..r] /\ cut[0] = 0
      /\ \A k \in 1..d + t : Whole(fs, cut[k - 1], cut[k])
      /\ \A k \in 1..d : dl[k] = Message(fs, cut[k - 1], cut[k])
      /\ \A k \in 1..t : tk[k] = Slice(fs, cut[d + k - 1], cut[d + k])
  BY <1>1 DEF Cuts
<1>4. ASSUME NEW k \in 1..d + t
      PROVE  /\ cut[k - 1] \in 0..r /\ cut[k] \in 0..r
             /\ cut[k - 1] < cut[k]
             /\ Whole(gs, cut[k - 1], cut[k])
             /\ Message(gs, cut[k - 1], cut[k]) = Message(fs, cut[k - 1], cut[k])
             /\ Slice(gs, cut[k - 1], cut[k]) = Slice(fs, cut[k - 1], cut[k])
  <2>1. PICK a \in 0..r, b \in 0..r : a = cut[k - 1] /\ b = cut[k]
    <3>1. k - 1 \in 0..d + t /\ k \in 0..d + t
      OBVIOUS
    <3>2. cut[k - 1] \in 0..r /\ cut[k] \in 0..r
      BY <1>3, <3>1
    <3>3. QED
      BY <3>2, Zenon
  <2>2. Whole(fs, a, b)
    BY <1>3, <2>1
  <2>3. /\ a < b /\ fs[b].fin /\ \A i \in a + 1..b - 1 : ~fs[i].fin
    BY <2>2 DEF Whole
  <2>4. a + 1 \in 1..r /\ b \in 1..r /\ \A i \in a + 1..b - 1 : i \in 1..r
    BY <2>3
  <2>5. Whole(gs, a, b)
    BY <1>2, <2>3, <2>4 DEF Whole
  <2>6. Message(gs, a, b) = Message(fs, a, b)
    BY <1>2, <2>4, Zenon DEF Message
  <2>7. Slice(gs, a, b) = Slice(fs, a, b)
    <3>1. a \in Nat /\ b \in Nat /\ a <= b /\ b <= Len(fs)
      BY <1>1, <2>3
    <3>2. QED
      BY <1>2, <3>1, SliceKept
  <2>8. QED
    BY <2>1, <2>3, <2>5, <2>6, <2>7
<1>5. ASSUME NEW k \in 1..d PROVE dl[k] = Message(gs, cut[k - 1], cut[k])
  <2>1. k \in 1..d + t
    OBVIOUS
  <2>2. QED
    BY <1>3, <1>4, <2>1
<1>6. ASSUME NEW k \in 1..t PROVE tk[k] = Slice(gs, cut[d + k - 1], cut[d + k])
  <2>1. d + k \in 1..d + t
    OBVIOUS
  <2>2. QED
    BY <1>3, <1>4, <2>1
<1>7. cut \in [0..d + t -> 0..r + 1]
  BY <1>3
<1>8. Cuts(gs, cut, dl, tk)
  BY <1>1, <1>2, <1>3, <1>4, <1>5, <1>6, <1>7 DEF Cuts
<1>9. QED
  BY <1>2, <1>8

(* One more message, in a task ...                                         *)
LEMMA CutsTask ==
  ASSUME NEW fs \in Seq(Frame), NEW dl \in Seq(HandlerCall), NEW tk \in Seq(Seq(Frame)),
         NEW cut, NEW a, CutsTo(fs, cut, dl, tk, a),
         NEW b \in 0..Len(fs), Whole(fs, a, b), NEW x, x = Slice(fs, a, b)
  PROVE  \E c : CutsTo(fs, c, dl, Append(tk, x), b) /\ c[Len(dl) + Len(tk)] = a
<1>1. PICK r \in Nat, d \in Nat, t \in Nat : r = Len(fs) /\ d = Len(dl) /\ t = Len(tk)
  BY LenProperties
<1>2. /\ cut \in [0..d + t -> 0..r] /\ cut[0] = 0
      /\ \A k \in 1..d + t : Whole(fs, cut[k - 1], cut[k])
      /\ \A k \in 1..d : dl[k] = Message(fs, cut[k - 1], cut[k])
      /\ \A k \in 1..t : tk[k] = Slice(fs, cut[d + k - 1], cut[d + k])
      /\ cut[d + t] = a /\ b \in 0..r
  BY <1>1 DEF CutsTo, Cuts
<1>3. PICK m \in Seq(Frame) : m = Slice(fs, a, b) /\ m = x
  <2>1. a \in 0..r
    <3>1. d + t \in 0..d + t
      OBVIOUS
    <3>2. QED
      BY <1>2, <3>1
  <2>2. a \in Nat /\ b \in Nat /\ a <= b /\ b <= Len(fs)
    BY <1>1, <1>2, <2>1 DEF Whole
  <2>3. QED
    BY <2>2, SliceIs
<1>4. PICK tl \in Seq(Seq(Frame)) : /\ tl = Append(tk, m) /\ Len(tl) = t + 1
                                    /\ \A k \in 1..t : tl[k] = tk[k]
                                    /\ tl[t + 1] = m
  BY <1>1, <1>3, Appended
<1>5. PICK c : /\ c \in [0..d + t + 1 -> 0..r] /\ c[d + t + 1] = b
               /\ \A k \in 0..d + t : c[k] = cut[k]
  <2> DEFINE e == [k \in 0..d + t + 1 |-> IF k = d + t + 1 THEN b ELSE cut[k]]
  <2>1. \A k \in 0..d + t + 1 : k = d + t + 1 \/ k \in 0..d + t
    OBVIOUS
  <2>2. e \in [0..d + t + 1 -> 0..r]
    BY <1>2, <2>1
  <2>3. e[d + t + 1] = b /\ \A k \in 0..d + t : e[k] = cut[k]
    OBVIOUS
  <2>4. QED
    BY <2>2, <2>3, Zenon
<1>6. ASSUME NEW k \in 1..d + t PROVE c[k - 1] = cut[k - 1] /\ c[k] = cut[k]
  BY <1>5
<1>7. ASSUME NEW k \in 1..d + t + 1 PROVE Whole(fs, c[k - 1], c[k])
  <2>1. CASE k = d + t + 1
    <3>1. k - 1 = d + t /\ d + t \in 0..d + t
      BY <2>1
    <3>2. c[k - 1] = a /\ c[k] = b
      BY <1>2, <1>5, <2>1, <3>1
    <3>3. QED
      BY <3>2
  <2>2. CASE k # d + t + 1
    <3>1. k \in 1..d + t
      BY <2>2
    <3>2. QED
      BY <1>2, <1>6, <3>1
  <2>3. QED
    BY <2>1, <2>2
<1>8. ASSUME NEW k \in 1..d PROVE dl[k] = Message(fs, c[k - 1], c[k])
  <2>1. k \in 1..d + t
    OBVIOUS
  <2>2. QED
    BY <1>2, <1>6, <2>1
<1>9. ASSUME NEW k \in 1..t + 1 PROVE tl[k] = Slice(fs, c[d + k - 1], c[d + k])
  <2>1. CASE k = t + 1
    <3>1. d + k - 1 = d + t /\ d + k = d + t + 1 /\ d + t \in 0..d + t
      BY <2>1
    <3>2. c[d + k - 1] = a /\ c[d + k] = b
      BY <1>2, <1>5, <3>1
    <3>3. QED
      BY <1>3, <1>4, <2>1, <3>2
  <2>2. CASE k # t + 1
    <3>1. k \in 1..t /\ d + k \in 1..d + t
      BY <2>2
    <3>2. QED
      BY <1>2, <1>4, <1>6, <3>1
  <2>3. QED
    BY <2>1, <2>2
<1>10. Len(dl) + Len(tl) = d + t + 1 /\ 0 \in 0..d + t /\ d + t \in 0..d + t
  BY <1>1, <1>4
<1>11. c[0] = 0 /\ c[d + t] = a
  BY <1>2, <1>5, <1>10
<1>12. Cuts(fs, c, dl, tl)
  BY <1>1, <1>4, <1>5, <1>7, <1>8, <1>9, <1>10, <1>11 DEF Cuts
<1>13. QED
  BY <1>1, <1>3, <1>4, <1>5, <1>10, <1>11, <1>12 DEF CutsTo

(* ... that starts ...                                                     *)
LEMMA CutsStart ==
  ASSUME NEW fs \in Seq(Frame), \A i \in 1..Len(fs) : fs[i].id = i,
         NEW dl \in Seq(HandlerCall), NEW tk \in Seq(Seq(Frame)), tk # <<>>,
         NEW cut, Cuts(fs, cut, dl, tk),
         NEW x, x = Message(fs, cut[Len(dl)], cut[Len(dl) + 1])
  PROVE  /\ cut[Len(dl)] \in Nat /\ cut[Len(dl) + 1] \in Nat
         /\ cut[Len(dl)] < cut[Len(dl) + 1] /\ cut[Len(dl) + 1] <= Len(fs)
         /\ Head(tk) = Slice(fs, cut[Len(dl)], cut[Len(dl) + 1])
         /\ Cuts(fs, cut, Append(dl, x), Tail(tk))
<1>1. PICK r \in Nat, d \in Nat, t \in Nat : r = Len(fs) /\ d = Len(dl) /\ t = Len(tk)
  BY LenProperties
<1>2. /\ cut \in [0..d + t -> 0..r] /\ cut[0] = 0
      /\ \A k \in 1..d + t : Whole(fs, cut[k - 1], cut[k])
      /\ \A k \in 1..d : dl[k] = Message(fs, cut[k - 1], cut[k])
      /\ \A k \in 1..t : tk[k] = Slice(fs, cut[d + k - 1], cut[d + k])
  BY <1>1 DEF Cuts
<1>3. t > 0
  BY <1>1, EmptySeq
<1>4. /\ d \in 0..d + t /\ d + 1 \in 0..d + t /\ d + 1 \in 1..d + t /\ 1 \in 1..t
      /\ d + 1 - 1 = d
  BY <1>3
<1>5. PICK a \in Nat, b \in Nat : a = cut[d] /\ b = cut[d + 1] /\ a < b /\ b <= r
  <2>1. cut[d] \in 0..r /\ cut[d + 1] \in 0..r
    BY <1>2, <1>4
  <2>2. Whole(fs, cut[d], cut[d + 1])
    BY <1>2, <1>4
  <2>3. QED
    BY <2>1, <2>2 DEF Whole
<1>6. Head(tk) = Slice(fs, a, b)
  <2>1. Head(tk) = tk[1]
    BY <1>1, <1>3
  <2>2. tk[1] = Slice(fs, cut[d + 1 - 1], cut[d + 1])
    BY <1>2, <1>4
  <2>3. QED
    BY <1>4, <1>5, <2>1, <2>2
<1>7. x = Message(fs, a, b) /\ x \in HandlerCall
  <2>1. x = Message(fs, a, b)
    BY <1>1, <1>5
  <2>2. Message(fs, a, b) \in HandlerCall
    BY <1>1, <1>5, MessageIs
  <2>3. QED
    BY <2>1, <2>2
<1>8. PICK el \in Seq(HandlerCall) : /\ el = Append(dl, x) /\ Len(el) = d + 1
                              /\ \A k \in 1..d : el[k] = dl[k]
                              /\ el[d + 1] = x
  <2>1. /\ Append(dl, x) \in Seq(HandlerCall) /\ Len(Append(dl, x)) = Len(dl) + 1
        /\ \A k \in 1..Len(dl) : Append(dl, x)[k] = dl[k]
        /\ Append(dl, x)[Len(dl) + 1] = x
    BY <1>7, Appended
  <2>2. QED
    BY <1>1, <2>1, Zenon
<1>9. PICK tl \in Seq(Seq(Frame)) : /\ tl = Tail(tk) /\ Len(tl) = t - 1
                                    /\ \A k \in 1..t - 1 : tl[k] = tk[k + 1]
  BY <1>1, HeadTailProperties
<1>10. ASSUME NEW k \in 1..d + 1 PROVE el[k] = Message(fs, cut[k - 1], cut[k])
  <2>1. CASE k = d + 1
    <3>1. k - 1 = d
      BY <2>1
    <3>2. el[k] = x /\ cut[k - 1] = cut[d] /\ cut[k] = cut[d + 1]
      BY <1>8, <2>1, <3>1
    <3>3. x = Message(fs, a, b) /\ cut[d] = a /\ cut[d + 1] = b
      BY <1>4, <1>5, <1>7
    <3>4. QED
      BY <3>2, <3>3, Zenon
  <2>2. CASE k # d + 1
    <3>1. k \in 1..d
      BY <2>2
    <3>2. QED
      BY <1>2, <1>8, <3>1
  <2>3. QED
    BY <2>1, <2>2
<1>11. ASSUME NEW k \in 1..t - 1
       PROVE  tl[k] = Slice(fs, cut[d + 1 + k - 1], cut[d + 1 + k])
  <2>1. k + 1 \in 1..t /\ d + (k + 1) - 1 = d + 1 + k - 1 /\ d + (k + 1) = d + 1 + k
    OBVIOUS
  <2>2. tl[k] = tk[k + 1] /\ tk[k + 1] = Slice(fs, cut[d + (k + 1) - 1], cut[d + (k + 1)])
    BY <1>2, <1>9, <2>1
  <2>3. QED
    BY <2>1, <2>2
<1>12. Len(el) + Len(tl) = d + t
  <2>1. d + 1 + (t - 1) = d + t
    OBVIOUS
  <2>2. QED
    BY <1>8, <1>9, <2>1
<1>13. Cuts(fs, cut, el, tl)
  BY <1>1, <1>2, <1>8, <1>9, <1>10, <1>11, <1>12 DEF Cuts
<1>14. QED
  BY <1>1, <1>5, <1>6, <1>8, <1>9, <1>13

(* ... or that is processed at once.                                       *)
LEMMA CutsCall ==
  ASSUME NEW fs \in Seq(Frame), \A i \in 1..Len(fs) : fs[i].id = i,
         NEW dl \in Seq(HandlerCall), NEW cut, NEW a, CutsTo(fs, cut, dl, <<>>, a),
         NEW b \in 0..Len(fs), Whole(fs, a, b), NEW x, x = Message(fs, a, b)
  PROVE  \E c : CutsTo(fs, c, Append(dl, x), <<>>, b)
<1>1. PICK d \in Nat : d = Len(dl)
  BY LenProperties
<1>2. PICK e \in Seq(Seq(Frame)) : e = <<>> /\ Len(e) = 0
  BY EmptySeq
<1>3. CutsTo(fs, cut, dl, e, a)
  BY <1>2
<1>4. PICK m \in Seq(Frame) : m = Slice(fs, a, b)
  <2>1. cut \in [0..d -> 0..Len(fs)] /\ cut[d] = a
    BY <1>1, <1>2, <1>3 DEF Cuts, CutsTo
  <2>2. a \in 0..Len(fs)
    BY <1>1, <2>1
  <2>3. a \in Nat /\ b \in Nat /\ a <= b /\ b <= Len(fs)
    BY <2>2, LenProperties DEF Whole
  <2>4. QED
    BY <2>3, SliceIs
<1>5. PICK tk \in Seq(Seq(Frame)) : tk = Append(e, m) /\ Len(tk) = 1
  <2>1. Append(e, m) \in Seq(Seq(Frame)) /\ Len(Append(e, m)) = Len(e) + 1
    BY <1>2, <1>4, Appended
  <2>2. Len(e) + 1 = 1
    BY <1>2
  <2>3. QED
    BY <2>1, <2>2, Zenon
<1>6. PICK c : CutsTo(fs, c, dl, tk, b) /\ c[Len(dl) + Len(e)] = a
  <2>1. ASSUME NEW q \in Seq(Seq(Frame)), CutsTo(fs, cut, dl, q, a)
        PROVE  \E c : CutsTo(fs, c, dl, Append(q, m), b) /\ c[Len(dl) + Len(q)] = a
    BY <1>4, <2>1, CutsTask
  <2>2. \E c : CutsTo(fs, c, dl, Append(e, m), b) /\ c[Len(dl) + Len(e)] = a
    BY <1>3, <2>1, Zenon
  <2>3. QED
    BY <1>5, <2>2, Zenon
<1>7. Cuts(fs, c, dl, tk) /\ c[d] = a /\ c[d + 1] = b
  BY <1>1, <1>2, <1>5, <1>6 DEF CutsTo
<1>8. tk # <<>> /\ Tail(tk) = <<>>
  <2>1. Tail(tk) \in Seq(Seq(Frame)) /\ Len(Tail(tk)) = 0
    BY <1>5, EmptySeq, HeadTailProperties
  <2>2. QED
    BY <1>5, <2>1, EmptySeq
<1>9. Cuts(fs, c, Append(dl, x), Tail(tk))
  BY <1>1, <1>7, <1>8, CutsStart
<1>10. x \in HandlerCall
  <2>1. /\ c[d] \in Nat /\ c[d + 1] \in Nat /\ c[d] < c[d + 1] /\ c[d + 1] <= Len(fs)
    BY <1>1, <1>7, <1>8, CutsStart
  <2>2. QED
    BY <1>7, <2>1, MessageIs
<1>11. Len(Append(dl, x)) + Len(<<>>) = d + 1
  BY <1>1, <1>2, <1>10, Appended
<1>12. QED
  BY <1>7, <1>8, <1>9, <1>11 DEF CutsTo
-----------------------------------------------------------------------------
LEMMA HandsOver ==
  ASSUME NEW fs \in Seq(Frame), \A i \in 1..Len(fs) : fs[i].id = i,
         NEW a \in Nat, NEW b \in Nat, a < b, b <= Len(fs),
         NEW list, list = Slice(fs, a, b), Frames!ProcessFrames(list), left \in BOOLEAN
  PROVE  /\ delivered' = Append(delivered, Message(fs, a, b))
         /\ Message(fs, a, b) \in HandlerCall /\ left' \in BOOLEAN
<1>1. /\ [op |-> list[1].op, ids |-> [i \in 1..Len(list) |-> list[i].id]]
           = Message(fs, a, b)
      /\ Message(fs, a, b) \in HandlerCall
  <2>1. /\ a < b /\ b <= Len(fs) /\ list = Slice(fs, a, b)
        /\ \A i \in 1..Len(fs) : fs[i].id = i
    OBVIOUS
  <2>2. QED
    BY <2>1, MessageIs, Zenon
<1>2. delivered' = Append(delivered, [op |-> list[1].op,
                                      ids |-> [i \in 1..Len(list) |-> list[i].id]])
  BY Zenon DEF Frames!ProcessFrames
<1>3. left' \in BOOLEAN
  BY DEF Frames!ProcessFrames
<1>4. QED
  BY <1>1, <1>2, <1>3, Zenon

LEMMA DecodeKeepsGathered ==
  ASSUME FramesInv, Frames!ReceiveFrame
  PROVE  Gathered'
<1>1. PICK f \in Frame :
        /\ Len(received) < Len(sent) /\ f = sent[Len(received) + 1]
        /\ f.id = Len(received) + 1
        /\ received' = Append(received, f)
        /\ Frames!OnFrame(f)
  BY Decodes
<1>2. /\ received \in Seq(Frame) /\ frames \in Seq(Frame)
      /\ delivered \in Seq(HandlerCall) /\ tasks \in Seq(Seq(Frame))
      /\ \A i \in 1..Len(received) : received[i].id = i
      /\ left \in BOOLEAN /\ async \in BOOLEAN /\ func \in BOOLEAN
      /\ ~async => tasks = <<>>
  <2>1. /\ \A i \in 1..Len(received) : received[i] = sent[i]
        /\ \A i \in 1..Len(sent) : sent[i].id = i
        /\ received \in Seq(Frame) /\ sent \in Seq(Frame)
    BY DEF FramesInv, Numbered, Coded
  <2>2. \A i \in 1..Len(received) : i \in 1..Len(sent)
    BY <1>1, <2>1, LenProperties
  <2>3. QED
    BY <2>1, <2>2 DEF FramesInv, Gathered
<1>3. PICK r \in Nat, d \in Nat, t \in Nat :
        r = Len(received) /\ d = Len(delivered) /\ t = Len(tasks)
  BY <1>2, LenProperties
<1>4. PICK cut : \E a \in 0..r :
        /\ CutsTo(received, cut, delivered, tasks, a)
        /\ frames = Slice(received, a, r)
        /\ \A i \in a + 1..r : ~received[i].fin
  <2>1. PICK cut : CutUp(cut)
    BY DEF FramesInv, Gathered
  <2>2. QED
    BY <1>3, <2>1 DEF CutUp
<1>cut. PICK a \in 0..r :
        /\ CutsTo(received, cut, delivered, tasks, a)
        /\ frames = Slice(received, a, r)
        /\ \A i \in a + 1..r : ~received[i].fin
  BY <1>4
<1>5. PICK gs \in Seq(Frame) : /\ gs = Append(received, f) /\ Len(gs) = r + 1
                               /\ \A i \in 1..r : gs[i] = received[i]
                               /\ gs[r + 1] = f /\ received' = gs
  <2>1. /\ Append(received, f) \in Seq(Frame) /\ Len(Append(received, f)) = r + 1
        /\ \A i \in 1..r : Append(received, f)[i] = received[i]
        /\ Append(received, f)[r + 1] = f
    BY <1>2, <1>3, Appended
  <2>2. QED
    BY <1>1, <2>1, Zenon
<1>6. ASSUME NEW i \in 1..Len(gs) PROVE gs[i].id = i
  <2>1. CASE i = r + 1
    BY <1>1, <1>3, <1>5, <2>1
  <2>2. CASE i # r + 1
    <3>1. i \in 1..r
      BY <1>3, <1>5, <2>2
    <3>2. QED
      BY <1>2, <1>3, <1>5, <3>1
  <2>3. QED
    BY <2>1, <2>2
<1>7. PICK list \in Seq(Frame) : /\ list = Append(frames, f)
                                 /\ list = Slice(gs, a, r + 1)
  <2>1. a \in Nat /\ a <= Len(received)
    BY <1>3
  <2>2. Append(frames, f) = Slice(gs, a, r + 1)
    BY <1>2, <1>3, <1>cut, <1>5, <2>1, SliceGrows
  <2>3. Append(frames, f) \in Seq(Frame)
    BY <1>2, Appended
  <2>4. QED
    BY <2>2, <2>3, Zenon
<1>8. CutsTo(gs, cut, delivered, tasks, a)
  BY <1>2, <1>cut, <1>5, CutsKept DEF CutsTo
<1>9. \A i \in a + 1..r : i \in 1..r /\ ~gs[i].fin
  BY <1>3, <1>cut, <1>5
<1>10. f.fin => Whole(gs, a, r + 1)
  <2>1. a < r + 1 /\ r + 1 - 1 = r
    BY <1>3
  <2>2. QED
    BY <1>5, <1>9, <2>1 DEF Whole
<1>11. Slice(gs, r + 1, r + 1) = <<>>
  <2>1. r + 1 \in Nat /\ r + 1 <= r + 1 /\ r + 1 <= Len(gs) /\ r + 1 - (r + 1) = 0
    BY <1>3, <1>5
  <2>2. Slice(gs, r + 1, r + 1) \in Seq(Frame) /\ Len(Slice(gs, r + 1, r + 1)) = 0
    BY <2>1, SliceIs
  <2>3. QED
    BY <2>2, EmptySeq
<1>12. async' = async /\ func' = func
  BY DEF Frames!ReceiveFrame
<1>13. CASE ~f.fin /\ frames' = list /\ UNCHANGED <<tasks, left, delivered>>
  <2>1. \A i \in a + 1..r + 1 : ~gs[i].fin
    <3>1. \A i \in a + 1..r + 1 : i \in a + 1..r \/ i = r + 1
      BY <1>3
    <3>2. QED
      BY <1>5, <1>9, <1>13, <3>1
  <2>2. a \in 0..r + 1 /\ Len(received') = r + 1
    BY <1>3, <1>5
  <2>3. CutUp(cut)'
    BY <1>5, <1>7, <1>8, <1>13, <2>1, <2>2 DEF CutUp
  <2>4. QED
    BY <1>2, <1>7, <1>12, <1>13, <2>3 DEF Gathered
<1>14. CASE /\ f.fin /\ async /\ frames' = <<>> /\ tasks' = Append(tasks, list)
            /\ UNCHANGED <<left, delivered>>
  <2>1. r + 1 \in 0..Len(gs) /\ r + 1 \in 0..r + 1 /\ Len(received') = r + 1
    BY <1>3, <1>5
  <2>2. PICK c : CutsTo(gs, c, delivered, Append(tasks, list), r + 1)
    BY <1>2, <1>7, <1>8, <1>10, <1>14, <2>1, CutsTask
  <2>3. \A i : i \notin r + 1 + 1..r + 1
    BY <1>3
  <2>4. CutUp(c)'
    BY <1>5, <1>11, <1>14, <2>1, <2>2, <2>3 DEF CutUp
  <2>5. tasks' \in Seq(Seq(Frame)) /\ frames' \in Seq(Frame)
    BY <1>2, <1>7, <1>14, Appended, EmptySeq
  <2>6. QED
    BY <1>2, <1>12, <1>14, <2>4, <2>5 DEF Gathered
<1>15. CASE /\ f.fin /\ ~async /\ frames' = <<>> /\ Frames!ProcessFrames(list)
            /\ UNCHANGED tasks
  <2>1. r + 1 \in 0..Len(gs) /\ r + 1 \in 0..r + 1 /\ Len(received') = r + 1
    BY <1>3, <1>5
  <2>2. PICK x : /\ x = Message(gs, a, r + 1) /\ x \in HandlerCall
                 /\ delivered' = Append(delivered, x) /\ left' \in BOOLEAN
    <3>1. a \in Nat /\ r + 1 \in Nat /\ a < r + 1 /\ r + 1 <= Len(gs)
      BY <1>3, <1>5
    <3>2. QED
      BY <1>2, <1>6, <1>7, <1>15, <3>1, HandsOver
  <2>3. tasks = <<>>
    BY <1>2, <1>15
  <2>4. PICK c : CutsTo(gs, c, Append(delivered, x), <<>>, r + 1)
    <3>1. CutsTo(gs, cut, delivered, <<>>, a)
      BY <1>8, <2>3
    <3>2. QED
      BY <1>2, <1>6, <1>10, <1>15, <2>1, <2>2, <3>1, CutsCall
  <2>5. \A i : i \notin r + 1 + 1..r + 1
    BY <1>3
  <2>6. CutUp(c)'
    BY <1>5, <1>11, <1>15, <2>1, <2>2, <2>3, <2>4, <2>5 DEF CutUp
  <2>7. delivered' \in Seq(HandlerCall) /\ frames' \in Seq(Frame)
    BY <1>2, <1>15, <2>2, Appended, EmptySeq
  <2>8. QED
    BY <1>2, <1>12, <1>15, <2>2, <2>6, <2>7 DEF Gathered
<1>16. QED
  BY <1>1, <1>7, <1>13, <1>14, <1>15, Zenon DEF Frames!OnFrame

LEMMA TaskKeepsGathered ==
  ASSUME FramesInv, Frames!StartTask
  PROVE  Gathered'
<1>1. /\ received \in Seq(Frame) /\ frames \in Seq(Frame)
      /\ delivered \in Seq(HandlerCall) /\ tasks \in Seq(Seq(Frame)) /\ tasks # <<>>
      /\ \A i \in 1..Len(received) : received[i].id = i
      /\ left \in BOOLEAN /\ async \in BOOLEAN /\ func \in BOOLEAN
      /\ ~async => tasks = <<>>
  <2>1. /\ \A i \in 1..Len(received) : received[i] = sent[i]
        /\ \A i \in 1..Len(sent) : sent[i].id = i
        /\ received \in Seq(Frame) /\ sent \in Seq(Frame)
        /\ Len(received) <= Len(sent)
    BY DEF FramesInv, Numbered, Coded
  <2>2. \A i \in 1..Len(received) : i \in 1..Len(sent)
    BY <2>1, LenProperties
  <2>3. QED
    BY <2>1, <2>2 DEF FramesInv, Gathered, Frames!StartTask
<1>2. /\ tasks' = Tail(tasks) /\ Frames!ProcessFrames(Head(tasks))
      /\ UNCHANGED <<received, async, func, frames>>
  BY DEF Frames!StartTask
<1>3. PICK d \in Nat, t \in Nat : d = Len(delivered) /\ t = Len(tasks) /\ t > 0
  BY <1>1, LenProperties, EmptySeq
<1>4. PICK cut : \E e \in 0..Len(received) :
        /\ Cuts(received, cut, delivered, tasks) /\ cut[d + t] = e
        /\ frames = Slice(received, e, Len(received))
        /\ \A i \in e + 1..Len(received) : ~received[i].fin
  <2>1. PICK cut : CutUp(cut)
    BY DEF FramesInv, Gathered
  <2>2. QED
    BY <1>3, <2>1 DEF CutUp, CutsTo
<1>cut. PICK e \in 0..Len(received) :
        /\ Cuts(received, cut, delivered, tasks) /\ cut[d + t] = e
        /\ frames = Slice(received, e, Len(received))
        /\ \A i \in e + 1..Len(received) : ~received[i].fin
  BY <1>4
<1>5. PICK x : x = Message(received, cut[d], cut[d + 1])
  OBVIOUS
<1>6. /\ cut[d] \in Nat /\ cut[d + 1] \in Nat
      /\ cut[d] < cut[d + 1] /\ cut[d + 1] <= Len(received)
      /\ Head(tasks) = Slice(received, cut[d], cut[d + 1])
      /\ Cuts(received, cut, Append(delivered, x), Tail(tasks))
  <2>1. x = Message(received, cut[Len(delivered)], cut[Len(delivered) + 1])
    BY <1>3, <1>5
  <2>2. LET n == Len(delivered) IN
        /\ cut[n] \in Nat /\ cut[n + 1] \in Nat
        /\ cut[n] < cut[n + 1] /\ cut[n + 1] <= Len(received)
        /\ Head(tasks) = Slice(received, cut[n], cut[n + 1])
        /\ Cuts(received, cut, Append(delivered, x), Tail(tasks))
    BY <1>1, <1>cut, <2>1, CutsStart, Zenon
  <2>3. QED
    BY <1>3, <2>2, Zenon
<1>7. delivered' = Append(delivered, x) /\ x \in HandlerCall /\ left' \in BOOLEAN
  BY <1>1, <1>2, <1>5, <1>6, HandsOver
<1>8. tasks' \in Seq(Seq(Frame)) /\ Len(tasks') = t - 1
  BY <1>1, <1>2, <1>3, HeadTailProperties
<1>9. delivered' \in Seq(HandlerCall) /\ Len(delivered') = d + 1
  BY <1>1, <1>3, <1>7, Appended
<1>10. CutsTo(received, cut, delivered', tasks', e)
  <2>1. d + 1 + (t - 1) = d + t
    OBVIOUS
  <2>2. QED
    BY <1>2, <1>cut, <1>6, <1>7, <1>8, <1>9, <2>1 DEF CutsTo
<1>11. CutUp(cut)'
  BY <1>2, <1>cut, <1>10 DEF CutUp
<1>12. QED
  BY <1>1, <1>2, <1>7, <1>8, <1>9, <1>11 DEF Gathered

LEMMA SameWire ==
  ASSUME Coded, UNCHANGED <<sent, stream, received>>,
         loop' \in {"reading", "handling", "failed", "lost", "ended"},
         loop' \in {"failed", "lost"} => \E i \in 1..Len(sent) : ~Fits(sent[i])
  PROVE  Coded'
<1>1. PICK at : OnWire(at)
  BY DEF Coded
<1>2. OnWire(at)'
  BY <1>1 DEF OnWire
<1>3. QED
  BY <1>2 DEF Coded

LEMMA FramesStep ==
  ASSUME FramesInv, [Frames!Next]_fvars
  PROVE  FramesInv'
<1>1. ASSUME NEW op \in Frames!Data \cup Frames!Control \cup {"continuation"},
             NEW fin \in BOOLEAN, NEW masked \in BOOLEAN, NEW len \in Lengths,
             Frames!SendFrame(op, fin, len, masked)
      PROVE  FramesInv'
  BY <1>1, SendKeepsInv
<1>2. CASE Frames!ReceiveFrame
  <2>1. Numbered'
    BY <1>2 DEF FramesInv, Numbered, Frames!ReceiveFrame, Frames!sender
  <2>2. QED
    BY <1>2, <2>1, DecodeKeepsCoded, DecodeKeepsGathered DEF FramesInv
<1>3. CASE Frames!ReceiveTooLong
  <2>1. /\ UNCHANGED <<sent, inside, mixed, stream, received, async, func, frames, tasks,
                       delivered>>
        /\ loop' = "failed" /\ left' = TRUE
        /\ stream # <<>> /\ stream[1].value.len = 127
    BY <1>3 DEF Frames!ReceiveTooLong, Frames!sender
  <2>2. \E i \in 1..Len(sent) : ~Fits(sent[i])
    <3>1. PICK i : i = Len(received) + 1 /\ i \in 1..Len(sent)
      <4>1. sent \in Seq(Frame) /\ received \in Seq(Frame)
        BY DEF FramesInv, Numbered, Coded
      <4>2. Len(received) < Len(sent)
        BY <2>1, NextFrame
      <4>3. QED
        BY <4>1, <4>2, LenProperties
    <3>2. Huge(sent[i].len)
      BY <2>1, <3>1, NextFrame, TakesTheParts
    <3>3. ~Fits(sent[i])
      <4>1. sent[i].len \in Nat
        BY <2>1, <3>1, NextFrame DEF Frame
      <4>2. QED
        BY <3>2, <4>1 DEF Huge, Fits
    <3>4. QED
      BY <3>1, <3>3
  <2>3. Numbered' /\ Gathered'
    BY <2>1 DEF FramesInv, Numbered, Gathered, CutUp
  <2>4. Coded'
    BY <2>1, <2>2, SameWire DEF FramesInv
  <2>5. QED
    BY <2>3, <2>4 DEF FramesInv
<1>4. CASE Frames!ReceiveLost
  <2>1. /\ UNCHANGED <<sent, inside, mixed, stream, received, left, async, func, frames,
                       tasks, delivered>>
        /\ loop' = "lost" /\ Frames!PartsTaken = 0
        /\ stream # <<>>
    BY <1>4 DEF Frames!ReceiveLost, Frames!sender, Frames!handler
  <2>2. \E i \in 1..Len(sent) : ~Fits(sent[i])
    <3>1. PICK i : i = Len(received) + 1 /\ i \in 1..Len(sent)
      <4>1. sent \in Seq(Frame) /\ received \in Seq(Frame)
        BY DEF FramesInv, Numbered, Coded
      <4>2. Len(received) < Len(sent)
        BY <2>1, NextFrame
      <4>3. QED
        BY <4>1, <4>2, LenProperties
    <3>2. Parts(sent[i]) >= 2 /\ (Fits(sent[i]) => Frames!PartsTaken = Parts(sent[i]))
      BY <2>1, <3>1, NextFrame, TakesTheParts, Counts
    <3>3. ~Fits(sent[i])
      BY <2>1, <3>2
    <3>4. QED
      BY <3>1, <3>3
  <2>3. Numbered' /\ Gathered'
    BY <2>1 DEF FramesInv, Numbered, Gathered, CutUp
  <2>4. Coded'
    BY <2>1, <2>2, SameWire DEF FramesInv
  <2>5. QED
    BY <2>3, <2>4 DEF FramesInv
<1>5. CASE Frames!HandlerReturn \/ Frames!Cancelled
  <2>1. /\ UNCHANGED <<sent, inside, mixed, stream, received, left, async, func, frames,
                       tasks, delivered>>
        /\ loop' \in {"ended", "reading"}
    BY <1>5 DEF Frames!HandlerReturn, Frames!Cancelled, Frames!sender, Frames!handler
  <2>2. Numbered' /\ Gathered'
    BY <2>1 DEF FramesInv, Numbered, Gathered, CutUp
  <2>3. Coded'
    BY <2>1, SameWire DEF FramesInv
  <2>4. QED
    BY <2>2, <2>3 DEF FramesInv
<1>6. CASE Frames!StartTask
  <2>1. UNCHANGED <<sent, inside, mixed, stream, loop, received>>
    BY <1>6 DEF Frames!StartTask, Frames!sender
  <2>2. Numbered'
    BY <2>1 DEF FramesInv, Numbered
  <2>3. Coded'
    <3>1. /\ loop' \in {"reading", "handling", "failed", "lost", "ended"}
          /\ loop' \in {"failed", "lost"} => \E i \in 1..Len(sent) : ~Fits(sent[i])
      BY <2>1 DEF FramesInv, Coded
    <3>2. QED
      BY <2>1, <3>1, SameWire DEF FramesInv
  <2>4. QED
    BY <1>6, <2>2, <2>3, TaskKeepsGathered DEF FramesInv
<1>7. CASE UNCHANGED fvars
  <2>1. Numbered' /\ Gathered'
    BY <1>7 DEF fvars, FramesInv, Numbered, Gathered, CutUp
  <2>2. Coded'
    <3>1. /\ loop' \in {"reading", "handling", "failed", "lost", "ended"}
          /\ loop' \in {"failed", "lost"} => \E i \in 1..Len(sent) : ~Fits(sent[i])
      BY <1>7 DEF fvars, FramesInv, Coded
    <3>2. QED
      BY <1>7, <3>1, SameWire DEF fvars, FramesInv
  <2>3. QED
    BY <2>1, <2>2 DEF FramesInv
<1>8. CASE Frames!Receive
  BY <1>2, <1>3, <1>4, <1>5, <1>8, Zenon DEF Frames!Receive
<1>9. CASE Frames!Next
  BY <1>1, <1>6, <1>8, <1>9, Zenon DEF Frames!Next
<1>10. QED
  BY <1>7, <1>9
-----------------------------------------------------------------------------
(* A message cut out of a sequence of frames is one of the messages in it. *)
LEMMA IsAMessage ==
  ASSUME NEW fs \in Seq(Frame), NEW a \in Nat, NEW b \in Nat, b <= Len(fs),
         Whole(fs, a, b), a = 0 \/ fs[a].fin
  PROVE  [last |-> b, op |-> fs[a + 1].op, ids |-> [i \in 1..(b - a) |-> fs[a + i].id]]
           \in Frames!MessagesIn(fs)
<1>1. /\ a < b /\ fs[b].fin /\ \A i \in a + 1..b - 1 : ~fs[i].fin
  BY DEF Whole
<1>2. PICK n \in Nat : n = Len(fs)
  BY LenProperties
<1> DEFINE begins == {i \in 1..b : \A j \in i..(b - 1) : ~fs[j].fin}
           first == CHOOSE i \in begins : \A j \in begins : i <= j
<1>3. a + 1 \in begins
  BY <1>1
<1>4. ASSUME NEW j \in begins PROVE a + 1 <= j
  <2>1. SUFFICES ASSUME j <= a PROVE FALSE
    OBVIOUS
  <2>2. a \in j..(b - 1) /\ fs[a].fin
    BY <1>1, <2>1
  <2>3. QED
    BY <2>2
<1>5. first = a + 1
  <2>1. first \in begins /\ \A j \in begins : first <= j
    BY <1>3, <1>4
  <2>2. first \in 1..b
    BY <2>1
  <2> HIDE DEF first, begins
  <2>3. first <= a + 1 /\ a + 1 <= first
    BY <1>3, <1>4, <2>1
  <2>4. QED
    BY <2>2, <2>3
<1>6. b \in {i \in 1..Len(fs) : fs[i].fin}
  BY <1>1, <1>2
<1>7. [last |-> b, op |-> fs[first].op,
       ids |-> [i \in 1..(b + 1 - first) |-> fs[first + i - 1].id]] \in Frames!MessagesIn(fs)
  BY <1>6, Zenon DEF Frames!MessagesIn
<1> HIDE DEF first, begins
<1>8. [i \in 1..(b + 1 - first) |-> fs[first + i - 1].id]
        = [i \in 1..(b - a) |-> fs[a + i].id]
  <2>1. b + 1 - first = b - a
    BY <1>5
  <2>2. \A i \in 1..(b - a) : first + i - 1 = a + i
    BY <1>5
  <2>3. QED
    BY <2>1, <2>2
<1>9. QED
  BY <1>5, <1>7, <1>8, Zenon

LEMMA DeliveredIs ==
  ASSUME FramesInv, NEW cut, Cuts(received, cut, delivered, tasks),
         NEW k \in 1..Len(delivered)
  PROVE  /\ cut[k - 1] \in Nat /\ cut[k] \in Nat /\ cut[k] <= Len(sent)
         /\ Whole(sent, cut[k - 1], cut[k])
         /\ cut[k - 1] = 0 \/ sent[cut[k - 1]].fin
         /\ delivered[k] = Message(sent, cut[k - 1], cut[k])
<1>1. /\ received \in Seq(Frame) /\ sent \in Seq(Frame) /\ Len(received) <= Len(sent)
      /\ delivered \in Seq(HandlerCall) /\ tasks \in Seq(Seq(Frame))
      /\ \A i \in 1..Len(received) : received[i] = sent[i]
  BY DEF FramesInv, Numbered, Coded, Gathered
<1>2. PICK r \in Nat, d \in Nat, t \in Nat :
        r = Len(received) /\ d = Len(delivered) /\ t = Len(tasks)
  BY <1>1, LenProperties
<1>3. /\ cut \in [0..d + t -> 0..r] /\ cut[0] = 0
      /\ \A j \in 1..d + t : Whole(received, cut[j - 1], cut[j])
      /\ \A j \in 1..d : delivered[j] = Message(received, cut[j - 1], cut[j])
  BY <1>2 DEF Cuts
<1>4. /\ k \in 1..d /\ k \in 1..d + t /\ k \in 0..d + t /\ k - 1 \in 0..d + t
  BY <1>2
<1>5. PICK a \in 0..r, b \in 0..r : a = cut[k - 1] /\ b = cut[k]
  BY <1>3, <1>4
<1>6. /\ a < b /\ received[b].fin /\ \A i \in a + 1..b - 1 : ~received[i].fin
  BY <1>3, <1>4, <1>5 DEF Whole
<1>7. /\ b \in 1..r /\ a + 1 \in 1..r /\ \A i \in a + 1..b - 1 : i \in 1..r
  BY <1>6
<1>8. Whole(sent, a, b)
  BY <1>1, <1>2, <1>6, <1>7 DEF Whole
<1>9. delivered[k] = Message(sent, a, b)
  <2>1. received[a + 1] = sent[a + 1]
    BY <1>1, <1>2, <1>7
  <2>2. delivered[k] = Message(received, a, b)
    BY <1>3, <1>4, <1>5
  <2>3. QED
    BY <2>1, <2>2, Zenon DEF Message
<1>10. a = 0 \/ sent[a].fin
  <2>1. CASE k = 1
    BY <1>3, <1>5, <2>1
  <2>2. CASE k # 1
    <3>1. k - 1 \in 1..d + t
      BY <1>4, <2>2
    <3>2. Whole(received, cut[k - 1 - 1], a)
      BY <1>3, <1>5, <3>1
    <3>3. received[a].fin
      BY <3>2 DEF Whole
    <3>4. a = 0 \/ a \in 1..r
      OBVIOUS
    <3>5. QED
      BY <1>1, <1>2, <3>3, <3>4
  <2>3. QED
    BY <2>1, <2>2
<1>11. b <= Len(sent)
  BY <1>1, <1>2, LenProperties
<1>12. QED
  BY <1>5, <1>8, <1>9, <1>10, <1>11

LEMMA IdsAre ==
  ASSUME NEW a \in Nat, NEW b \in Nat, a < b
  PROVE  /\ Ids(a, b) \in Seq(Nat) /\ Len(Ids(a, b)) = b - a
         /\ Head(Ids(a, b)) = a + 1 /\ Ids(a, b)[1] = a + 1 /\ Frames!Last(Ids(a, b)) = b
<1>1. b - a \in Nat /\ b - a > 0 /\ \A i \in 1..b - a : a + i \in Nat
  OBVIOUS
<1>2. /\ Ids(a, b) \in Seq(Nat) /\ Len(Ids(a, b)) = b - a
      /\ \A i \in 1..b - a : Ids(a, b)[i] = a + i
  BY <1>1 DEF Ids
<1>3. 1 \in 1..b - a /\ b - a \in 1..b - a /\ a + (b - a) = b
  BY <1>1
<1>4. Ids(a, b)[1] = a + 1 /\ Ids(a, b)[b - a] = b
  BY <1>2, <1>3
<1>5. Head(Ids(a, b)) = Ids(a, b)[1]
  BY <1>1, <1>2
<1>6. Frames!Last(Ids(a, b)) = Ids(a, b)[b - a]
  BY <1>2 DEF Frames!Last
<1>7. QED
  BY <1>2, <1>4, <1>5, <1>6

LEMMA WholeSlice ==
  ASSUME NEW fs \in Seq(Frame), NEW a \in Nat, NEW b \in Nat, b <= Len(fs),
         Whole(fs, a, b), NEW list, list = Slice(fs, a, b)
  PROVE  /\ Len(list) \in 1..Len(list) /\ list[Len(list)].fin
         /\ \A i \in 1..Len(list) : list[i].fin => i = Len(list)
<1>1. a < b /\ a <= b /\ fs[b].fin /\ \A i \in a + 1..b - 1 : ~fs[i].fin
  BY DEF Whole
<1>2. Len(list) = b - a /\ \A i \in 1..b - a : list[i] = fs[a + i]
  <2>1. a <= b /\ b <= Len(fs)
    BY <1>1
  <2>2. /\ Slice(fs, a, b) \in Seq(Frame) /\ Len(Slice(fs, a, b)) = b - a
        /\ \A i \in 1..b - a : Slice(fs, a, b)[i] = fs[a + i]
    BY <2>1, SliceIs, Zenon
  <2>3. list = Slice(fs, a, b)
    OBVIOUS
  <2>4. QED
    BY <2>2, <2>3
<1>3. b - a \in 1..b - a /\ a + (b - a) = b
  BY <1>1
<1>4. list[b - a].fin
  BY <1>1, <1>2, <1>3
<1>5. ASSUME NEW i \in 1..b - a, i # b - a PROVE ~list[i].fin
  <2>1. a + i \in a + 1..b - 1
    BY <1>5
  <2>2. QED
    BY <1>1, <1>2, <2>1
<1>6. QED
  BY <1>2, <1>3, <1>4, <1>5

LEMMA TypesHold ==
  ASSUME FramesInv
  PROVE  Frames!TypeOK
<1>1. /\ inside \in BOOLEAN /\ mixed \in BOOLEAN /\ left \in BOOLEAN
      /\ Len(received) <= Len(sent) /\ Len(sent) <= MaxFrames
      /\ loop \in {"reading", "handling", "failed", "lost", "ended"}
  BY DEF FramesInv, Numbered, Coded, Gathered
<1>2. \A i \in 1..Len(stream) : stream[i].part \in {"head", "length", "key", "payload"}
  <2>1. \A i \in 1..Len(stream) : stream[i] \in Portion
    BY ElementOfSeq DEF FramesInv, Coded
  <2>2. QED
    BY <2>1 DEF Portion
<1>3. PICK cut : CutUp(cut)
  BY DEF FramesInv, Gathered
<1>4. PICK e \in 0..Len(received) :
        /\ Cuts(received, cut, delivered, tasks)
        /\ frames = Slice(received, e, Len(received))
        /\ \A i \in e + 1..Len(received) : ~received[i].fin
  BY <1>3 DEF CutUp, CutsTo
<1>5. /\ received \in Seq(Frame) /\ delivered \in Seq(HandlerCall) /\ tasks \in Seq(Seq(Frame))
  BY DEF FramesInv, Coded, Gathered
<1>6. PICK r \in Nat, d \in Nat, t \in Nat :
        r = Len(received) /\ d = Len(delivered) /\ t = Len(tasks)
  BY <1>5, LenProperties
<1>7. Len(frames) = r - e /\ \A i \in 1..r - e : ~frames[i].fin
  <2>1. e \in Nat /\ r \in Nat /\ e <= r /\ r <= Len(received)
    BY <1>6
  <2>2. /\ Len(Slice(received, e, r)) = r - e
        /\ \A i \in 1..r - e : Slice(received, e, r)[i] = received[e + i]
    BY <1>5, <2>1, SliceIs
  <2>3. \A i \in 1..r - e : e + i \in e + 1..r
    BY <2>1
  <2>4. QED
    BY <1>4, <1>6, <2>2, <2>3
<1>8. ASSUME NEW k \in 1..t
      PROVE  /\ Len(tasks[k]) \in 1..Len(tasks[k]) /\ tasks[k][Len(tasks[k])].fin
             /\ \A i \in 1..Len(tasks[k]) : tasks[k][i].fin => i = Len(tasks[k])
  <2>1. /\ cut \in [0..d + t -> 0..r]
        /\ \A j \in 1..d + t : Whole(received, cut[j - 1], cut[j])
        /\ tasks[k] = Slice(received, cut[d + k - 1], cut[d + k])
    BY <1>4, <1>6 DEF Cuts
  <2>2. d + k \in 1..d + t /\ d + k \in 0..d + t /\ d + k - 1 \in 0..d + t
    OBVIOUS
  <2>3. PICK a \in 0..r, b \in 0..r : a = cut[d + k - 1] /\ b = cut[d + k]
    BY <2>1, <2>2
  <2>4. a < b /\ received[b].fin /\ \A i \in a + 1..b - 1 : ~received[i].fin
    <3>1. PICK j \in 1..d + t : j = d + k
      BY <2>2
    <3>2. Whole(received, cut[j - 1], cut[j])
      BY <2>1
    <3>3. Whole(received, a, b)
      BY <2>3, <3>1, <3>2
    <3>4. QED
      BY <3>3 DEF Whole
  <2>5. a \in Nat /\ b \in Nat /\ b <= Len(received)
    BY <1>6
  <2>6. Whole(received, a, b) /\ tasks[k] = Slice(received, a, b)
    BY <2>1, <2>3, <2>4 DEF Whole
  <2>7. QED
    BY <1>5, <2>5, <2>6, WholeSlice
<1>9. \A list \in {frames} \cup Frames!ToSet(tasks) : \A i \in 1..Len(list) :
        list[i].fin => i = Len(list) /\ list # frames
  <2>1. ASSUME NEW list \in Frames!ToSet(tasks), NEW i \in 1..Len(list), list[i].fin
        PROVE  i = Len(list) /\ list # frames
    <3>1. PICK k \in 1..t : list = tasks[k]
      BY <1>5, <1>6, LenProperties DEF Frames!ToSet
    <3>2. i = Len(list)
      BY <1>8, <2>1, <3>1
    <3>3. list # frames
      BY <1>7, <2>1
    <3>4. QED
      BY <3>2, <3>3
  <2>2. ASSUME NEW i \in 1..Len(frames) PROVE ~frames[i].fin
    BY <1>7
  <2>3. QED
    BY <2>1, <2>2
<1>10. QED
  BY <1>1, <1>2, <1>9 DEF Frames!TypeOK

LEMMA ExactFollows ==
  ASSUME FramesInv
  PROVE  FramesExact
<1>1. ASSUME Frames!Agreed
      PROVE  Frames!IsPrefix(received, sent) /\ loop \notin {"failed", "lost"}
  <2>1. /\ received \in Seq(Frame) /\ sent \in Seq(Frame) /\ Len(received) <= Len(sent)
        /\ \A i \in 1..Len(received) : received[i] = sent[i]
    BY DEF FramesInv, Numbered, Coded
  <2>2. PICK r \in Nat, n \in Nat : r = Len(received) /\ n = Len(sent) /\ r <= n
    BY <2>1, LenProperties
  <2>3. /\ \A i \in 1..r : received[i] \in Frame
        /\ \A i \in 1..r : i \in 1..n
    BY <2>1, <2>2, ElementOfSeq
  <2>4. SubSeq(received, 1, r) = SubSeq(sent, 1, r)
    <3>1. 1 \in Int /\ r \in Int /\ r - 1 + 1 = r
      OBVIOUS
    <3>2. /\ SubSeq(received, 1, r) \in Seq(Frame)
          /\ Len(SubSeq(received, 1, r)) = IF 1 <= r THEN r - 1 + 1 ELSE 0
          /\ \A i \in 1..r - 1 + 1 : SubSeq(received, 1, r)[i] = received[1 + i - 1]
      BY <2>3, <3>1, SubSeqProperties
    <3>3. /\ SubSeq(sent, 1, r) \in Seq(Frame)
          /\ Len(SubSeq(sent, 1, r)) = IF 1 <= r THEN r - 1 + 1 ELSE 0
          /\ \A i \in 1..r - 1 + 1 : SubSeq(sent, 1, r)[i] = sent[1 + i - 1]
      <4>1. \A i \in 1..r : sent[i] \in Frame
        BY <2>1, <2>2, <2>3
      <4>2. QED
        BY <3>1, <4>1, SubSeqProperties
    <3>4. Len(SubSeq(received, 1, r)) = r /\ Len(SubSeq(sent, 1, r)) = r
      BY <3>2, <3>3
    <3>5. ASSUME NEW i \in 1..r PROVE SubSeq(received, 1, r)[i] = SubSeq(sent, 1, r)[i]
      <4>1. i \in 1..r - 1 + 1 /\ 1 + i - 1 = i
        OBVIOUS
      <4>2. QED
        BY <2>1, <2>2, <3>2, <3>3, <4>1
    <3>6. QED
      BY <3>2, <3>3, <3>4, <3>5, SeqEqual
  <2>5. Frames!IsPrefix(received, sent)
    BY <2>2, <2>4 DEF Frames!IsPrefix
  <2>6. loop \notin {"failed", "lost"}
    BY <1>1 DEF FramesInv, Coded, Frames!Agreed, Fits
  <2>7. QED
    BY <2>5, <2>6
<1>2. QED
  BY <1>1, TypesHold DEF FramesExact, Frames!FramesExact

LEMMA OrderFollows ==
  ASSUME FramesInv
  PROVE  MessagesInOrder
<1>1. SUFFICES ASSUME ~mixed
      PROVE  /\ \A i \in 1..Len(delivered) : \E m \in Frames!MessagesIn(sent) :
                  /\ m.op = delivered[i].op /\ m.ids = delivered[i].ids
                  /\ m.op # "continuation"
             /\ \A i \in 1..Len(delivered) - 1 :
                  Frames!Last(delivered[i].ids) + 1 = Head(delivered[i + 1].ids)
             /\ delivered # <<>> => delivered[1].ids[1] = 1
  BY DEF MessagesInOrder, Frames!MessagesInOrder
<1>2. PICK cut : Cuts(received, cut, delivered, tasks)
  BY DEF FramesInv, Gathered, CutUp, CutsTo
<1>3. /\ sent \in Seq(Frame) /\ delivered \in Seq(HandlerCall)
      /\ \A i \in 1..Len(sent) : sent[i].id = i
      /\ \A i \in 1..Len(sent) : sent[i].op = "continuation" => i > 1 /\ ~sent[i - 1].fin
  BY <1>1 DEF FramesInv, Numbered, Gathered
<1>4. PICK n \in Nat, d \in Nat : n = Len(sent) /\ d = Len(delivered)
  BY <1>3, LenProperties
<1>5. ASSUME NEW k \in 1..d
      PROVE  /\ cut[k - 1] \in Nat /\ cut[k] \in Nat /\ cut[k - 1] < cut[k]
             /\ cut[k] <= n
             /\ delivered[k].op = sent[cut[k - 1] + 1].op
             /\ delivered[k].ids = Ids(cut[k - 1], cut[k])
  <2>1. /\ cut[k - 1] \in Nat /\ cut[k] \in Nat /\ cut[k] <= Len(sent)
        /\ Whole(sent, cut[k - 1], cut[k])
        /\ delivered[k] = Message(sent, cut[k - 1], cut[k])
    BY <1>2, <1>4, DeliveredIs
  <2>2. cut[k - 1] < cut[k]
    BY <2>1 DEF Whole
  <2>3. /\ delivered[k].op = sent[cut[k - 1] + 1].op
        /\ delivered[k].ids = Ids(cut[k - 1], cut[k])
    BY <2>1 DEF Message
  <2>4. QED
    BY <1>4, <2>1, <2>2, <2>3
<1>6. ASSUME NEW k \in 1..d
      PROVE  \E m \in Frames!MessagesIn(sent) :
               /\ m.op = delivered[k].op /\ m.ids = delivered[k].ids
               /\ m.op # "continuation"
  <2>1. PICK a \in Nat, b \in Nat : a = cut[k - 1] /\ b = cut[k]
    BY <1>5
  <2>2. /\ b <= Len(sent) /\ Whole(sent, a, b) /\ (a = 0 \/ sent[a].fin)
    BY <1>2, <1>4, <2>1, DeliveredIs
  <2>3. [last |-> b, op |-> sent[a + 1].op, ids |-> [i \in 1..(b - a) |-> sent[a + i].id]]
          \in Frames!MessagesIn(sent)
    BY <1>3, <2>2, IsAMessage
  <2>4. [i \in 1..(b - a) |-> sent[a + i].id] = Ids(a, b)
    <3>1. \A i \in 1..(b - a) : sent[a + i].id = a + i
      BY <1>3, <1>4, <2>2
    <3>2. QED
      BY <3>1 DEF Ids
  <2>5. sent[a + 1].op # "continuation"
    <3>1. a + 1 \in 1..n /\ a + 1 - 1 = a
      BY <1>4, <1>5, <2>1
    <3>2. QED
      BY <1>3, <1>4, <2>2, <3>1
  <2>6. PICK m \in Frames!MessagesIn(sent) : m.op = sent[a + 1].op /\ m.ids = Ids(a, b)
    BY <2>3, <2>4
  <2>7. QED
    BY <1>5, <2>1, <2>5, <2>6
<1>7. ASSUME NEW k \in 1..d - 1
      PROVE  Frames!Last(delivered[k].ids) + 1 = Head(delivered[k + 1].ids)
  <2>1. k \in 1..d /\ k + 1 \in 1..d /\ k + 1 - 1 = k
    OBVIOUS
  <2>2. Frames!Last(delivered[k].ids) = cut[k]
    <3>1. /\ cut[k - 1] \in Nat /\ cut[k] \in Nat /\ cut[k - 1] < cut[k]
          /\ delivered[k].ids = Ids(cut[k - 1], cut[k])
      BY <1>5, <2>1
    <3>2. QED
      BY <3>1, IdsAre
  <2>3. Head(delivered[k + 1].ids) = cut[k] + 1
    <3>1. /\ cut[k] \in Nat /\ cut[k + 1] \in Nat /\ cut[k] < cut[k + 1]
          /\ delivered[k + 1].ids = Ids(cut[k], cut[k + 1])
      BY <1>5, <2>1
    <3>2. QED
      BY <3>1, IdsAre
  <2>4. QED
    BY <2>2, <2>3
<1>8. ASSUME delivered # <<>> PROVE delivered[1].ids[1] = 1
  <2>1. 1 \in 1..d /\ 1 - 1 = 0
    BY <1>3, <1>4, <1>8, EmptySeq
  <2>2. cut[0] = 0
    BY <1>2 DEF Cuts
  <2>3. delivered[1].ids[1] = 0 + 1
    <3>1. PICK b \in Nat : 0 < b /\ delivered[1].ids = Ids(0, b)
      BY <1>5, <2>1, <2>2
    <3>2. QED
      BY <3>1, IdsAre
  <2>4. QED
    BY <2>3
<1>9. QED
  BY <1>4, <1>6, <1>7, <1>8
-----------------------------------------------------------------------------
(* The invariant of the frames: on a stream that one receive task reads.   *)
THEOREM FramesInvariance == OneStream => []FramesInv
<1>1. StreamInit => FramesInv
  BY FramesBegin DEF StreamInit
<1>2. ASSUME FramesInv, [Rest(Frames!Next)]_<<vars, fvars>>
      PROVE  FramesInv'
  <2>1. [Frames!Next]_fvars
    BY <1>2 DEF Rest
  <2>2. QED
    BY <1>2, <2>1, FramesStep
<1>3. QED
  BY <1>1, <1>2, PTL DEF OneStream

(* FramesExact: whatever is sent, decode() gives what encode() was given,  *)
(* frame by frame, as long as no payload has 126 bytes or more than 65535. *)
THEOREM FramesSurvive == OneStream => []FramesExact
<1>1. FramesInv => FramesExact
  BY ExactFollows
<1>2. QED
  BY <1>1, FramesInvariance, PTL

(* MessagesInOrder: each call of a handler is for the frames of exactly    *)
(* one message, and the messages come in the order they were sent, handled *)
(* at once or in tasks, unless a control frame came inside a message.      *)
THEOREM MessagesAreWhole == OneStream => []MessagesInOrder
<1>1. FramesInv => MessagesInOrder
  BY OrderFollows
<1>2. QED
  BY <1>1, FramesInvariance, PTL
-----------------------------------------------------------------------------
(***************************************************************************)
(* The connections and tasks of the processor.                             *)
(***************************************************************************)
USE TasksAssumption, BoundsAssumption

Active(g) == rpc[g] \in {"scheduled", "reading", "handling"}

(* Which generations exist, and who made them.                             *)
Made ==
  /\ conn = recv
  /\ \A g \in Gens : g > opens =>
       cst[g] = "none" /\ cl[g] = "none" /\ rpc[g] = "none" /\ ~cancelled[g]
  /\ \A o \in Openers : opening[o] # 0 =>
       /\ ~service
       /\ cst[opening[o]] = "open" /\ cl[opening[o]] = "none"
       /\ rpc[opening[o]] = "none" /\ conn # opening[o]
  /\ \A o, p \in Openers : opening[o] # 0 /\ opening[o] = opening[p] => o = p
  /\ conn # 0 => cst[conn] = "open" /\ cl[conn] = "none"

(* What a _close() task has captured and done.                             *)
Closes ==
  \A g \in Gens :
    /\ cl[g] # "none" => victim[g] = g
    /\ cancelled[g] <=> cl[g] \in {"closing", "done"}
    /\ cl[g] \in {"closing", "done"} => cst[g] # "open"

(* As long as no two open() calls overlap: while one is at work the client *)
(* is closed, and every _close() that is due was due when it was called.   *)
OneAtATime ==
  overlapped \/
    /\ \A o, p \in Openers : opening[o] # 0 /\ opening[p] # 0 => o = p
    /\ \A o \in Openers : opening[o] # 0 =>
         /\ closed
         /\ \A g \in Gens : cl[g] = "scheduled" => g \in earlier[o]
    /\ ~closed => \A g \in Gens : cl[g] # "scheduled"

(* Then a receive task that is not told to end belongs to the current      *)
(* connection, or to one whose _close() is due.                            *)
Receivers ==
  overlapped \/ \A g \in Gens :
    /\ rpc[g] \in {"reading", "handling"} => rconn[g] = g
    /\ Active(g) /\ ~cancelled[g] => recv = g \/ cl[g] = "scheduled"

(* Who waits for the lock is in its queue, and who sends is at its head    *)
(* and has written the last piece.                                         *)
LockHeld ==
  \A k \in Senders :
    /\ spc[k] # "idle" => \E i \in 1..Len(lockq) : lockq[i] = k
    /\ spc[k] = "sending" => /\ lockq[1] = k
                             /\ wire[sconn[k]] = <<k, piece[k]>>
                             /\ piece[k] > 0

IInv == NoLeak /\ Made /\ Closes /\ OneAtATime /\ Receivers /\ LockHeld
-----------------------------------------------------------------------------
(* TypeOK in two parts: the client with its tasks, and the senders.        *)
ClientTypes ==
  /\ service \in BOOLEAN /\ closed \in BOOLEAN /\ overlapped \in BOOLEAN
  /\ opens \in 0..MaxOpens /\ conn \in 0..opens /\ recv \in 0..opens
  /\ cst \in [Gens -> {"none", "open", "closing", "closed"}]
  /\ opening \in [Openers -> 0..opens]
  /\ earlier \in [Openers -> SUBSET Gens]
  /\ cl \in [Gens -> {"none", "scheduled", "closing", "done"}]
  /\ victim \in [Gens -> 0..opens]
  /\ rpc \in [Gens -> {"none", "scheduled", "reading", "handling", "ended"}]
  /\ rconn \in [Gens -> 0..opens]
  /\ cancelled \in [Gens -> BOOLEAN]
  /\ closed <=> conn = 0
  /\ closed <=> recv = 0

SendTypes ==
  /\ spc \in [Senders -> {"idle", "waiting", "sending"}]
  /\ sends \in [Senders -> 0..MaxSends]
  /\ sconn \in [Senders -> 0..opens]
  /\ piece \in [Senders -> 0..Pieces]
  /\ lockq \in Seq(Senders)
  /\ wire \in [0..MaxOpens -> (Senders \cup {Nobody}) \X (1..Pieces)]

LEMMA Types == TypeOK <=> ClientTypes /\ SendTypes
BY DEF TypeOK, ClientTypes, SendTypes

LEMMA InitIInv == Init => IInv
<1> SUFFICES ASSUME Init PROVE IInv
  OBVIOUS
<1>1. ClientTypes
  <2>1. opens \in 0..MaxOpens /\ conn \in 0..opens /\ recv \in 0..opens
    BY DEF Init
  <2>2. opening \in [Openers -> 0..opens] /\ earlier \in [Openers -> SUBSET Gens]
    BY DEF Init
  <2>3. victim \in [Gens -> 0..opens] /\ rconn \in [Gens -> 0..opens]
    BY DEF Init
  <2>4. cancelled \in [Gens -> BOOLEAN]
    BY DEF Init
  <2>5. QED
    BY <2>1, <2>2, <2>3, <2>4 DEF Init, ClientTypes
<1>2. SendTypes
  <2>1. lockq \in Seq(Senders)
    BY DEF Init
  <2>2. wire \in [0..MaxOpens -> (Senders \cup {Nobody}) \X (1..Pieces)]
    BY DEF Init
  <2>3. QED
    BY <2>1, <2>2 DEF Init, SendTypes
<1>3. TypeOK
  BY <1>1, <1>2, Types
<1>4. \A g \in Gens : /\ cst[g] = "none" /\ cl[g] = "none" /\ rpc[g] = "none"
                      /\ cancelled[g] = FALSE
  BY DEF Init
<1>5. Made /\ OneAtATime /\ Closes
  BY <1>4 DEF Init, Made, OneAtATime, Closes
<1>6. Receivers /\ NoLeak
  BY <1>3, <1>4 DEF Receivers, Active, NoLeak
<1>7. LockHeld
  BY DEF Init, LockHeld
<1>8. QED
  BY <1>5, <1>6, <1>7 DEF IInv

LEMMA Generations ==
  ASSUME ClientTypes
  PROVE  /\ \A p \in Openers : opening[p] # 0 => opening[p] \in Gens
         /\ conn # 0 => conn \in Gens
         /\ closed => conn = 0 /\ recv = 0
BY DEF ClientTypes, Gens

(* What a step that has nothing to do with senders leaves of them.         *)
LEMMA SendersRest ==
  ASSUME IInv, UNCHANGED send, opens' \in Nat, opens <= opens', ClientTypes'
  PROVE  TypeOK' /\ LockHeld'
<1>1. SendTypes /\ opens \in Nat
  BY Types DEF IInv, NoLeak, TypeOK
<1>2. sconn' \in [Senders -> 0..opens']
  BY <1>1 DEF SendTypes, send
<1>3. SendTypes'
  BY <1>1, <1>2 DEF SendTypes, send
<1>4. LockHeld'
  BY DEF IInv, LockHeld, send
<1>5. QED
  BY <1>3, <1>4 DEF TypeOK, ClientTypes, SendTypes

LEMMA OpenCallStep ==
  ASSUME IInv, NEW o \in Openers, OpenCall(o)
  PROVE  IInv'
<1> USE DEF OpenCall, state, close, receive, send
<1>1. ClientTypes
  BY Types DEF IInv, NoLeak
<1>0. /\ \A p \in Openers : opening[p] # 0 => opening[p] \in Gens
      /\ conn # 0 => conn \in Gens
      /\ closed => conn = 0 /\ recv = 0
  BY <1>1, Generations
<1>2. /\ opens \in Nat /\ opens' = opens + 1 /\ opens' \in Gens /\ opens' \in Nat /\ closed /\ ~service
      /\ opening[o] = 0
      /\ \A g \in Gens : cst'[g] = IF g = opens' THEN "open" ELSE cst[g]
      /\ \A p \in Openers : opening'[p] = IF p = o THEN opens' ELSE opening[p]
      /\ \A p \in Openers : p # o => earlier'[p] = earlier[p]
      /\ earlier'[o] = {g \in Gens : cl[g] = "scheduled"}
      /\ UNCHANGED <<service, closed, conn, recv, cl, victim, rpc, rconn, cancelled>>
  BY <1>1 DEF ClientTypes, Gens
<1>11. overlapped' \/ (~overlapped /\ \A p \in Openers : opening[p] = 0)
  BY <1>1 DEF ClientTypes
<1>3. ClientTypes'
  <2>0. service' \in BOOLEAN /\ closed' \in BOOLEAN /\ overlapped' \in BOOLEAN
    BY <1>1 DEF ClientTypes
  <2>1. /\ opens' \in 0..MaxOpens /\ conn' \in 0..opens' /\ recv' \in 0..opens'
        /\ closed' <=> conn' = 0
        /\ closed' <=> recv' = 0
    BY <1>1, <1>2 DEF ClientTypes, Gens
  <2>2. /\ cst' \in [Gens -> {"none", "open", "closing", "closed"}]
        /\ cl' \in [Gens -> {"none", "scheduled", "closing", "done"}]
        /\ rpc' \in [Gens -> {"none", "scheduled", "reading", "handling", "ended"}]
        /\ cancelled' \in [Gens -> BOOLEAN]
    BY <1>1, <1>2 DEF ClientTypes
  <2>3. /\ opening' \in [Openers -> 0..opens'] /\ earlier' \in [Openers -> SUBSET Gens]
        /\ victim' \in [Gens -> 0..opens'] /\ rconn' \in [Gens -> 0..opens']
    BY <1>1, <1>2 DEF ClientTypes
  <2>4. QED
    BY <2>0, <2>1, <2>2, <2>3 DEF ClientTypes
<1>4. (TypeOK /\ LockHeld)'
  BY <1>2, <1>3, SendersRest
<1>5. NoLeak'
  BY <1>0, <1>2, <1>4, <1>11 DEF IInv, NoLeak, Kept, OneAtATime, Made, Gens
<1>6. Made'
  BY <1>0, <1>2 DEF IInv, Made, Gens
<1>7. Closes'
  BY <1>2 DEF IInv, Made, Closes, Gens
<1>8. OneAtATime'
  BY <1>2, <1>11 DEF IInv, Made, OneAtATime, Gens
<1>9. Receivers'
  BY <1>0, <1>2, <1>11 DEF IInv, Made, Closes, OneAtATime, Receivers, Active, Gens
<1>10. QED
  BY <1>4, <1>5, <1>6, <1>7, <1>8, <1>9 DEF IInv

LEMMA OpenReturnStep ==
  ASSUME IInv, NEW o \in Openers, OpenReturn(o)
  PROVE  IInv'
<1> USE DEF OpenReturn, close, send
<1>1. ClientTypes
  BY Types DEF IInv, NoLeak
<1>0. /\ \A p \in Openers : opening[p] # 0 => opening[p] \in Gens
      /\ conn # 0 => conn \in Gens
      /\ closed => conn = 0 /\ recv = 0
  BY <1>1, Generations
<1>2. /\ opening[o] # 0 /\ opening[o] \in Gens /\ opening[o] <= opens /\ opens \in Nat
      /\ conn' = opening[o] /\ recv' = opening[o] /\ closed' = FALSE
      /\ \A e \in earlier[o] : cl[e] # "scheduled"
      /\ \A g \in Gens : rpc'[g] = IF g = opening[o] THEN "scheduled" ELSE rpc[g]
      /\ \A p \in Openers : opening'[p] = IF p = o THEN 0 ELSE opening[p]
      /\ \A p \in Openers : p # o => earlier'[p] = earlier[p]
      /\ UNCHANGED <<service, opens, overlapped, cst, cl, victim, rconn, cancelled>>
  BY <1>1 DEF ClientTypes, Gens
<1>3. ClientTypes'
  <2>0. service' \in BOOLEAN /\ closed' \in BOOLEAN /\ overlapped' \in BOOLEAN
    BY <1>1 DEF ClientTypes
  <2>1. /\ opens' \in 0..MaxOpens /\ conn' \in 0..opens' /\ recv' \in 0..opens'
        /\ closed' <=> conn' = 0
        /\ closed' <=> recv' = 0
    BY <1>1, <1>2 DEF ClientTypes, Gens
  <2>2. /\ cst' \in [Gens -> {"none", "open", "closing", "closed"}]
        /\ cl' \in [Gens -> {"none", "scheduled", "closing", "done"}]
        /\ rpc' \in [Gens -> {"none", "scheduled", "reading", "handling", "ended"}]
        /\ cancelled' \in [Gens -> BOOLEAN]
    BY <1>1, <1>2 DEF ClientTypes
  <2>3. /\ opening' \in [Openers -> 0..opens'] /\ earlier' \in [Openers -> SUBSET Gens]
        /\ victim' \in [Gens -> 0..opens'] /\ rconn' \in [Gens -> 0..opens']
    BY <1>1, <1>2 DEF ClientTypes
  <2>4. QED
    BY <2>0, <2>1, <2>2, <2>3 DEF ClientTypes
<1>4. (TypeOK /\ LockHeld)'
  BY <1>2, <1>3, SendersRest
<1>5. NoLeak'
  BY <1>0, <1>2, <1>4 DEF IInv, NoLeak, Kept, OneAtATime, Made, Gens
<1>6. Made'
  BY <1>0, <1>2 DEF IInv, Made, Gens
<1>7. Closes'
  BY <1>2 DEF IInv, Made, Closes, Gens
<1>8. OneAtATime'
  BY <1>2 DEF IInv, Made, OneAtATime, Gens
<1>9. Receivers'
  BY <1>0, <1>2 DEF IInv, Made, Closes, OneAtATime, Receivers, Active, Gens
<1>10. QED
  BY <1>4, <1>5, <1>6, <1>7, <1>8, <1>9 DEF IInv

LEMMA OpenRaiseStep ==
  ASSUME IInv, NEW o \in Openers, OpenRaise(o)
  PROVE  IInv'
<1> USE DEF OpenRaise, state, close, receive, send
<1>1. ClientTypes
  BY Types DEF IInv, NoLeak
<1>0. /\ \A p \in Openers : opening[p] # 0 => opening[p] \in Gens
      /\ conn # 0 => conn \in Gens
      /\ closed => conn = 0 /\ recv = 0
  BY <1>1, Generations
<1>2. /\ opening[o] # 0 /\ opening[o] \in Gens /\ opens \in Nat
      /\ \A g \in Gens : cst'[g] = IF g = opening[o] THEN "closed" ELSE cst[g]
      /\ \A p \in Openers : opening'[p] = IF p = o THEN 0 ELSE opening[p]
      /\ \A p \in Openers : p # o => earlier'[p] = earlier[p]
      /\ UNCHANGED <<service, closed, conn, recv, opens, overlapped, cl, victim, rpc,
                     rconn, cancelled>>
  BY <1>1 DEF ClientTypes, Gens
<1>3. ClientTypes'
  <2>0. service' \in BOOLEAN /\ closed' \in BOOLEAN /\ overlapped' \in BOOLEAN
    BY <1>1 DEF ClientTypes
  <2>1. /\ opens' \in 0..MaxOpens /\ conn' \in 0..opens' /\ recv' \in 0..opens'
        /\ closed' <=> conn' = 0
        /\ closed' <=> recv' = 0
    BY <1>1, <1>2 DEF ClientTypes, Gens
  <2>2. /\ cst' \in [Gens -> {"none", "open", "closing", "closed"}]
        /\ cl' \in [Gens -> {"none", "scheduled", "closing", "done"}]
        /\ rpc' \in [Gens -> {"none", "scheduled", "reading", "handling", "ended"}]
        /\ cancelled' \in [Gens -> BOOLEAN]
    BY <1>1, <1>2 DEF ClientTypes
  <2>3. /\ opening' \in [Openers -> 0..opens'] /\ earlier' \in [Openers -> SUBSET Gens]
        /\ victim' \in [Gens -> 0..opens'] /\ rconn' \in [Gens -> 0..opens']
    BY <1>1, <1>2 DEF ClientTypes
  <2>4. QED
    BY <2>0, <2>1, <2>2, <2>3 DEF ClientTypes
<1>4. (TypeOK /\ LockHeld)'
  BY <1>2, <1>3, SendersRest
<1>5. NoLeak'
  BY <1>0, <1>2, <1>4 DEF IInv, NoLeak, Kept, OneAtATime, Made, Gens
<1>6. Made'
  BY <1>0, <1>2 DEF IInv, Made, Gens
<1>7. Closes'
  BY <1>2 DEF IInv, Made, Closes, Gens
<1>8. OneAtATime'
  BY <1>2 DEF IInv, Made, OneAtATime, Gens
<1>9. Receivers'
  BY <1>0, <1>2 DEF IInv, Made, Closes, OneAtATime, Receivers, Active, Gens
<1>10. QED
  BY <1>4, <1>5, <1>6, <1>7, <1>8, <1>9 DEF IInv

LEMMA ServiceOpenStep ==
  ASSUME IInv, ServiceOpen
  PROVE  IInv'
<1> USE DEF ServiceOpen, close, send
<1>1. ClientTypes
  BY Types DEF IInv, NoLeak
<1>0. /\ \A p \in Openers : opening[p] # 0 => opening[p] \in Gens
      /\ conn # 0 => conn \in Gens
      /\ closed => conn = 0 /\ recv = 0
  BY <1>1, Generations
<1>2. /\ service /\ closed /\ opens = 0 /\ opens' = 1 /\ opens' \in Nat /\ 1 \in Gens
      /\ conn' = 1 /\ recv' = 1 /\ closed' = FALSE
      /\ \A g \in Gens : cst'[g] = IF g = 1 THEN "open" ELSE cst[g]
      /\ \A g \in Gens : rpc'[g] = IF g = 1 THEN "scheduled" ELSE rpc[g]
      /\ UNCHANGED <<service, overlapped, opening, earlier, cl, victim, rconn, cancelled>>
  BY <1>1 DEF ClientTypes, Gens
<1>3. ClientTypes'
  <2>0. service' \in BOOLEAN /\ closed' \in BOOLEAN /\ overlapped' \in BOOLEAN
    BY <1>1 DEF ClientTypes
  <2>1. /\ opens' \in 0..MaxOpens /\ conn' \in 0..opens' /\ recv' \in 0..opens'
        /\ closed' <=> conn' = 0
        /\ closed' <=> recv' = 0
    BY <1>1, <1>2 DEF ClientTypes, Gens
  <2>2. /\ cst' \in [Gens -> {"none", "open", "closing", "closed"}]
        /\ cl' \in [Gens -> {"none", "scheduled", "closing", "done"}]
        /\ rpc' \in [Gens -> {"none", "scheduled", "reading", "handling", "ended"}]
        /\ cancelled' \in [Gens -> BOOLEAN]
    BY <1>1, <1>2 DEF ClientTypes
  <2>3. /\ opening' \in [Openers -> 0..opens'] /\ earlier' \in [Openers -> SUBSET Gens]
        /\ victim' \in [Gens -> 0..opens'] /\ rconn' \in [Gens -> 0..opens']
    BY <1>1, <1>2 DEF ClientTypes
  <2>4. QED
    BY <2>0, <2>1, <2>2, <2>3 DEF ClientTypes
<1>4. (TypeOK /\ LockHeld)'
  BY <1>2, <1>3, SendersRest
<1>5. NoLeak'
  BY <1>0, <1>2, <1>4 DEF IInv, NoLeak, Kept, OneAtATime, Made, Gens
<1>6. Made'
  BY <1>0, <1>2 DEF IInv, Made, Gens
<1>7. Closes'
  BY <1>2 DEF IInv, Made, Closes, Gens
<1>8. OneAtATime'
  BY <1>2 DEF IInv, Made, OneAtATime, Gens
<1>9. Receivers'
  BY <1>0, <1>2 DEF IInv, Made, Closes, OneAtATime, Receivers, Active, Gens
<1>10. QED
  BY <1>4, <1>5, <1>6, <1>7, <1>8, <1>9 DEF IInv

LEMMA CloseCallStep ==
  ASSUME IInv, CloseCall
  PROVE  IInv'
<1> USE DEF CloseCall, DoClose, open, receive, send
<1>1. ClientTypes
  BY Types DEF IInv, NoLeak
<1>0. /\ \A p \in Openers : opening[p] # 0 => opening[p] \in Gens
      /\ conn # 0 => conn \in Gens
      /\ closed => conn = 0 /\ recv = 0
  BY <1>1, Generations
<1>2. /\ ~closed /\ conn = recv /\ conn \in Gens /\ conn <= opens /\ opens \in Nat
      /\ closed' = TRUE /\ conn' = 0 /\ recv' = 0
      /\ \A g \in Gens : cl'[g] = IF g = conn THEN "scheduled" ELSE cl[g]
      /\ \A g \in Gens : victim'[g] = IF g = conn THEN conn ELSE victim[g]
      /\ UNCHANGED <<service, opens, overlapped, opening, earlier, cst, rpc, rconn, cancelled>>
  BY <1>1 DEF ClientTypes, Gens, IInv, Made
<1>3. ClientTypes'
  <2>0. service' \in BOOLEAN /\ closed' \in BOOLEAN /\ overlapped' \in BOOLEAN
    BY <1>1 DEF ClientTypes
  <2>1. /\ opens' \in 0..MaxOpens /\ conn' \in 0..opens' /\ recv' \in 0..opens'
        /\ closed' <=> conn' = 0
        /\ closed' <=> recv' = 0
    BY <1>1, <1>2 DEF ClientTypes, Gens
  <2>2. /\ cst' \in [Gens -> {"none", "open", "closing", "closed"}]
        /\ cl' \in [Gens -> {"none", "scheduled", "closing", "done"}]
        /\ rpc' \in [Gens -> {"none", "scheduled", "reading", "handling", "ended"}]
        /\ cancelled' \in [Gens -> BOOLEAN]
    BY <1>1, <1>2 DEF ClientTypes
  <2>3. /\ opening' \in [Openers -> 0..opens'] /\ earlier' \in [Openers -> SUBSET Gens]
        /\ victim' \in [Gens -> 0..opens'] /\ rconn' \in [Gens -> 0..opens']
    BY <1>1, <1>2 DEF ClientTypes
  <2>4. QED
    BY <2>0, <2>1, <2>2, <2>3 DEF ClientTypes
<1>4. (TypeOK /\ LockHeld)'
  BY <1>2, <1>3, SendersRest
<1>5. NoLeak'
  BY <1>0, <1>2, <1>4 DEF IInv, NoLeak, Kept, OneAtATime, Made, Gens
<1>6. Made'
  BY <1>0, <1>2 DEF IInv, Made, Gens
<1>7. Closes'
  BY <1>2 DEF IInv, Made, Closes, Gens
<1>8. OneAtATime'
  BY <1>2 DEF IInv, Made, OneAtATime, Gens
<1>9. Receivers'
  BY <1>0, <1>2 DEF IInv, Made, Closes, OneAtATime, Receivers, Active, Gens
<1>10. QED
  BY <1>4, <1>5, <1>6, <1>7, <1>8, <1>9 DEF IInv

LEMMA CloseStartStep ==
  ASSUME IInv, NEW g \in Gens, CloseStart(g), victim[g] = g
  PROVE  IInv'
<1> USE DEF CloseStart, state, open, receive, send
<1>1. ClientTypes
  BY Types DEF IInv, NoLeak
<1>0. /\ \A p \in Openers : opening[p] # 0 => opening[p] \in Gens
      /\ conn # 0 => conn \in Gens
      /\ closed => conn = 0 /\ recv = 0
  BY <1>1, Generations
<1>2. /\ cl[g] = "scheduled" /\ victim[g] = g /\ opens \in Nat
      /\ \A h \in Gens : cl'[h] = IF h = g THEN "closing" ELSE cl[h]
      /\ \A h \in Gens : cancelled'[h] <=> h = g \/ cancelled[h]
      /\ \A h \in Gens : cst'[h] = IF h = g THEN "closing" ELSE cst[h]
      /\ UNCHANGED <<service, closed, conn, recv, opens, overlapped, opening, earlier,
                     victim, rpc, rconn>>
  BY <1>1 DEF ClientTypes, Gens, IInv, Closes
<1>3. ClientTypes'
  <2>0. service' \in BOOLEAN /\ closed' \in BOOLEAN /\ overlapped' \in BOOLEAN
    BY <1>1 DEF ClientTypes
  <2>1. /\ opens' \in 0..MaxOpens /\ conn' \in 0..opens' /\ recv' \in 0..opens'
        /\ closed' <=> conn' = 0
        /\ closed' <=> recv' = 0
    BY <1>1, <1>2 DEF ClientTypes, Gens
  <2>2. /\ cst' \in [Gens -> {"none", "open", "closing", "closed"}]
        /\ cl' \in [Gens -> {"none", "scheduled", "closing", "done"}]
        /\ rpc' \in [Gens -> {"none", "scheduled", "reading", "handling", "ended"}]
        /\ cancelled' \in [Gens -> BOOLEAN]
    BY <1>1, <1>2 DEF ClientTypes
  <2>3. /\ opening' \in [Openers -> 0..opens'] /\ earlier' \in [Openers -> SUBSET Gens]
        /\ victim' \in [Gens -> 0..opens'] /\ rconn' \in [Gens -> 0..opens']
    BY <1>1, <1>2 DEF ClientTypes
  <2>4. QED
    BY <2>0, <2>1, <2>2, <2>3 DEF ClientTypes
<1>4. (TypeOK /\ LockHeld)'
  BY <1>2, <1>3, SendersRest
<1>5. NoLeak'
  BY <1>0, <1>2, <1>4 DEF IInv, NoLeak, Kept, OneAtATime, Made, Gens
<1>6. Made'
  BY <1>0, <1>2 DEF IInv, Made, Gens
<1>7. Closes'
  BY <1>2 DEF IInv, Made, Closes, Gens
<1>8. OneAtATime'
  BY <1>2 DEF IInv, Made, OneAtATime, Gens
<1>9. Receivers'
  BY <1>0, <1>2 DEF IInv, Made, Closes, OneAtATime, Receivers, Active, Gens
<1>10. QED
  BY <1>4, <1>5, <1>6, <1>7, <1>8, <1>9 DEF IInv

LEMMA CloseEndStep ==
  ASSUME IInv, NEW g \in Gens, CloseEnd(g)
  PROVE  IInv'
<1> USE DEF CloseEnd, state, open, receive, send
<1>1. ClientTypes
  BY Types DEF IInv, NoLeak
<1>0. /\ \A p \in Openers : opening[p] # 0 => opening[p] \in Gens
      /\ conn # 0 => conn \in Gens
      /\ closed => conn = 0 /\ recv = 0
  BY <1>1, Generations
<1>2. /\ cl[g] = "closing" /\ opens \in Nat
      /\ \A h \in Gens : cl'[h] = IF h = g THEN "done" ELSE cl[h]
      /\ \A h \in Gens : cst'[h] = IF h = g THEN "closed" ELSE cst[h]
      /\ UNCHANGED <<service, closed, conn, recv, opens, overlapped, opening, earlier,
                     victim, rpc, rconn, cancelled>>
  BY <1>1 DEF ClientTypes, Gens
<1>3. ClientTypes'
  <2>0. service' \in BOOLEAN /\ closed' \in BOOLEAN /\ overlapped' \in BOOLEAN
    BY <1>1 DEF ClientTypes
  <2>1. /\ opens' \in 0..MaxOpens /\ conn' \in 0..opens' /\ recv' \in 0..opens'
        /\ closed' <=> conn' = 0
        /\ closed' <=> recv' = 0
    BY <1>1, <1>2 DEF ClientTypes, Gens
  <2>2. /\ cst' \in [Gens -> {"none", "open", "closing", "closed"}]
        /\ cl' \in [Gens -> {"none", "scheduled", "closing", "done"}]
        /\ rpc' \in [Gens -> {"none", "scheduled", "reading", "handling", "ended"}]
        /\ cancelled' \in [Gens -> BOOLEAN]
    BY <1>1, <1>2 DEF ClientTypes
  <2>3. /\ opening' \in [Openers -> 0..opens'] /\ earlier' \in [Openers -> SUBSET Gens]
        /\ victim' \in [Gens -> 0..opens'] /\ rconn' \in [Gens -> 0..opens']
    BY <1>1, <1>2 DEF ClientTypes
  <2>4. QED
    BY <2>0, <2>1, <2>2, <2>3 DEF ClientTypes
<1>4. (TypeOK /\ LockHeld)'
  BY <1>2, <1>3, SendersRest
<1>5. NoLeak'
  BY <1>0, <1>2, <1>4 DEF IInv, NoLeak, Kept, OneAtATime, Made, Gens
<1>6. Made'
  BY <1>0, <1>2 DEF IInv, Made, Gens
<1>7. Closes'
  BY <1>2 DEF IInv, Made, Closes, Gens
<1>8. OneAtATime'
  BY <1>2 DEF IInv, Made, OneAtATime, Gens
<1>9. Receivers'
  BY <1>0, <1>2 DEF IInv, Made, Closes, OneAtATime, Receivers, Active, Gens
<1>10. QED
  BY <1>4, <1>5, <1>6, <1>7, <1>8, <1>9 DEF IInv

LEMMA RecvStartStep ==
  ASSUME IInv, NEW g \in Gens, RecvStart(g)
  PROVE  IInv'
<1> USE DEF RecvStart, LoopHead, state, open, close, send
<1>1. ClientTypes
  BY Types DEF IInv, NoLeak
<1>0. /\ \A p \in Openers : opening[p] # 0 => opening[p] \in Gens
      /\ conn # 0 => conn \in Gens
      /\ closed => conn = 0 /\ recv = 0
  BY <1>1, Generations
<1>2. /\ rpc[g] = "scheduled" /\ ~cancelled[g] /\ opens \in Nat
      /\ closed => \A h \in Gens : rpc'[h] = IF h = g THEN "ended" ELSE rpc[h]
      /\ closed => rconn' = rconn
      /\ ~closed => \A h \in Gens : rpc'[h] = IF h = g THEN "reading" ELSE rpc[h]
      /\ ~closed => \A h \in Gens : rconn'[h] = IF h = g THEN conn ELSE rconn[h]
      /\ rpc'[g] # "none" /\ \A h \in Gens : h # g => rpc'[h] = rpc[h]
      /\ UNCHANGED <<service, closed, conn, recv, opens, overlapped, cst, opening, earlier,
                     cl, victim, cancelled>>
  <2>1. CASE closed
    BY <1>1, <2>1 DEF ClientTypes, Gens
  <2>2. CASE ~closed
    BY <1>1, <2>2 DEF ClientTypes, Gens
  <2>3. QED
    BY <2>1, <2>2
<1>3. ClientTypes'
  <2>0. service' \in BOOLEAN /\ closed' \in BOOLEAN /\ overlapped' \in BOOLEAN
    BY <1>1 DEF ClientTypes
  <2>1. /\ opens' \in 0..MaxOpens /\ conn' \in 0..opens' /\ recv' \in 0..opens'
        /\ closed' <=> conn' = 0
        /\ closed' <=> recv' = 0
    BY <1>1, <1>2 DEF ClientTypes, Gens
  <2>2. /\ cst' \in [Gens -> {"none", "open", "closing", "closed"}]
        /\ cl' \in [Gens -> {"none", "scheduled", "closing", "done"}]
        /\ rpc' \in [Gens -> {"none", "scheduled", "reading", "handling", "ended"}]
        /\ cancelled' \in [Gens -> BOOLEAN]
    BY <1>1, <1>2 DEF ClientTypes
  <2>3. /\ opening' \in [Openers -> 0..opens'] /\ earlier' \in [Openers -> SUBSET Gens]
        /\ victim' \in [Gens -> 0..opens'] /\ rconn' \in [Gens -> 0..opens']
    BY <1>1, <1>2 DEF ClientTypes
  <2>4. QED
    BY <2>0, <2>1, <2>2, <2>3 DEF ClientTypes
<1>4. (TypeOK /\ LockHeld)'
  BY <1>2, <1>3, SendersRest
<1>5. NoLeak'
  BY <1>0, <1>2, <1>4 DEF IInv, NoLeak, Kept, OneAtATime, Made, Gens
<1>6. Made'
  BY <1>0, <1>2 DEF IInv, Made, Gens
<1>7. Closes'
  BY <1>2 DEF IInv, Made, Closes, Gens
<1>8. OneAtATime'
  BY <1>2 DEF IInv, Made, OneAtATime, Gens
<1>9. Receivers'
  BY <1>0, <1>2 DEF IInv, Made, Closes, OneAtATime, Receivers, Active, Gens
<1>10. QED
  BY <1>4, <1>5, <1>6, <1>7, <1>8, <1>9 DEF IInv

LEMMA HandlerReturnStep ==
  ASSUME IInv, NEW g \in Gens, HandlerReturn(g)
  PROVE  IInv'
<1> USE DEF HandlerReturn, LoopHead, state, open, close, send
<1>1. ClientTypes
  BY Types DEF IInv, NoLeak
<1>0. /\ \A p \in Openers : opening[p] # 0 => opening[p] \in Gens
      /\ conn # 0 => conn \in Gens
      /\ closed => conn = 0 /\ recv = 0
  BY <1>1, Generations
<1>2. /\ rpc[g] = "handling" /\ ~cancelled[g] /\ opens \in Nat
      /\ closed => \A h \in Gens : rpc'[h] = IF h = g THEN "ended" ELSE rpc[h]
      /\ closed => rconn' = rconn
      /\ ~closed => \A h \in Gens : rpc'[h] = IF h = g THEN "reading" ELSE rpc[h]
      /\ ~closed => \A h \in Gens : rconn'[h] = IF h = g THEN conn ELSE rconn[h]
      /\ rpc'[g] # "none" /\ \A h \in Gens : h # g => rpc'[h] = rpc[h]
      /\ UNCHANGED <<service, closed, conn, recv, opens, overlapped, cst, opening, earlier,
                     cl, victim, cancelled>>
  <2>1. CASE closed
    BY <1>1, <2>1 DEF ClientTypes, Gens
  <2>2. CASE ~closed
    BY <1>1, <2>2 DEF ClientTypes, Gens
  <2>3. QED
    BY <2>1, <2>2
<1>3. ClientTypes'
  <2>0. service' \in BOOLEAN /\ closed' \in BOOLEAN /\ overlapped' \in BOOLEAN
    BY <1>1 DEF ClientTypes
  <2>1. /\ opens' \in 0..MaxOpens /\ conn' \in 0..opens' /\ recv' \in 0..opens'
        /\ closed' <=> conn' = 0
        /\ closed' <=> recv' = 0
    BY <1>1, <1>2 DEF ClientTypes, Gens
  <2>2. /\ cst' \in [Gens -> {"none", "open", "closing", "closed"}]
        /\ cl' \in [Gens -> {"none", "scheduled", "closing", "done"}]
        /\ rpc' \in [Gens -> {"none", "scheduled", "reading", "handling", "ended"}]
        /\ cancelled' \in [Gens -> BOOLEAN]
    BY <1>1, <1>2 DEF ClientTypes
  <2>3. /\ opening' \in [Openers -> 0..opens'] /\ earlier' \in [Openers -> SUBSET Gens]
        /\ victim' \in [Gens -> 0..opens'] /\ rconn' \in [Gens -> 0..opens']
    BY <1>1, <1>2 DEF ClientTypes
  <2>4. QED
    BY <2>0, <2>1, <2>2, <2>3 DEF ClientTypes
<1>4. (TypeOK /\ LockHeld)'
  BY <1>2, <1>3, SendersRest
<1>5. NoLeak'
  BY <1>0, <1>2, <1>4 DEF IInv, NoLeak, Kept, OneAtATime, Made, Gens
<1>6. Made'
  BY <1>0, <1>2 DEF IInv, Made, Gens
<1>7. Closes'
  BY <1>2 DEF IInv, Made, Closes, Gens
<1>8. OneAtATime'
  BY <1>2 DEF IInv, Made, OneAtATime, Gens
<1>9. Receivers'
  BY <1>0, <1>2 DEF IInv, Made, Closes, OneAtATime, Receivers, Active, Gens
<1>10. QED
  BY <1>4, <1>5, <1>6, <1>7, <1>8, <1>9 DEF IInv

LEMMA FrameArrivesStep ==
  ASSUME IInv, NEW g \in Gens, FrameArrives(g)
  PROVE  IInv'
<1> USE DEF FrameArrives, state, open, close, send
<1>1. ClientTypes
  BY Types DEF IInv, NoLeak
<1>0. /\ \A p \in Openers : opening[p] # 0 => opening[p] \in Gens
      /\ conn # 0 => conn \in Gens
      /\ closed => conn = 0 /\ recv = 0
  BY <1>1, Generations
<1>2. /\ rpc[g] = "reading" /\ ~cancelled[g] /\ opens \in Nat
      /\ \A h \in Gens : rpc'[h] = IF h = g THEN "handling" ELSE rpc[h]
      /\ UNCHANGED rconn
      /\ UNCHANGED <<service, closed, conn, recv, opens, overlapped, cst, opening, earlier,
                     cl, victim, cancelled>>
  BY <1>1 DEF ClientTypes, Gens
<1>3. ClientTypes'
  <2>0. service' \in BOOLEAN /\ closed' \in BOOLEAN /\ overlapped' \in BOOLEAN
    BY <1>1 DEF ClientTypes
  <2>1. /\ opens' \in 0..MaxOpens /\ conn' \in 0..opens' /\ recv' \in 0..opens'
        /\ closed' <=> conn' = 0
        /\ closed' <=> recv' = 0
    BY <1>1, <1>2 DEF ClientTypes, Gens
  <2>2. /\ cst' \in [Gens -> {"none", "open", "closing", "closed"}]
        /\ cl' \in [Gens -> {"none", "scheduled", "closing", "done"}]
        /\ rpc' \in [Gens -> {"none", "scheduled", "reading", "handling", "ended"}]
        /\ cancelled' \in [Gens -> BOOLEAN]
    BY <1>1, <1>2 DEF ClientTypes
  <2>3. /\ opening' \in [Openers -> 0..opens'] /\ earlier' \in [Openers -> SUBSET Gens]
        /\ victim' \in [Gens -> 0..opens'] /\ rconn' \in [Gens -> 0..opens']
    BY <1>1, <1>2 DEF ClientTypes
  <2>4. QED
    BY <2>0, <2>1, <2>2, <2>3 DEF ClientTypes
<1>4. (TypeOK /\ LockHeld)'
  BY <1>2, <1>3, SendersRest
<1>5. NoLeak'
  BY <1>0, <1>2, <1>4 DEF IInv, NoLeak, Kept, OneAtATime, Made, Gens
<1>6. Made'
  BY <1>0, <1>2 DEF IInv, Made, Gens
<1>7. Closes'
  BY <1>2 DEF IInv, Made, Closes, Gens
<1>8. OneAtATime'
  BY <1>2 DEF IInv, Made, OneAtATime, Gens
<1>9. Receivers'
  BY <1>0, <1>2 DEF IInv, Made, Closes, OneAtATime, Receivers, Active, Gens
<1>10. QED
  BY <1>4, <1>5, <1>6, <1>7, <1>8, <1>9 DEF IInv

LEMMA RecvEndStep ==
  ASSUME IInv, NEW g \in Gens, RecvCancelled(g) \/ RecvEof(g)
  PROVE  IInv'
<1> USE DEF RecvCancelled, RecvEof, state, open, close, send
<1>1. ClientTypes
  BY Types DEF IInv, NoLeak
<1>0. /\ \A p \in Openers : opening[p] # 0 => opening[p] \in Gens
      /\ conn # 0 => conn \in Gens
      /\ closed => conn = 0 /\ recv = 0
  BY <1>1, Generations
<1>2. /\ rpc[g] # "none" /\ opens \in Nat
      /\ \A h \in Gens : rpc'[h] = IF h = g THEN "ended" ELSE rpc[h]
      /\ UNCHANGED rconn
      /\ UNCHANGED <<service, closed, conn, recv, opens, overlapped, cst, opening, earlier,
                     cl, victim, cancelled>>
  BY <1>1 DEF ClientTypes, Gens
<1>3. ClientTypes'
  <2>0. service' \in BOOLEAN /\ closed' \in BOOLEAN /\ overlapped' \in BOOLEAN
    BY <1>1 DEF ClientTypes
  <2>1. /\ opens' \in 0..MaxOpens /\ conn' \in 0..opens' /\ recv' \in 0..opens'
        /\ closed' <=> conn' = 0
        /\ closed' <=> recv' = 0
    BY <1>1, <1>2 DEF ClientTypes, Gens
  <2>2. /\ cst' \in [Gens -> {"none", "open", "closing", "closed"}]
        /\ cl' \in [Gens -> {"none", "scheduled", "closing", "done"}]
        /\ rpc' \in [Gens -> {"none", "scheduled", "reading", "handling", "ended"}]
        /\ cancelled' \in [Gens -> BOOLEAN]
    BY <1>1, <1>2 DEF ClientTypes
  <2>3. /\ opening' \in [Openers -> 0..opens'] /\ earlier' \in [Openers -> SUBSET Gens]
        /\ victim' \in [Gens -> 0..opens'] /\ rconn' \in [Gens -> 0..opens']
    BY <1>1, <1>2 DEF ClientTypes
  <2>4. QED
    BY <2>0, <2>1, <2>2, <2>3 DEF ClientTypes
<1>4. (TypeOK /\ LockHeld)'
  BY <1>2, <1>3, SendersRest
<1>5. NoLeak'
  BY <1>0, <1>2, <1>4 DEF IInv, NoLeak, Kept, OneAtATime, Made, Gens
<1>6. Made'
  BY <1>0, <1>2 DEF IInv, Made, Gens
<1>7. Closes'
  BY <1>2 DEF IInv, Made, Closes, Gens
<1>8. OneAtATime'
  BY <1>2 DEF IInv, Made, OneAtATime, Gens
<1>9. Receivers'
  BY <1>0, <1>2 DEF IInv, Made, Closes, OneAtATime, Receivers, Active, Gens
<1>10. QED
  BY <1>4, <1>5, <1>6, <1>7, <1>8, <1>9 DEF IInv

LEMMA RecvErrorClosedStep ==
  ASSUME IInv, NEW g \in Gens, RecvError(g), closed
  PROVE  IInv'
<1> USE DEF RecvError, state, open, close, send
<1>1. ClientTypes
  BY Types DEF IInv, NoLeak
<1>0. /\ \A p \in Openers : opening[p] # 0 => opening[p] \in Gens
      /\ conn # 0 => conn \in Gens
      /\ closed => conn = 0 /\ recv = 0
  BY <1>1, Generations
<1>2. /\ rpc[g] # "none" /\ opens \in Nat
      /\ \A h \in Gens : rpc'[h] = IF h = g THEN "ended" ELSE rpc[h]
      /\ UNCHANGED rconn
      /\ UNCHANGED <<service, closed, conn, recv, opens, overlapped, cst, opening, earlier,
                     cl, victim, cancelled>>
  BY <1>1 DEF ClientTypes, Gens
<1>3. ClientTypes'
  <2>0. service' \in BOOLEAN /\ closed' \in BOOLEAN /\ overlapped' \in BOOLEAN
    BY <1>1 DEF ClientTypes
  <2>1. /\ opens' \in 0..MaxOpens /\ conn' \in 0..opens' /\ recv' \in 0..opens'
        /\ closed' <=> conn' = 0
        /\ closed' <=> recv' = 0
    BY <1>1, <1>2 DEF ClientTypes, Gens
  <2>2. /\ cst' \in [Gens -> {"none", "open", "closing", "closed"}]
        /\ cl' \in [Gens -> {"none", "scheduled", "closing", "done"}]
        /\ rpc' \in [Gens -> {"none", "scheduled", "reading", "handling", "ended"}]
        /\ cancelled' \in [Gens -> BOOLEAN]
    BY <1>1, <1>2 DEF ClientTypes
  <2>3. /\ opening' \in [Openers -> 0..opens'] /\ earlier' \in [Openers -> SUBSET Gens]
        /\ victim' \in [Gens -> 0..opens'] /\ rconn' \in [Gens -> 0..opens']
    BY <1>1, <1>2 DEF ClientTypes
  <2>4. QED
    BY <2>0, <2>1, <2>2, <2>3 DEF ClientTypes
<1>4. (TypeOK /\ LockHeld)'
  BY <1>2, <1>3, SendersRest
<1>5. NoLeak'
  BY <1>0, <1>2, <1>4 DEF IInv, NoLeak, Kept, OneAtATime, Made, Gens
<1>6. Made'
  BY <1>0, <1>2 DEF IInv, Made, Gens
<1>7. Closes'
  BY <1>2 DEF IInv, Made, Closes, Gens
<1>8. OneAtATime'
  BY <1>2 DEF IInv, Made, OneAtATime, Gens
<1>9. Receivers'
  BY <1>0, <1>2 DEF IInv, Made, Closes, OneAtATime, Receivers, Active, Gens
<1>10. QED
  BY <1>4, <1>5, <1>6, <1>7, <1>8, <1>9 DEF IInv

LEMMA RecvErrorClosesStep ==
  ASSUME IInv, NEW g \in Gens, RecvError(g), ~closed
  PROVE  IInv'
<1> USE DEF RecvError, DoClose, open, send
<1>1. ClientTypes
  BY Types DEF IInv, NoLeak
<1>0. /\ \A p \in Openers : opening[p] # 0 => opening[p] \in Gens
      /\ conn # 0 => conn \in Gens
      /\ closed => conn = 0 /\ recv = 0
  BY <1>1, Generations
<1>2. /\ ~closed /\ conn = recv /\ conn \in Gens /\ conn <= opens /\ opens \in Nat
      /\ closed' = TRUE /\ conn' = 0 /\ recv' = 0
      /\ \A h \in Gens : cl'[h] = IF h = conn THEN "scheduled" ELSE cl[h]
      /\ \A h \in Gens : victim'[h] = IF h = conn THEN conn ELSE victim[h]
      /\ rpc[g] # "none"
      /\ \A h \in Gens : rpc'[h] = IF h = g THEN "ended" ELSE rpc[h]
      /\ UNCHANGED <<service, opens, overlapped, opening, earlier, cst, rconn, cancelled>>
  BY <1>1, SMTT(30) DEF ClientTypes, Gens, IInv, Made
<1>3. ClientTypes'
  <2>0. service' \in BOOLEAN /\ closed' \in BOOLEAN /\ overlapped' \in BOOLEAN
    BY <1>1 DEF ClientTypes
  <2>1. /\ opens' \in 0..MaxOpens /\ conn' \in 0..opens' /\ recv' \in 0..opens'
        /\ closed' <=> conn' = 0
        /\ closed' <=> recv' = 0
    BY <1>1, <1>2 DEF ClientTypes, Gens
  <2>2. /\ cst' \in [Gens -> {"none", "open", "closing", "closed"}]
        /\ cl' \in [Gens -> {"none", "scheduled", "closing", "done"}]
        /\ rpc' \in [Gens -> {"none", "scheduled", "reading", "handling", "ended"}]
        /\ cancelled' \in [Gens -> BOOLEAN]
    BY <1>1, <1>2 DEF ClientTypes
  <2>3. /\ opening' \in [Openers -> 0..opens'] /\ earlier' \in [Openers -> SUBSET Gens]
        /\ victim' \in [Gens -> 0..opens'] /\ rconn' \in [Gens -> 0..opens']
    BY <1>1, <1>2 DEF ClientTypes
  <2>4. QED
    BY <2>0, <2>1, <2>2, <2>3 DEF ClientTypes
<1>4. (TypeOK /\ LockHeld)'
  BY <1>2, <1>3, SendersRest
<1>5. NoLeak'
  BY <1>0, <1>2, <1>4 DEF IInv, NoLeak, Kept, OneAtATime, Made, Gens
<1>6. Made'
  BY <1>0, <1>2 DEF IInv, Made, Gens
<1>7. Closes'
  BY <1>2 DEF IInv, Made, Closes, Gens
<1>8. OneAtATime'
  BY <1>2 DEF IInv, Made, OneAtATime, Gens
<1>9. Receivers'
  BY <1>0, <1>2 DEF IInv, Made, Closes, OneAtATime, Receivers, Active, Gens
<1>10. QED
  BY <1>4, <1>5, <1>6, <1>7, <1>8, <1>9 DEF IInv

LEMMA CloseStartSteps ==
  ASSUME IInv, NEW g \in Gens, CloseStart(g)
  PROVE  IInv'
<1>1. victim[g] = g
  BY DEF CloseStart, IInv, Closes
<1>2. QED
  BY <1>1, CloseStartStep

(* What a step of a sender leaves of the client.                           *)
LEMMA ClientRests ==
  ASSUME IInv, UNCHANGED <<state, open, cst, close, receive, cancelled>>,
         SendTypes', LockHeld'
  PROVE  IInv'
<1>1. ClientTypes'
  BY Types DEF IInv, NoLeak, ClientTypes, state, open, close, receive
<1>2. TypeOK'
  BY <1>1 DEF TypeOK, ClientTypes, SendTypes
<1>3. NoLeak'
  BY <1>2 DEF IInv, NoLeak, Kept, state, open, close
<1>4. Made' /\ Closes' /\ OneAtATime' /\ Receivers'
  BY DEF IInv, Made, Closes, OneAtATime, Receivers, Active, state, open, close, receive
<1>5. QED
  BY <1>3, <1>4 DEF IInv

(* The types of what send() uses, for the steps below.                     *)
LEMMA Sending ==
  ASSUME IInv
  PROVE  /\ SendTypes /\ opens \in 0..MaxOpens /\ conn \in 0..opens
         /\ closed <=> conn = 0
BY Types DEF IInv, NoLeak, ClientTypes

LEMMA SendCallStep ==
  ASSUME IInv, NEW k \in Senders, SendCall(k)
  PROVE  IInv'
<1>1. SendTypes
  BY Sending
<1>2. /\ spc[k] = "idle" /\ lockq' = Append(lockq, k)
      /\ \A j \in Senders : spc'[j] = IF j = k THEN "waiting" ELSE spc[j]
      /\ UNCHANGED <<sconn, piece, wire, opens>>
  BY <1>1 DEF SendCall, SendTypes, open
<1>3. SendTypes'
  <2>1. sends' \in [Senders -> 0..MaxSends]
    BY <1>1 DEF SendCall, SendTypes
  <2>2. spc' \in [Senders -> {"idle", "waiting", "sending"}] /\ lockq' \in Seq(Senders)
    BY <1>1 DEF SendCall, SendTypes
  <2>3. QED
    BY <1>1, <1>2, <2>1, <2>2 DEF SendTypes
<1>4. /\ Len(lockq) \in Nat /\ Len(lockq') = Len(lockq) + 1 /\ lockq'[Len(lockq')] = k
      /\ \A i \in 1..Len(lockq) : lockq'[i] = lockq[i]
  BY <1>1, <1>2 DEF SendTypes
<1>5. LockHeld'
  <2>1. \A j \in Senders : spc'[j] # "idle" => \E i \in 1..Len(lockq') : lockq'[i] = j
    BY <1>2, <1>4 DEF IInv, LockHeld
  <2>2. ASSUME NEW j \in Senders, spc'[j] = "sending" PROVE lockq'[1] = j
    BY <1>2, <1>4, <2>2 DEF IInv, LockHeld
  <2>3. QED
    BY <1>2, <2>1, <2>2 DEF IInv, LockHeld
<1>6. QED
  BY <1>3, <1>5, ClientRests DEF SendCall

(* With the lock in hand, nobody else is sending.                          *)
LEMMA HolderIsAlone ==
  ASSUME IInv, NEW k \in Senders, Head(lockq) = k, spc[k] # "idle"
  PROVE  /\ lockq # <<>> /\ lockq[1] = k
         /\ \A j \in Senders \ {k} : spc[j] # "sending"
<1>1. lockq \in Seq(Senders)
  BY Sending DEF SendTypes
<1>2. lockq # <<>>
  BY <1>1 DEF IInv, LockHeld
<1>3. Head(lockq) = lockq[1]
  BY <1>1, <1>2
<1>4. QED
  BY <1>2, <1>3 DEF IInv, LockHeld

LEMMA SendFirstStep ==
  ASSUME IInv, NEW k \in Senders, SendFirst(k)
  PROVE  IInv'
<1>1. SendTypes /\ conn \in 0..MaxOpens /\ conn \in 0..opens /\ opens' = opens
  BY Sending DEF SendFirst, open
<1>2. lockq[1] = k /\ \A j \in Senders \ {k} : spc[j] # "sending"
  BY HolderIsAlone DEF SendFirst
<1>3. /\ \A j \in Senders : spc'[j] = IF j = k THEN "sending" ELSE spc[j]
      /\ spc[k] = "waiting" /\ UNCHANGED lockq
      /\ sconn'[k] = conn /\ wire'[conn] = <<k, 1>> /\ piece'[k] = 1
  BY <1>1 DEF SendFirst, WritePiece, SendTypes
<1>4. SendTypes'
  BY <1>1, SMTT(30) DEF SendFirst, WritePiece, SendTypes
<1>5. LockHeld'
  BY <1>2, <1>3 DEF IInv, LockHeld
<1>6. QED
  BY <1>4, <1>5, ClientRests DEF SendFirst

LEMMA SendMoreStep ==
  ASSUME IInv, NEW k \in Senders, SendMore(k)
  PROVE  IInv'
<1>1. SendTypes /\ sconn[k] \in 0..MaxOpens /\ opens' = opens
  <2>1. SendTypes /\ opens \in 0..MaxOpens
    BY Sending
  <2>2. sconn[k] \in 0..opens
    BY <2>1 DEF SendTypes
  <2>3. QED
    BY <2>1, <2>2 DEF SendMore, open
<1>2. lockq[1] = k /\ \A j \in Senders \ {k} : spc[j] # "sending"
  BY DEF SendMore, IInv, LockHeld
<1>3. /\ UNCHANGED <<spc, lockq>>
      /\ sconn'[k] = sconn[k] /\ wire'[sconn[k]] = <<k, piece[k] + 1>>
      /\ piece'[k] = piece[k] + 1 /\ piece[k] \in Nat
  BY <1>1 DEF SendMore, WritePiece, SendTypes
<1>4. SendTypes'
  <2>1. piece[k] + 1 \in 1..Pieces
    BY <1>1 DEF SendMore, SendTypes
  <2>2. QED
    BY <1>1, <2>1, SMTT(30) DEF SendMore, WritePiece, SendTypes
<1>5. LockHeld'
  BY <1>2, <1>3 DEF IInv, LockHeld
<1>6. QED
  BY <1>4, <1>5, ClientRests DEF SendMore

(* The holder leaves the lock.                                             *)
LEMMA LockPassed ==
  ASSUME IInv, NEW k \in Senders, lockq # <<>>, lockq[1] = k,
         \A j \in Senders \ {k} : spc[j] # "sending",
         spc' = [spc EXCEPT ![k] = "idle"], lockq' = Tail(lockq),
         UNCHANGED <<opens, sends, sconn, piece, wire>>
  PROVE  SendTypes' /\ LockHeld'
<1>1. SendTypes
  BY Sending
<1>2. /\ \A j \in Senders : spc'[j] = IF j = k THEN "idle" ELSE spc[j]
      /\ Len(lockq) \in Nat /\ Len(lockq') = Len(lockq) - 1
      /\ \A i \in 1..Len(lockq') : lockq'[i] = lockq[i + 1]
  BY <1>1 DEF SendTypes
<1>3. SendTypes'
  <2>1. spc' \in [Senders -> {"idle", "waiting", "sending"}]
    BY <1>1 DEF SendTypes
  <2>2. lockq' \in Seq(Senders)
    BY <1>1 DEF SendTypes
  <2>3. QED
    BY <1>1, <2>1, <2>2 DEF SendTypes
<1>4. ASSUME NEW j \in Senders, spc'[j] # "idle"
      PROVE  \E i \in 1..Len(lockq') : lockq'[i] = j
  <2>1. PICK i \in 1..Len(lockq) : lockq[i] = j
    BY <1>2, <1>4 DEF IInv, LockHeld
  <2>2. i # 1
    BY <1>2, <1>4, <2>1
  <2>3. i - 1 \in 1..Len(lockq') /\ lockq'[i - 1] = lockq[(i - 1) + 1] /\ (i - 1) + 1 = i
    BY <1>2, <2>2
  <2>4. QED
    BY <2>1, <2>3
<1>5. QED
  BY <1>2, <1>3, <1>4 DEF LockHeld

LEMMA SendRefusedStep ==
  ASSUME IInv, NEW k \in Senders, SendRefused(k)
  PROVE  IInv'
<1>1. /\ lockq # <<>> /\ lockq[1] = k
      /\ \A j \in Senders \ {k} : spc[j] # "sending"
  BY HolderIsAlone DEF SendRefused
<1>2. SendTypes' /\ LockHeld'
  BY <1>1, LockPassed DEF SendRefused, open
<1>3. QED
  BY <1>2, ClientRests DEF SendRefused

LEMMA SendEndStep ==
  ASSUME IInv, NEW k \in Senders, SendEnd(k)
  PROVE  IInv'
<1>1. /\ lockq # <<>> /\ lockq[1] = k
      /\ \A j \in Senders \ {k} : spc[j] # "sending"
  <2>1. lockq \in Seq(Senders)
    BY Sending DEF SendTypes
  <2>2. QED
    BY <2>1 DEF SendEnd, IInv, LockHeld
<1>2. SendTypes' /\ LockHeld'
  BY <1>1, LockPassed DEF SendEnd, open
<1>3. QED
  BY <1>2, ClientRests DEF SendEnd

(* What RemoveAt makes of a queue.                                         *)
LEMMA RemoveAtProperties ==
  ASSUME NEW S, NEW q \in Seq(S), NEW n \in 1..Len(q)
  PROVE  /\ RemoveAt(q, n) \in Seq(S)
         /\ Len(RemoveAt(q, n)) = Len(q) - 1
         /\ \A i \in 1..n - 1 : RemoveAt(q, n)[i] = q[i]
         /\ \A i \in n..Len(q) - 1 : RemoveAt(q, n)[i] = q[i + 1]
<1> DEFINE a == SubSeq(q, 1, n - 1)
           b == SubSeq(q, n + 1, Len(q))
<1>1. Len(q) \in Nat /\ n \in Nat /\ n >= 1 /\ n <= Len(q)
  OBVIOUS
<1>2. /\ a \in Seq(S) /\ Len(a) = n - 1
      /\ \A i \in 1..n - 1 : a[i] = q[i]
  BY <1>1
<1>3. /\ b \in Seq(S) /\ Len(b) = Len(q) - n
      /\ \A i \in 1..Len(q) - n : b[i] = q[i + n]
  BY <1>1
<1>4. RemoveAt(q, n) = a \o b
  BY DEF RemoveAt
<1> HIDE DEF a, b
<1>5. /\ a \o b \in Seq(S) /\ Len(a \o b) = Len(q) - 1
      /\ \A i \in 1..n - 1 : (a \o b)[i] = a[i]
      /\ \A i \in n..Len(q) - 1 : (a \o b)[i] = b[i - (n - 1)]
  BY <1>1, <1>2, <1>3
<1>6. \A i \in n..Len(q) - 1 : b[i - (n - 1)] = q[i + 1]
  <2>1. SUFFICES ASSUME NEW i \in n..Len(q) - 1 PROVE b[i - (n - 1)] = q[i + 1]
    OBVIOUS
  <2>2. i - (n - 1) \in 1..Len(q) - n /\ (i - (n - 1)) + n = i + 1
    BY <1>1
  <2>3. QED
    BY <1>3, <2>2
<1>7. QED
  BY <1>2, <1>4, <1>5, <1>6

LEMMA SendCancelledStep ==
  ASSUME IInv, NEW k \in Senders, SendCancelled(k)
  PROVE  IInv'
<1>1. SendTypes /\ opens' = opens
  BY Sending DEF SendCancelled, open
<1>2. PICK n \in 1..Len(lockq) : lockq[n] = k /\ lockq' = RemoveAt(lockq, n)
  BY DEF SendCancelled
<1>3. /\ lockq' \in Seq(Senders)
      /\ Len(lockq) \in Nat /\ Len(lockq') = Len(lockq) - 1
      /\ \A i \in 1..n - 1 : lockq'[i] = lockq[i]
      /\ \A i \in n..Len(lockq) - 1 : lockq'[i] = lockq[i + 1]
  <2>1. lockq \in Seq(Senders)
    BY <1>1 DEF SendTypes
  <2>2. /\ RemoveAt(lockq, n) \in Seq(Senders)
        /\ Len(RemoveAt(lockq, n)) = Len(lockq) - 1
        /\ \A i \in 1..n - 1 : RemoveAt(lockq, n)[i] = lockq[i]
        /\ \A i \in n..Len(lockq) - 1 : RemoveAt(lockq, n)[i] = lockq[i + 1]
    BY <2>1, RemoveAtProperties, Zenon
  <2>3. Len(lockq) \in Nat
    BY <2>1
  <2>4. lockq' = RemoveAt(lockq, n)
    BY <1>2
  <2>5. QED
    BY <2>2, <2>3, <2>4, Zenon
<1>4. /\ \A j \in Senders : spc'[j] = IF j = k THEN "idle" ELSE spc[j]
      /\ spc[k] = "waiting" /\ UNCHANGED <<sconn, piece, wire>>
  BY <1>1 DEF SendCancelled, SendTypes
<1>5. SendTypes'
  BY <1>1, <1>3 DEF SendCancelled, SendTypes
<1>6. ASSUME NEW j \in Senders, spc'[j] # "idle"
      PROVE  \E i \in 1..Len(lockq') : lockq'[i] = j
  <2>1. PICK i \in 1..Len(lockq) : lockq[i] = j
    BY <1>4, <1>6 DEF IInv, LockHeld
  <2>2. i # n
    BY <1>2, <1>4, <1>6, <2>1
  <2>3. CASE i < n
    BY <1>3, <2>1, <2>3
  <2>4. CASE i > n
    <3>1. i - 1 \in n..Len(lockq) - 1 /\ (i - 1) + 1 = i
      BY <1>3, <2>4
    <3>2. lockq'[i - 1] = lockq[(i - 1) + 1]
      BY <1>3, <3>1
    <3>3. QED
      BY <1>3, <2>1, <3>1, <3>2
  <2>5. QED
    BY <2>2, <2>3, <2>4
<1>7. ASSUME NEW j \in Senders, spc'[j] = "sending"
      PROVE  lockq'[1] = j
  <2>1. lockq[1] = j /\ j # k
    BY <1>4, <1>7 DEF IInv, LockHeld
  <2>2. 1 \in 1..n - 1
    BY <1>2, <2>1
  <2>3. QED
    BY <1>3, <2>1, <2>2
<1>8. LockHeld'
  BY <1>4, <1>6, <1>7 DEF IInv, LockHeld
<1>9. QED
  BY <1>5, <1>8, ClientRests DEF SendCancelled

(* Every step keeps the invariant.                                         *)
LEMMA StepIInv == IInv /\ [Next]_vars => IInv'
<1> SUFFICES ASSUME IInv, [Next]_vars PROVE IInv'
  OBVIOUS
<1>1. ASSUME NEW o \in Openers, OpenCall(o) \/ OpenReturn(o) \/ OpenRaise(o) PROVE IInv'
  BY <1>1, OpenCallStep, OpenReturnStep, OpenRaiseStep
<1>2. CASE ServiceOpen \/ CloseCall
  BY <1>2, ServiceOpenStep, CloseCallStep
<1>3. ASSUME NEW g \in Gens, CloseStart(g) \/ CloseEnd(g) PROVE IInv'
  BY <1>3, CloseStartSteps, CloseEndStep
<1>4. ASSUME NEW g \in Gens,
             \/ RecvStart(g) \/ FrameArrives(g) \/ HandlerReturn(g)
             \/ RecvCancelled(g) \/ RecvEof(g) \/ RecvError(g)
      PROVE  IInv'
  BY <1>4, RecvStartStep, FrameArrivesStep, HandlerReturnStep, RecvEndStep,
    RecvErrorClosedStep, RecvErrorClosesStep
<1>5. ASSUME NEW k \in Senders,
             \/ SendCall(k) \/ SendFirst(k) \/ SendRefused(k)
             \/ SendMore(k) \/ SendEnd(k) \/ SendCancelled(k)
      PROVE  IInv'
  BY <1>5, SendCallStep, SendFirstStep, SendRefusedStep, SendMoreStep,
    SendEndStep, SendCancelledStep
<1>6. CASE UNCHANGED vars
  <2>1. SendTypes
    BY Sending
  <2>2. SendTypes' /\ LockHeld'
    BY <1>6, <2>1 DEF vars, SendTypes, IInv, LockHeld
  <2>3. QED
    BY <1>6, <2>2, ClientRests DEF vars, state, open, close, receive
<1>7. QED
  BY <1>1, <1>2, <1>3, <1>4, <1>5, <1>6 DEF Next

(* The inductive invariant holds in every reachable state.                 *)
THEOREM WebSocketInvariance == Spec => []IInv
<1>1. QED
  BY InitIInv, StepIInv, PTL DEF Spec

(* As long as open() calls do not overlap, one receive loop runs at a      *)
(* time and reads its own connection, through any number of reopenings.    *)
THEOREM OneReaderAlways == Spec => []OneReader
<1>1. IInv => OneReader
  BY DEF IInv, OneReader, OneAtATime, Receivers, Active
<1>2. QED
  BY <1>1, WebSocketInvariance, PTL

(* As long as open() calls do not overlap, no open connection is lost.     *)
THEOREM NothingLeaks == Spec => []NoLeak
<1>1. IInv => NoLeak
  BY DEF IInv
<1>2. QED
  BY <1>1, WebSocketInvariance, PTL

(* Only a sender writes, and only the holder of the lock a later piece.    *)
LEMMA WritesStep == IInv /\ [Next]_vars => [PieceFollows /\ BeginsOnCurrent]_vars
<1> SUFFICES ASSUME IInv, Next PROVE PieceFollows /\ BeginsOnCurrent
  OBVIOUS
<1>0. SendTypes /\ conn \in 0..MaxOpens
  BY Sending
<1>1. ASSUME NEW k \in Senders, SendFirst(k) PROVE PieceFollows /\ BeginsOnCurrent
  <2>1. ~closed /\ cst[conn] = "open"
    BY <1>1, Sending DEF SendFirst, IInv, Made
  <2>2. /\ \A g \in Gens : wire'[g] = IF g = conn THEN <<k, 1>> ELSE wire[g]
        /\ \A j \in Senders : spc'[j] # spc[j] => j = k
        /\ sconn'[k] = conn
    BY <1>0, <1>1, SMTT(30) DEF SendFirst, WritePiece, SendTypes, Gens
  <2>3. QED
    BY <2>1, <2>2 DEF PieceFollows, BeginsOnCurrent
<1>2. ASSUME NEW k \in Senders, SendMore(k) PROVE PieceFollows /\ BeginsOnCurrent
  <2>1. wire[sconn[k]] = <<k, piece[k]>> /\ UNCHANGED spc
    BY <1>2 DEF SendMore, IInv, LockHeld
  <2>2. piece[k] \in Nat
    BY <1>0 DEF SendTypes
  <2>3. \A g \in Gens : wire'[g] = IF g = sconn[k] THEN <<k, piece[k] + 1>> ELSE wire[g]
    BY <1>0, <1>2 DEF SendMore, WritePiece, SendTypes, Gens
  <2>4. QED
    BY <2>1, <2>2, <2>3 DEF PieceFollows, BeginsOnCurrent
<1>3. ASSUME NEW k \in Senders,
             SendCall(k) \/ SendRefused(k) \/ SendEnd(k) \/ SendCancelled(k)
      PROVE  PieceFollows /\ BeginsOnCurrent
  <2>1. UNCHANGED wire
    BY <1>3 DEF SendCall, SendRefused, SendEnd, SendCancelled
  <2>2. \A j \in Senders : spc'[j] = "sending" => spc[j] = "sending"
    BY <1>0, <1>3 DEF SendCall, SendRefused, SendEnd, SendCancelled, SendTypes
  <2>3. QED
    BY <2>1, <2>2 DEF PieceFollows, BeginsOnCurrent
<1>4. CASE UNCHANGED send
  BY <1>4 DEF send, PieceFollows, BeginsOnCurrent
<1>5. ASSUME NEW o \in Openers, OpenCall(o) \/ OpenReturn(o) \/ OpenRaise(o)
      PROVE  UNCHANGED send
  BY <1>5 DEF OpenCall, OpenReturn, OpenRaise
<1>6. ServiceOpen \/ CloseCall => UNCHANGED send
  BY DEF ServiceOpen, CloseCall
<1>7. ASSUME NEW g \in Gens,
             \/ CloseStart(g) \/ CloseEnd(g)
             \/ RecvStart(g) \/ FrameArrives(g) \/ HandlerReturn(g)
             \/ RecvCancelled(g) \/ RecvEof(g) \/ RecvError(g)
      PROVE  UNCHANGED send
  BY <1>7 DEF CloseStart, CloseEnd, RecvStart, FrameArrives, HandlerReturn,
    RecvCancelled, RecvEof, RecvError
<1>8. QED
  BY <1>1, <1>2, <1>3, <1>4, <1>5, <1>6, <1>7 DEF Next

(* The pieces of two frames never mix on a connection.                     *)
THEOREM NeverMixed == Spec => FramesNotMixed
<1>1. IInv /\ [Next]_vars => [PieceFollows]_vars
  BY WritesStep
<1>2. QED
  BY <1>1, WebSocketInvariance, PTL DEF Spec, FramesNotMixed

(* A frame begins on the connection that is current when it is written.    *)
THEOREM OnCurrentOnly == Spec => SendsOnCurrent
<1>1. IInv /\ [Next]_vars => [BeginsOnCurrent]_vars
  BY WritesStep
<1>2. QED
  BY <1>1, WebSocketInvariance, PTL DEF Spec, SendsOnCurrent
=============================================================================
