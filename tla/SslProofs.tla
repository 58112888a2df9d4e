----------------------------- MODULE SslProofs -----------------------------
(***************************************************************************)
(* StreamIntact and ReadsAccounted of module Ssl hold for any number of    *)
(* flights, writes and cancellations.  The bytes between two ends are five *)
(* stretches of one stream (Uncut); that no record is taken which was not  *)
(* produced has to be known of damaged streams as well (Known).            *)
(***************************************************************************)
EXTENDS Ssl, SequenceTheorems, FiniteSetTheorems, WellFoundedInduction, TLAPS

(* The j-th piece of all that an engine produces; the pieces after the     *)
(* a-th, up to the b-th.                                                   *)
Nth(j) == <<(j + 1) \div 2, 2 - (j % 2)>>
Stretch(a, b) == [i \in 1..(b - a) |-> Nth(a + i)]

(* Five stretches, one after another, of the pieces x + 1 to y.            *)
Cuts(i, w, r, v, o, x, y) ==
  \E a, b, c, d \in Nat :
    /\ x <= a /\ a <= b /\ b <= c /\ c <= d /\ d <= y
    /\ i = Stretch(x, a) /\ w = Stretch(a, b) /\ r = Stretch(b, c)
    /\ v = Stretch(c, d) /\ o = Stretch(d, y)

(* What is under way from e to its peer.                                   *)
Uncut == \A e \in Ends : ~Damaged(e) =>
  Cuts(in[Peer(e)], wire[e], rest[e]["reader"], rest[e]["writer"], out[e],
       2 * seen[Peer(e)], 2 * Len(gen[e]))

(* No piece is of a record that does not exist, damaged or not.            *)
UpTo(s, n) == \A i \in 1..Len(s) : s[i][1] <= n
Known == \A e \in Ends :
  /\ seen[Peer(e)] <= Len(gen[e])
  /\ UpTo(in[Peer(e)], Len(gen[e])) /\ UpTo(wire[e], Len(gen[e]))
  /\ \A t \in Tasks : UpTo(rest[e][t], Len(gen[e]))
  /\ UpTo(out[e], Len(gen[e]))

(* Who is in write_all; _out is empty between two calls.                   *)
Writers == \A e \in Ends :
  /\ ~short => ~Damaged(e) /\ \A t \in Tasks : rest[e][t] = <<>>
  /\ \A t \in Tasks : rest[e][t] # <<>> => pc[e][t] = "flush"
  /\ ~mixed[e] => rest[e]["reader"] = <<>> \/ rest[e]["writer"] = <<>>
  /\ out[e] # <<>> => pc[e]["reader"] = "failed"

(* How many of the first h flights are those of e.                         *)
Own(e, h) == IF e = Client THEN (h + 1) \div 2 ELSE h \div 2

(* e is in its handshake, which is not complete.                           *)
Greeting(e) == \/ pc[e]["reader"] \in {"unborn", "handshake"}
               \/ pc[e]["reader"] = "flush" /\ after[e]["reader"] = "handshake"

(* The first records of an end are its flights, and until the handshake is *)
(* complete it has produced and taken nothing else.                        *)
Flights == \A e \in Ends :
  /\ Greeting(e) <=> hs[e] < flights
  /\ after[e]["reader"] # "unborn"
  /\ Greeting(e) => /\ Len(gen[e]) = Own(e, hs[e])
                    /\ seen[e] = Own(Peer(e), hs[e])
  /\ Len(gen[e]) >= Own(e, hs[e])
  /\ \A i \in 1..Len(gen[e]) : i <= Own(e, flights) => gen[e][i] = "flight"

(* A record in hand is the last one with data; whoever holds one has       *)
(* produced a reply.                                                       *)
Replies(e) == {n \in 1..Len(gen[e]) : gen[e][n] = "reply"}
InHand == \A e \in Ends :
  /\ hand[e] # 0 => /\ pc[e]["reader"] = "flush"
                    /\ \A x \in ToSet(got[e]) \cup dropped[e] : x < hand[e]
  /\ Cardinality(dropped[e]) + (IF hand[e] # 0 THEN 1 ELSE 0) <= Cardinality(Replies(e))

Accounted == \A e \in Ends :
  /\ {n \in 1..seen[e] : gen[Peer(e)][n] = "data"}
       = ToSet(got[e]) \cup dropped[e] \cup ({hand[e]} \ {0})
  /\ \A i, j \in 1..Len(got[e]) : i < j => got[e][i] < got[e][j]
  /\ ToSet(got[e]) \cap (dropped[e] \cup {hand[e]}) = {}

IInv == TypeOK /\ Uncut /\ Known /\ Writers /\ Flights /\ InHand /\ Accounted
-----------------------------------------------------------------------------
Pieces == Nat \X {1, 2}

LEMMA Pairs ==
  ASSUME NEW j \in Nat
  PROVE  /\ Nth(j) \in Pieces
         /\ \A m \in Nat : Piece(m, j) = Nth(2 * m + j)
         /\ \A m \in Nat : Piece(m, 2 * j) = <<m + j, 2>>
<1>1. (j + 1) \div 2 \in Nat /\ 2 - (j % 2) \in {1, 2}
  OBVIOUS
<1>2. ASSUME NEW m \in Nat
      PROVE  /\ (2 * m + j + 1) \div 2 = m + (j + 1) \div 2
             /\ (2 * m + j) % 2 = j % 2
             /\ (2 * j + 1) \div 2 = j /\ (2 * j) % 2 = 0
  OBVIOUS
<1>3. QED
  BY <1>1, <1>2 DEF Nth, Piece, Pieces

LEMMA StretchIsSeq ==
  ASSUME NEW a \in Nat, NEW b \in Nat, a <= b
  PROVE  /\ Stretch(a, b) \in Seq(Pieces)
         /\ Len(Stretch(a, b)) = b - a
         /\ \A i \in 1..(b - a) : Stretch(a, b)[i] = Nth(a + i)
         /\ Stretch(a, b) = <<>> <=> a = b
<1>1. \A i \in 1..(b - a) : Nth(a + i) \in Pieces
  BY Pairs
<1>2. Stretch(a, b) \in [1..(b - a) -> Pieces]
  BY <1>1 DEF Stretch
<1>3. b - a \in Nat
  OBVIOUS
<1>4. Stretch(a, b) \in Seq(Pieces) /\ Len(Stretch(a, b)) = b - a
  BY <1>2, <1>3
<1>5. QED
  BY <1>4 DEF Stretch

(* Two sequences of the same length with the same members are the same.    *)
LEMMA StretchUnique ==
  ASSUME NEW a \in Nat, NEW b \in Nat, a <= b, NEW s \in Seq(Pieces),
         Len(s) = b - a, \A i \in 1..(b - a) : s[i] = Nth(a + i)
  PROVE  s = Stretch(a, b)
<1>1. s \in [1..(b - a) -> Pieces]
  BY LenProperties
<1>2. QED
  BY <1>1 DEF Stretch

LEMMA StretchJoin ==
  ASSUME NEW a \in Nat, NEW b \in Nat, NEW c \in Nat, a <= b, b <= c
  PROVE  Stretch(a, b) \o Stretch(b, c) = Stretch(a, c)
<1> DEFINE s == Stretch(a, b) \o Stretch(b, c)
<1>1. /\ Stretch(a, b) \in Seq(Pieces) /\ Len(Stretch(a, b)) = b - a
      /\ \A i \in 1..(b - a) : Stretch(a, b)[i] = Nth(a + i)
  BY StretchIsSeq
<1>2. /\ Stretch(b, c) \in Seq(Pieces) /\ Len(Stretch(b, c)) = c - b
      /\ \A i \in 1..(c - b) : Stretch(b, c)[i] = Nth(b + i)
  BY StretchIsSeq
<1>3. s \in Seq(Pieces) /\ Len(s) = c - a
  <2>1. s \in Seq(Pieces) /\ Len(s) = Len(Stretch(a, b)) + Len(Stretch(b, c))
    BY <1>1, <1>2, ConcatProperties
  <2>2. QED
    BY <1>1, <1>2, <2>1
<1>4. ASSUME NEW i \in 1..(c - a)
      PROVE  s[i] = Nth(a + i)
  <2>1. CASE i <= b - a
    BY <1>1, <1>2, <2>1
  <2>2. CASE i > b - a
    <3>1. i - (b - a) \in 1..(c - b) /\ b + (i - (b - a)) = a + i
      BY <2>2
    <3>2. s[i] = Stretch(b, c)[i - (b - a)]
      BY <1>1, <1>2, <2>2
    <3>3. QED
      BY <1>2, <3>1, <3>2
  <2>3. i <= b - a \/ i > b - a
    OBVIOUS
  <2>4. QED
    BY <2>1, <2>2, <2>3, Zenon
<1> HIDE DEF s
<1>5. s = Stretch(a, c)
  BY <1>3, <1>4, StretchUnique
<1>6. QED
  BY <1>5 DEF s

(* The first k members of s, and the others.                               *)
First(s, k) == SubSeq(s, 1, k)
Later(s, k) == SubSeq(s, k + 1, Len(s))

LEMMA StretchSplit ==
  ASSUME NEW a \in Nat, NEW b \in Nat, NEW k \in Nat, a + k <= b
  PROVE  /\ First(Stretch(a, b), k) = Stretch(a, a + k)
         /\ Later(Stretch(a, b), k) = Stretch(a + k, b)
<1> DEFINE s == Stretch(a, b)
<1>1. /\ s \in Seq(Pieces) /\ Len(s) = b - a
      /\ \A i \in 1..(b - a) : s[i] = Nth(a + i)
  BY StretchIsSeq
<1>2. \A i \in 1..Len(s) : s[i] \in Pieces
  BY <1>1, ElementOfSeq
<1> HIDE DEF s
<1>3. SubSeq(s, 1, k) = Stretch(a, a + k)
  <2>1. /\ SubSeq(s, 1, k) \in Seq(Pieces)
        /\ Len(SubSeq(s, 1, k)) = k
        /\ \A i \in 1..k : SubSeq(s, 1, k)[i] = s[i]
    BY <1>1, <1>2, SubSeqProperties
  <2>2. \A i \in 1..((a + k) - a) : SubSeq(s, 1, k)[i] = Nth(a + i)
    BY <1>1, <2>1
  <2>3. Len(SubSeq(s, 1, k)) = (a + k) - a /\ a <= a + k /\ a + k \in Nat
    BY <2>1
  <2>4. QED
    BY <2>1, <2>2, <2>3, StretchUnique, Zenon
<1>4. SubSeq(s, k + 1, Len(s)) = Stretch(a + k, b)
  <2>0. \A i \in (k + 1)..Len(s) : s[i] \in Pieces
    BY <1>2
  <2>1. /\ SubSeq(s, k + 1, Len(s)) \in Seq(Pieces)
        /\ Len(SubSeq(s, k + 1, Len(s)))
             = IF k + 1 <= Len(s) THEN Len(s) - (k + 1) + 1 ELSE 0
        /\ \A i \in 1..(Len(s) - (k + 1) + 1) :
             SubSeq(s, k + 1, Len(s))[i] = s[k + 1 + i - 1]
    BY <1>1, <2>0, SubSeqProperties
  <2>2. ASSUME NEW i \in 1..(b - (a + k))
        PROVE  SubSeq(s, k + 1, Len(s))[i] = Nth((a + k) + i)
    <3>1. k + i \in 1..(b - a) /\ k + 1 + i - 1 = k + i /\ a + (k + i) = (a + k) + i
      OBVIOUS
    <3>2. i \in 1..(Len(s) - (k + 1) + 1)
      BY <1>1
    <3>3. QED
      BY <1>1, <2>1, <3>1, <3>2
  <2>3. Len(SubSeq(s, k + 1, Len(s))) = b - (a + k)
    BY <1>1, <2>1
  <2>4. a + k \in Nat
    OBVIOUS
  <2>5. QED
    BY <2>1, <2>2, <2>3, <2>4, StretchUnique, Zenon
<1>5. QED
  BY <1>3, <1>4 DEF s, First, Later

LEMMA StretchHead ==
  ASSUME NEW a \in Nat, NEW b \in Nat, a < b
  PROVE  /\ Head(Stretch(a, b)) = Nth(a + 1)
         /\ Tail(Stretch(a, b)) = Stretch(a + 1, b)
<1>1. /\ Stretch(a, b) \in Seq(Pieces) /\ Len(Stretch(a, b)) = b - a
      /\ \A i \in 1..(b - a) : Stretch(a, b)[i] = Nth(a + i)
  BY StretchIsSeq
<1>2. Tail(Stretch(a, b)) = Later(Stretch(a, b), 1)
  BY <1>1 DEF Later
<1>3. Later(Stretch(a, b), 1) = Stretch(a + 1, b)
  BY StretchSplit, a + 1 <= b
<1>4. QED
  BY <1>1, <1>2, <1>3

LEMMA StretchAppend ==
  ASSUME NEW a \in Nat, NEW b \in Nat, a <= b
  PROVE  Append(Stretch(a, b), Nth(b + 1)) = Stretch(a, b + 1)
<1> DEFINE s == Append(Stretch(a, b), Nth(b + 1))
<1>1. /\ Stretch(a, b) \in Seq(Pieces) /\ Len(Stretch(a, b)) = b - a
      /\ \A i \in 1..(b - a) : Stretch(a, b)[i] = Nth(a + i)
  BY StretchIsSeq
<1>2. Nth(b + 1) \in Pieces
  BY Pairs
<1>3. s \in Seq(Pieces) /\ Len(s) = (b + 1) - a
  BY <1>1, <1>2, AppendProperties
<1>4. \A i \in 1..((b + 1) - a) : s[i] = Nth(a + i)
  BY <1>1, <1>2, AppendProperties
<1> HIDE DEF s
<1>5. s = Stretch(a, b + 1)
  BY <1>3, <1>4, StretchUnique
<1>6. QED
  BY <1>5 DEF s

LEMMA StreamIsStretch ==
  ASSUME NEW m \in Nat, NEW n \in Nat, m <= n
  PROVE  Stream(m, n) = Stretch(2 * m, 2 * n)
<1>1. 2 * (n - m) = 2 * n - 2 * m
  OBVIOUS
<1>2. \A k \in 1..2 * (n - m) : Piece(m, k) = Nth(2 * m + k)
  BY Pairs
<1>3. QED
  BY <1>1, <1>2 DEF Stream, Stretch
-----------------------------------------------------------------------------
(* What the steps do with the five stretches.  All of them are one stream. *)
LEMMA CutsAreStream ==
  ASSUME NEW x \in Nat, NEW y \in Nat, NEW i, NEW w, NEW r, NEW v, NEW o,
         Cuts(i, w, r, v, o, x, y)
  PROVE  /\ x <= y
         /\ i \o w \o r \o v \o o = Stretch(x, y)
<1>1. PICK a \in Nat, b \in Nat, c \in Nat, d \in Nat :
        /\ x <= a /\ a <= b /\ b <= c /\ c <= d /\ d <= y
        /\ i = Stretch(x, a) /\ w = Stretch(a, b) /\ r = Stretch(b, c)
        /\ v = Stretch(c, d) /\ o = Stretch(d, y)
  BY DEF Cuts
<1>2. x <= b /\ x <= c /\ x <= d /\ x <= y
  BY <1>1
<1>3. /\ Stretch(x, a) \o Stretch(a, b) = Stretch(x, b)
      /\ Stretch(x, b) \o Stretch(b, c) = Stretch(x, c)
      /\ Stretch(x, c) \o Stretch(c, d) = Stretch(x, d)
      /\ Stretch(x, d) \o Stretch(d, y) = Stretch(x, y)
  BY <1>1, <1>2, StretchJoin
<1>4. QED
  BY <1>1, <1>2, <1>3, Zenon

(* k pieces are read from the wire, and the first j pieces are taken.      *)
LEMMA CutsTaken ==
  ASSUME NEW x \in Nat, NEW y \in Nat, NEW i, NEW w, NEW r, NEW v, NEW o,
         Cuts(i, w, r, v, o, x, y),
         NEW k \in 0..Len(w), NEW j \in Nat,
         NEW bio, bio = i \o First(w, k), j <= Len(bio)
  PROVE  Cuts(Later(bio, j), Later(w, k), r, v, o, x + j, y)
<1>1. PICK a \in Nat, b \in Nat, c \in Nat, d \in Nat :
        /\ x <= a /\ a <= b /\ b <= c /\ c <= d /\ d <= y
        /\ i = Stretch(x, a) /\ w = Stretch(a, b) /\ r = Stretch(b, c)
        /\ v = Stretch(c, d) /\ o = Stretch(d, y)
  BY DEF Cuts
<1>2. Len(w) = b - a
  BY <1>1, StretchIsSeq
<1>3. PICK f \in Nat : f = a + k /\ k \in Nat /\ f <= b /\ x <= f /\ a <= f
  BY <1>1, <1>2
<1>4. First(w, k) = Stretch(a, f) /\ Later(w, k) = Stretch(f, b)
  <2>1. a + k <= b
    BY <1>3
  <2>2. /\ First(Stretch(a, b), k) = Stretch(a, a + k)
        /\ Later(Stretch(a, b), k) = Stretch(a + k, b)
    BY <1>3, <2>1, StretchSplit
  <2>3. QED
    BY <1>1, <1>3, <2>2
<1>5. bio = Stretch(x, f)
  <2>1. Stretch(x, a) \o Stretch(a, f) = Stretch(x, f)
    BY <1>1, <1>3, StretchJoin
  <2>2. QED
    BY <1>1, <1>4, <2>1, Zenon
<1>6. Len(bio) = f - x
  BY <1>3, <1>5, StretchIsSeq
<1>7. PICK g \in Nat : g = x + j /\ g <= f
  BY <1>3, <1>6
<1>8. Later(bio, j) = Stretch(g, f)
  <2>1. x + j <= f
    BY <1>7
  <2>2. Later(Stretch(x, f), j) = Stretch(x + j, f)
    BY <2>1, StretchSplit
  <2>3. QED
    BY <1>5, <1>7, <2>2
<1>9. Cuts(Stretch(g, f), Stretch(f, b), r, v, o, g, y)
  BY <1>1, <1>3, <1>7 DEF Cuts
<1>10. QED
  BY <1>4, <1>7, <1>8, <1>9, Zenon

(* The engine puts the pieces y + 1 to z into _out.                        *)
LEMMA CutsGrow ==
  ASSUME NEW x \in Nat, NEW y \in Nat, NEW i, NEW w, NEW r, NEW v, NEW o,
         Cuts(i, w, r, v, o, x, y), NEW z \in Nat, y <= z
  PROVE  Cuts(i, w, r, v, o \o Stretch(y, z), x, z)
<1>1. PICK a \in Nat, b \in Nat, c \in Nat, d \in Nat :
        /\ x <= a /\ a <= b /\ b <= c /\ c <= d /\ d <= y
        /\ i = Stretch(x, a) /\ w = Stretch(a, b) /\ r = Stretch(b, c)
        /\ v = Stretch(c, d) /\ o = Stretch(d, y)
  BY DEF Cuts
<1>2. o \o Stretch(y, z) = Stretch(d, z)
  BY <1>1, StretchJoin, Zenon
<1>3. d <= z
  BY <1>1
<1>4. QED
  BY <1>1, <1>2, <1>3, Zenon DEF Cuts

(* What was in _out is written as a whole, or a task begins to write it.   *)
LEMMA CutsFlushed ==
  ASSUME NEW x \in Nat, NEW y \in Nat, NEW i, NEW w, NEW o,
         Cuts(i, w, <<>>, <<>>, o, x, y)
  PROVE  /\ Cuts(i, w \o o, <<>>, <<>>, <<>>, x, y)
         /\ Cuts(i, w, o, <<>>, <<>>, x, y)
         /\ Cuts(i, w, <<>>, o, <<>>, x, y)
<1>1. PICK a \in Nat, b \in Nat, c \in Nat, d \in Nat :
        /\ x <= a /\ a <= b /\ b <= c /\ c <= d /\ d <= y
        /\ i = Stretch(x, a) /\ w = Stretch(a, b) /\ <<>> = Stretch(b, c)
        /\ <<>> = Stretch(c, d) /\ o = Stretch(d, y)
  BY DEF Cuts
<1>2. b = c /\ c = d
  BY <1>1, StretchIsSeq
<1>3. Stretch(y, y) = <<>> /\ Stretch(b, b) = <<>>
  BY StretchIsSeq, y <= y, b <= b, Zenon
<1>4. w \o o = Stretch(a, y)
  BY <1>1, <1>2, StretchJoin, Zenon
<1>5. a <= y /\ b <= y /\ b <= b /\ y <= y
  BY <1>1, <1>2
<1>6. Cuts(i, w \o o, <<>>, <<>>, <<>>, x, y)
  <2>1. Cuts(Stretch(x, a), Stretch(a, y), Stretch(y, y), Stretch(y, y),
             Stretch(y, y), x, y)
    BY <1>1, <1>5 DEF Cuts
  <2>2. QED
    BY <1>1, <1>3, <1>4, <2>1, Zenon
<1>7. Cuts(i, w, o, <<>>, <<>>, x, y)
  <2>1. Cuts(Stretch(x, a), Stretch(a, b), Stretch(b, y), Stretch(y, y),
             Stretch(y, y), x, y)
    BY <1>1, <1>5 DEF Cuts
  <2>2. QED
    BY <1>1, <1>2, <1>3, <2>1, Zenon
<1>8. Cuts(i, w, <<>>, o, <<>>, x, y)
  <2>1. Cuts(Stretch(x, a), Stretch(a, b), Stretch(b, b), Stretch(b, y),
             Stretch(y, y), x, y)
    BY <1>1, <1>5 DEF Cuts
  <2>2. QED
    BY <1>1, <1>2, <1>3, <2>1, Zenon
<1>9. QED
  BY <1>6, <1>7, <1>8

(* The first of the pieces from b to c goes to the end of those before b.  *)
LEMMA Passes ==
  ASSUME NEW a \in Nat, NEW b \in Nat, NEW c \in Nat, a <= b, b <= c,
         Stretch(b, c) # <<>>
  PROVE  \E f \in Nat :
           /\ a <= f /\ b <= f /\ f <= c
           /\ Append(Stretch(a, b), Head(Stretch(b, c))) = Stretch(a, f)
           /\ Tail(Stretch(b, c)) = Stretch(f, c)
<1>1. b < c
  BY StretchIsSeq
<1>2. /\ Head(Stretch(b, c)) = Nth(b + 1)
      /\ Tail(Stretch(b, c)) = Stretch(b + 1, c)
  BY <1>1, StretchHead, Zenon
<1>3. Append(Stretch(a, b), Nth(b + 1)) = Stretch(a, b + 1)
  BY StretchAppend, Zenon
<1>4. b + 1 \in Nat /\ a <= b + 1 /\ b <= b + 1 /\ b + 1 <= c
  BY <1>1
<1>5. QED
  BY <1>2, <1>3, <1>4, Zenon

(* One part of a write_all arrives on the wire.                            *)
LEMMA CutsPart ==
  ASSUME NEW x \in Nat, NEW y \in Nat, NEW i, NEW w, NEW p, NEW o, p # <<>>
  PROVE  /\ Cuts(i, w, p, <<>>, o, x, y)
              => Cuts(i, Append(w, Head(p)), Tail(p), <<>>, o, x, y)
         /\ Cuts(i, w, <<>>, p, o, x, y)
              => Cuts(i, Append(w, Head(p)), <<>>, Tail(p), o, x, y)
<1>2. ASSUME Cuts(i, w, p, <<>>, o, x, y)
      PROVE  Cuts(i, Append(w, Head(p)), Tail(p), <<>>, o, x, y)
  <2>1. PICK a \in Nat, b \in Nat, c \in Nat, d \in Nat :
          /\ x <= a /\ a <= b /\ b <= c /\ c <= d /\ d <= y
          /\ i = Stretch(x, a) /\ w = Stretch(a, b) /\ p = Stretch(b, c)
          /\ <<>> = Stretch(c, d) /\ o = Stretch(d, y)
    BY <1>2 DEF Cuts
  <2>2. PICK f \in Nat :
          /\ a <= f /\ b <= f /\ f <= c
          /\ Append(Stretch(a, b), Head(Stretch(b, c))) = Stretch(a, f)
          /\ Tail(Stretch(b, c)) = Stretch(f, c)
    BY <2>1, Passes
  <2>3. Cuts(Stretch(x, a), Stretch(a, f), Stretch(f, c), Stretch(c, d),
             Stretch(d, y), x, y)
    BY <2>1, <2>2 DEF Cuts
  <2>4. QED
    BY <2>1, <2>2, <2>3, Zenon
<1>3. ASSUME Cuts(i, w, <<>>, p, o, x, y)
      PROVE  Cuts(i, Append(w, Head(p)), <<>>, Tail(p), o, x, y)
  <2>1. PICK a \in Nat, b \in Nat, c \in Nat, d \in Nat :
          /\ x <= a /\ a <= b /\ b <= c /\ c <= d /\ d <= y
          /\ i = Stretch(x, a) /\ w = Stretch(a, b) /\ <<>> = Stretch(b, c)
          /\ p = Stretch(c, d) /\ o = Stretch(d, y)
    BY <1>3 DEF Cuts
  <2>2. b = c
    BY <2>1, StretchIsSeq
  <2>3. PICK f \in Nat :
          /\ a <= f /\ b <= f /\ f <= d
          /\ Append(Stretch(a, b), Head(Stretch(b, d))) = Stretch(a, f)
          /\ Tail(Stretch(b, d)) = Stretch(f, d)
    BY <2>1, <2>2, Passes
  <2>4. Stretch(f, f) = <<>> /\ f <= f
    BY StretchIsSeq
  <2>5. Cuts(Stretch(x, a), Stretch(a, f), Stretch(f, f), Stretch(f, d),
             Stretch(d, y), x, y)
    BY <2>1, <2>3, <2>4 DEF Cuts
  <2>6. QED
    BY <2>1, <2>2, <2>3, <2>4, <2>5, Zenon
<1>4. QED
  BY <1>2, <1>3
-----------------------------------------------------------------------------
LEMMA TwoEnds ==
  ASSUME NEW e \in Ends
  PROVE  /\ Peer(e) \in Ends /\ Peer(e) # e /\ Peer(Peer(e)) = e
         /\ \A x \in Ends : x = e \/ x = Peer(e)
BY EndsAssumption DEF EndsAssumption, Ends, Peer

LEMMA Parts ==
  ASSUME NEW s \in Seq(Pieces), NEW k \in 0..Len(s)
  PROVE  /\ First(s, k) \in Seq(Pieces) /\ Len(First(s, k)) = k
         /\ \A i \in 1..k : First(s, k)[i] = s[i]
         /\ Later(s, k) \in Seq(Pieces) /\ Len(Later(s, k)) = Len(s) - k
         /\ \A i \in 1..(Len(s) - k) : Later(s, k)[i] = s[k + i]
<1>1. Len(s) \in Nat /\ \A i \in 1..Len(s) : s[i] \in Pieces
  BY LenProperties, ElementOfSeq
<1>2. /\ SubSeq(s, 1, k) \in Seq(Pieces)
      /\ Len(SubSeq(s, 1, k)) = k
      /\ \A i \in 1..k : SubSeq(s, 1, k)[i] = s[i]
  BY <1>1, SubSeqProperties
<1>3. \A i \in (k + 1)..Len(s) : s[i] \in Pieces
  BY <1>1
<1>4. /\ SubSeq(s, k + 1, Len(s)) \in Seq(Pieces)
      /\ Len(SubSeq(s, k + 1, Len(s)))
           = IF k + 1 <= Len(s) THEN Len(s) - (k + 1) + 1 ELSE 0
      /\ \A i \in 1..(Len(s) - (k + 1) + 1) :
           SubSeq(s, k + 1, Len(s))[i] = s[k + 1 + i - 1]
  BY <1>1, <1>3, SubSeqProperties
<1>5. QED
  BY <1>1, <1>2, <1>4 DEF First, Later

LEMMA LaterNone ==
  ASSUME NEW s \in Seq(Pieces)
  PROVE  First(s, 0) = <<>> /\ Later(s, 0) = s /\ s \o <<>> = s
<1>1. SubSeq(s, 1, Len(s)) = s
  BY SubSeqFull
<1>2. QED
  BY <1>1, Parts, LenProperties, ConcatEmptySeq, EmptySeq DEF First, Later

(* UpTo of what the steps make of the sequences.                           *)
LEMMA UpToParts ==
  ASSUME NEW s \in Seq(Pieces), NEW n \in Nat, UpTo(s, n)
  PROVE  /\ \A k \in 0..Len(s) : UpTo(First(s, k), n) /\ UpTo(Later(s, k), n)
         /\ s # <<>> => UpTo(Tail(s), n) /\ Head(s)[1] <= n
         /\ \A m \in Nat : n <= m => UpTo(s, m)
<1>1. Len(s) \in Nat /\ \A i \in 1..Len(s) : s[i] \in Pieces
  BY LenProperties, ElementOfSeq
<1>2. ASSUME NEW k \in 0..Len(s)
      PROVE  UpTo(First(s, k), n) /\ UpTo(Later(s, k), n)
  <2>1. UpTo(First(s, k), n)
    BY <1>1, Parts DEF UpTo
  <2>2. ASSUME NEW i \in 1..(Len(s) - k)
        PROVE  Later(s, k)[i][1] <= n
    <3>1. k + i \in 1..Len(s)
      BY <1>1
    <3>2. QED
      BY <3>1, Parts DEF UpTo
  <2>3. UpTo(Later(s, k), n)
    BY <2>2, Parts DEF UpTo
  <2>4. QED
    BY <2>1, <2>3
<1>3. s # <<>> => UpTo(Tail(s), n) /\ Head(s)[1] <= n
  <2>1. SUFFICES ASSUME s # <<>>
                 PROVE  UpTo(Tail(s), n) /\ Head(s)[1] <= n
    OBVIOUS
  <2>2. Tail(s) = Later(s, 1) /\ Head(s) = s[1] /\ 1 \in 1..Len(s) /\ 1 \in 0..Len(s)
    BY <1>1, <2>1, EmptySeq DEF Later
  <2>3. QED
    BY <1>2, <2>2 DEF UpTo
<1>4. ASSUME NEW m \in Nat, n <= m PROVE UpTo(s, m)
  BY <1>1, <1>4 DEF UpTo, Pieces
<1>5. QED
  BY <1>2, <1>3, <1>4

LEMMA UpToJoin ==
  ASSUME NEW s \in Seq(Pieces), NEW t \in Seq(Pieces), NEW n \in Nat,
         UpTo(s, n), UpTo(t, n)
  PROVE  s \o t \in Seq(Pieces) /\ UpTo(s \o t, n)
<1>1. /\ s \o t \in Seq(Pieces) /\ Len(s \o t) = Len(s) + Len(t)
      /\ \A i \in 1..Len(s) + Len(t) :
           (s \o t)[i] = IF i <= Len(s) THEN s[i] ELSE t[i - Len(s)]
  BY ConcatProperties
<1>2. Len(s) \in Nat /\ Len(t) \in Nat
  BY LenProperties
<1>3. ASSUME NEW i \in 1..Len(s) + Len(t)
      PROVE  (s \o t)[i][1] <= n
  <2>1. CASE i <= Len(s)
    <3>1. (s \o t)[i] = s[i] /\ i \in 1..Len(s)
      BY <1>1, <1>2, <2>1
    <3>2. QED
      BY <3>1 DEF UpTo
  <2>2. CASE i > Len(s)
    <3>1. (s \o t)[i] = t[i - Len(s)] /\ i - Len(s) \in 1..Len(t)
      BY <1>1, <1>2, <2>2
    <3>2. QED
      BY <3>1 DEF UpTo
  <2>3. i <= Len(s) \/ i > Len(s)
    BY <1>2
  <2>4. QED
    BY <2>1, <2>2, <2>3
<1>4. QED
  BY <1>1, <1>3 DEF UpTo

LEMMA UpToStream ==
  ASSUME NEW m \in Nat, NEW n \in Nat, m <= n
  PROVE  Stream(m, n) \in Seq(Pieces) /\ UpTo(Stream(m, n), n)
<1>1. Stream(m, n) = Stretch(2 * m, 2 * n)
  BY StreamIsStretch
<1>2. PICK x \in Nat, y \in Nat : x = 2 * m /\ y = 2 * n /\ x <= y
  OBVIOUS
<1>3. /\ Stretch(x, y) \in Seq(Pieces) /\ Len(Stretch(x, y)) = y - x
      /\ \A i \in 1..(y - x) : Stretch(x, y)[i] = Nth(x + i)
  BY <1>2, StretchIsSeq
<1>4. ASSUME NEW i \in 1..(y - x)
      PROVE  Nth(x + i)[1] <= n
  <2>1. (x + i + 1) \div 2 <= n
    BY <1>2
  <2>2. QED
    BY <2>1 DEF Nth
<1>5. QED
  BY <1>1, <1>2, <1>3, <1>4 DEF UpTo

(* No record is taken that does not exist.                                 *)
LEMMA WholeBounds ==
  ASSUME NEW e \in Ends, NEW bio \in Seq(Pieces), NEW n \in Nat,
         seen[e] \in Nat, seen[e] <= n, UpTo(bio, n)
  PROVE  /\ Whole(e, bio) \in Nat
         /\ 2 * Whole(e, bio) <= Len(bio)
         /\ seen[e] + Whole(e, bio) <= n
<1> DEFINE good == {k \in 1..Len(bio) \div 2 :
                      \A i \in 1..2 * k : bio[i] = Piece(seen[e], i)}
           h == Len(bio) \div 2
           c == Cardinality(good)
<1>1. Len(bio) \in Nat
  BY LenProperties
<1>2. h \in Nat /\ 2 * h <= Len(bio)
  BY <1>1
<1>3. IsFiniteSet(1..h) /\ Cardinality(1..h) = h
  BY <1>2, FS_Interval
<1>4. IsFiniteSet(good) /\ c \in Nat /\ c <= h
  BY <1>3, FS_Subset, FS_CardinalityType
<1>5. ASSUME c # 0 PROVE c \in good
  <2>1. SUFFICES ASSUME c \notin good PROVE FALSE
    OBVIOUS
  <2>2. c \in 1..h
    BY <1>4, <1>5, <1>2
  <2>3. ASSUME NEW k \in good PROVE k \in 1..(c - 1)
    <3>1. SUFFICES ASSUME k >= c PROVE FALSE
      BY <1>4, <1>2
    <3>2. \A i \in 1..2 * c : i \in 1..2 * k
      BY <3>1, <1>4, <1>2
    <3>3. c \in good
      BY <2>2, <3>2
    <3>4. QED
      BY <2>1, <3>3
  <2>4. c - 1 \in Nat
    BY <1>4, <1>5
  <2>5. IsFiniteSet(1..(c - 1)) /\ Cardinality(1..(c - 1)) = c - 1
    BY <2>4, FS_Interval
  <2>6. Cardinality(good) <= Cardinality(1..(c - 1))
    BY <2>3, <2>5, FS_Subset
  <2>7. QED
    BY <2>5, <2>6, <1>4
<1>6. seen[e] + c <= n
  <2>1. CASE c = 0
    BY <2>1
  <2>2. CASE c # 0
    <3>1. c \in 1..h /\ \A i \in 1..2 * c : bio[i] = Piece(seen[e], i)
      BY <1>5, <2>2
    <3>2. 2 * c \in 1..2 * c /\ 2 * c \in 1..Len(bio)
      BY <1>1, <1>2, <1>4, <2>2
    <3>3. bio[2 * c] = <<seen[e] + c, 2>>
      BY <1>4, <3>1, <3>2, Pairs
    <3>4. bio[2 * c][1] <= n
      BY <3>2 DEF UpTo
    <3>5. QED
      BY <3>3, <3>4
  <2>3. QED
    BY <2>1, <2>2
<1>7. Whole(e, bio) = c
  BY DEF Whole
<1>8. QED
  BY <1>1, <1>2, <1>4, <1>6, <1>7
-----------------------------------------------------------------------------
(* What a task has after it read k pieces from below, none if k = 0.       *)
LEMMA TakenNone ==
  ASSUME TypeOK, NEW e \in Ends
  PROVE  /\ in[e] = Taken(e, 0) /\ wire = Untaken(e, 0)
         /\ 0 \in 0..Len(wire[Peer(e)])
<1>1. /\ in[e] \in Seq(Pieces) /\ wire \in [Ends -> Seq(Pieces)]
      /\ Peer(e) \in Ends /\ wire[Peer(e)] \in Seq(Pieces)
  BY TwoEnds DEF TypeOK, Pieces
<1>2. First(wire[Peer(e)], 0) = <<>> /\ in[e] \o <<>> = in[e]
      /\ Later(wire[Peer(e)], 0) = wire[Peer(e)]
  BY <1>1, LaterNone
<1>3. Untaken(e, 0) = [wire EXCEPT ![Peer(e)] = Later(wire[Peer(e)], 0)]
      /\ Taken(e, 0) = in[e] \o First(wire[Peer(e)], 0)
  BY DEF Untaken, Taken, First, Later
<1>4. Len(wire[Peer(e)]) \in Nat
  BY <1>1, LenProperties
<1>5. wire = [wire EXCEPT ![Peer(e)] = wire[Peer(e)]]
  BY <1>1
<1>6. in[e] = Taken(e, 0) /\ wire = Untaken(e, 0)
  BY <1>2, <1>3, <1>5, Zenon
<1>7. QED
  BY <1>4, <1>6

LEMMA TakenSome ==
  ASSUME TypeOK, Known, NEW e \in Ends, NEW k \in 0..Len(wire[Peer(e)])
  PROVE  /\ Taken(e, k) = in[e] \o First(wire[Peer(e)], k)
         /\ Untaken(e, k) = [wire EXCEPT ![Peer(e)] = Later(wire[Peer(e)], k)]
         /\ Untaken(e, k) \in [Ends -> Seq(Pieces)]
         /\ Taken(e, k) \in Seq(Pieces)
         /\ UpTo(Taken(e, k), Len(gen[Peer(e)]))
         /\ UpTo(Later(wire[Peer(e)], k), Len(gen[Peer(e)]))
         /\ seen[e] \in Nat /\ Len(gen[Peer(e)]) \in Nat
         /\ seen[e] <= Len(gen[Peer(e)])
<1>1. /\ in[e] \in Seq(Pieces) /\ wire \in [Ends -> Seq(Pieces)]
      /\ Peer(e) \in Ends /\ Peer(Peer(e)) = e
      /\ wire[Peer(e)] \in Seq(Pieces) /\ seen[e] \in Nat
      /\ gen[Peer(e)] \in Seq(Kinds)
  BY TwoEnds DEF TypeOK, Pieces
<1>2. Len(gen[Peer(e)]) \in Nat
  BY <1>1, LenProperties
<1>3. /\ UpTo(in[e], Len(gen[Peer(e)])) /\ UpTo(wire[Peer(e)], Len(gen[Peer(e)]))
      /\ seen[e] <= Len(gen[Peer(e)])
  BY <1>1 DEF Known
<1>4. /\ Taken(e, k) = in[e] \o First(wire[Peer(e)], k)
      /\ Untaken(e, k) = [wire EXCEPT ![Peer(e)] = Later(wire[Peer(e)], k)]
  BY DEF Untaken, Taken, First, Later
<1>5. First(wire[Peer(e)], k) \in Seq(Pieces) /\ Later(wire[Peer(e)], k) \in Seq(Pieces)
  BY <1>1, Parts
<1>6. /\ UpTo(First(wire[Peer(e)], k), Len(gen[Peer(e)]))
      /\ UpTo(Later(wire[Peer(e)], k), Len(gen[Peer(e)]))
  BY <1>1, <1>2, <1>3, UpToParts
<1>7. /\ in[e] \o First(wire[Peer(e)], k) \in Seq(Pieces)
      /\ UpTo(in[e] \o First(wire[Peer(e)], k), Len(gen[Peer(e)]))
  BY <1>1, <1>2, <1>3, <1>5, <1>6, UpToJoin
<1>8. QED
  BY <1>1, <1>2, <1>3, <1>4, <1>5, <1>6, <1>7

(* The value of one task of one end changes.                               *)
Put(f, e, t, v) == [f EXCEPT ![e][t] = v]

LEMMA OneTask ==
  ASSUME NEW S, NEW f \in [Ends -> [Tasks -> S]], NEW e \in Ends,
         NEW t \in Tasks, NEW v \in S
  PROVE  /\ Put(f, e, t, v) \in [Ends -> [Tasks -> S]]
         /\ Put(f, e, t, v)[e][t] = v
         /\ \A x \in Ends, u \in Tasks :
              x # e \/ u # t => Put(f, e, t, v)[x][u] = f[x][u]
BY DEF Put

(* A step of the engine of e and of a task t that is not in write_all:     *)
(* k pieces are read, n records taken, records of some kinds produced.     *)
Pumps(e, t, k, n, kinds, to) ==
  /\ pc[e][t] # "flush"
  /\ Engine(e, Taken(e, k), n, kinds)
  /\ \/ /\ Flush(e, t, Untaken(e, k), Pending(e, kinds), to)
        /\ t = "reader" => pc[e]["reader"] # "failed"
     \/ /\ NoFlush(e, t, Untaken(e, k), Pending(e, kinds), to)
        /\ t = "reader" /\ to = "failed"
  /\ UNCHANGED <<below, torn>>

(* The types of the variables that such a step changes.                    *)
StreamTypes == /\ flights \in FlightCounts /\ short \in BOOLEAN
               /\ pc \in [Ends -> [Tasks -> PC]]
               /\ after \in [Ends -> [Tasks -> PC]]
               /\ gen \in [Ends -> Seq(Kinds)] /\ seen \in [Ends -> Nat]
               /\ in \in [Ends -> Seq(Pieces)] /\ out \in [Ends -> Seq(Pieces)]
               /\ wire \in [Ends -> Seq(Pieces)]
               /\ rest \in [Ends -> [Tasks -> Seq(Pieces)]]
               /\ torn \in [Ends -> BOOLEAN] /\ mixed \in [Ends -> BOOLEAN]

LEMMA PendingKnown ==
  ASSUME StreamTypes, Known, NEW e \in Ends, NEW kinds \in Seq(Kinds)
  PROVE  /\ gen[e] \o kinds \in Seq(Kinds)
         /\ Len(gen[e] \o kinds) = Len(gen[e]) + Len(kinds)
         /\ Len(gen[e]) \in Nat /\ Len(kinds) \in Nat
         /\ Pending(e, kinds) \in Seq(Pieces)
         /\ UpTo(Pending(e, kinds), Len(gen[e]) + Len(kinds))
         /\ Pending(e, <<>>) = out[e]
<1>1. gen[e] \in Seq(Kinds) /\ out[e] \in Seq(Pieces) /\ UpTo(out[e], Len(gen[e]))
  BY DEF StreamTypes, Known
<1>2. Len(gen[e]) \in Nat /\ Len(kinds) \in Nat /\ Len(<<>>) = 0
  BY <1>1, LenProperties, EmptySeq
<1>3. /\ gen[e] \o kinds \in Seq(Kinds)
      /\ Len(gen[e] \o kinds) = Len(gen[e]) + Len(kinds)
  BY <1>1, ConcatProperties
<1>4. PICK m \in Nat : m = Len(gen[e]) + Len(kinds) /\ Len(gen[e]) <= m
  BY <1>2
<1>5. Stream(Len(gen[e]), m) \in Seq(Pieces) /\ UpTo(Stream(Len(gen[e]), m), m)
  BY <1>2, <1>4, UpToStream
<1>6. UpTo(out[e], m)
  BY <1>1, <1>2, <1>4, UpToParts
<1>7. /\ out[e] \o Stream(Len(gen[e]), m) \in Seq(Pieces)
      /\ UpTo(out[e] \o Stream(Len(gen[e]), m), m)
  BY <1>1, <1>4, <1>5, <1>6, UpToJoin
<1>8. Pending(e, <<>>) = out[e]
  <2>1. Stream(Len(gen[e]), Len(gen[e]) + Len(<<>>))
          = Stretch(2 * Len(gen[e]), 2 * Len(gen[e]))
    BY <1>2, StreamIsStretch
  <2>2. Stretch(2 * Len(gen[e]), 2 * Len(gen[e])) = <<>>
    <3>1. PICK x \in Nat : x = 2 * Len(gen[e]) /\ x <= x
      BY <1>2
    <3>2. QED
      BY <3>1, StretchIsSeq
  <2>3. QED
    BY <1>1, <2>1, <2>2, LaterNone DEF Pending
<1>9. QED
  BY <1>2, <1>3, <1>4, <1>7, <1>8 DEF Pending

LEMMA PumpTypes ==
  ASSUME TypeOK, Known, NEW e \in Ends, NEW t \in Tasks,
         NEW k \in 0..Len(wire[Peer(e)]), NEW n \in Nat,
         n <= Whole(e, Taken(e, k)), NEW kinds \in Seq(Kinds), NEW to \in PC,
         Pumps(e, t, k, n, kinds, to)
  PROVE  StreamTypes'
<1>1. StreamTypes
  BY DEF TypeOK, StreamTypes, Pieces
<1>2. /\ Untaken(e, k) \in [Ends -> Seq(Pieces)] /\ Taken(e, k) \in Seq(Pieces)
      /\ Whole(e, Taken(e, k)) \in Nat /\ 2 * Whole(e, Taken(e, k)) <= Len(Taken(e, k))
      /\ Len(Taken(e, k)) \in Nat
  BY TakenSome, WholeBounds, LenProperties
<1>3. 2 * n \in 0..Len(Taken(e, k))
  BY <1>2
<1>4. in' = [in EXCEPT ![e] = Later(Taken(e, k), 2 * n)]
      /\ Later(Taken(e, k), 2 * n) \in Seq(Pieces)
  BY <1>2, <1>3, Parts DEF Pumps, Engine, Later
<1>5. gen' = [gen EXCEPT ![e] = gen[e] \o kinds] /\ seen' = [seen EXCEPT ![e] = seen[e] + n]
  BY DEF Pumps, Engine
<1>6. /\ in' \in [Ends -> Seq(Pieces)] /\ gen' \in [Ends -> Seq(Kinds)]
      /\ seen' \in [Ends -> Nat]
  <2>1. gen[e] \o kinds \in Seq(Kinds) /\ seen[e] + n \in Nat
    BY <1>1, PendingKnown DEF StreamTypes
  <2>2. QED
    BY <1>1, <1>4, <1>5, <2>1 DEF StreamTypes
<1>7. Pending(e, kinds) \in Seq(Pieces) /\ <<>> \in Seq(Pieces)
  BY <1>1, PendingKnown, EmptySeq
<1>8. UNCHANGED <<flights, short, torn>>
  BY DEF Pumps, below
<1> DEFINE data == Pending(e, kinds)
           w == Untaken(e, k)
<1>9. Flush(e, t, w, data, to) \/ NoFlush(e, t, w, data, to)
  BY DEF Pumps
<1> HIDE DEF data, w
<1>10. w \in [Ends -> Seq(Pieces)] /\ data \in Seq(Pieces)
  BY <1>2, <1>7 DEF w, data
<1>11. out' \in [Ends -> Seq(Pieces)]
  BY <1>1, <1>7, <1>9, <1>10 DEF Flush, NoFlush, StreamTypes
<1>12. /\ \E g \in PC : pc' = Put(pc, e, t, g)
       /\ after' = after \/ after' = Put(after, e, t, to)
       /\ rest' = rest \/ \E r \in Seq(Pieces) : rest' = Put(rest, e, t, r)
  BY <1>7, <1>9, <1>10 DEF Flush, NoFlush, GoTo, PC, Put
<1>13. /\ pc' \in [Ends -> [Tasks -> PC]] /\ after' \in [Ends -> [Tasks -> PC]]
       /\ rest' \in [Ends -> [Tasks -> Seq(Pieces)]]
  <2>1. /\ pc \in [Ends -> [Tasks -> PC]] /\ after \in [Ends -> [Tasks -> PC]]
        /\ rest \in [Ends -> [Tasks -> Seq(Pieces)]]
    BY <1>1 DEF StreamTypes
  <2>2. pc' \in [Ends -> [Tasks -> PC]]
    BY <1>12, <2>1 DEF Put
  <2>3. after' \in [Ends -> [Tasks -> PC]]
    <3>1. CASE after' = after
      BY <2>1, <3>1, Zenon
    <3>2. CASE after' = Put(after, e, t, to)
      BY <2>1, <3>2 DEF Put
    <3>3. QED
      BY <1>12, <3>1, <3>2
  <2>4. rest' \in [Ends -> [Tasks -> Seq(Pieces)]]
    <3>1. CASE rest' = rest
      BY <2>1, <3>1, Zenon
    <3>2. ASSUME NEW r \in Seq(Pieces), rest' = Put(rest, e, t, r)
          PROVE  rest' \in [Ends -> [Tasks -> Seq(Pieces)]]
      BY <2>1, <3>2 DEF Put
    <3>3. QED
      BY <1>12, <3>1, <3>2
  <2>5. QED
    BY <2>2, <2>3, <2>4
<1>14. wire' \in [Ends -> Seq(Pieces)]
  <2>1. w[e] \o data \in Seq(Pieces)
    BY <1>10, ConcatProperties
  <2>2. QED
    BY <1>9, <1>10, <2>1 DEF Flush, NoFlush
<1>15. mixed' \in [Ends -> BOOLEAN]
  BY <1>1, <1>9, Zenon DEF Flush, NoFlush, StreamTypes
<1>16. QED
  BY <1>1, <1>6, <1>8, <1>11, <1>13, <1>14, <1>15 DEF StreamTypes
(* The same step, value by value: nothing is written, or write_all begins. *)
Same(x, u) == /\ pc'[x][u] = pc[x][u] /\ after'[x][u] = after[x][u]
              /\ rest'[x][u] = rest[x][u]
Quiet(e, t, w, data, to) ==
  /\ \/ data = <<>> /\ out'[e] = <<>>
     \/ to = "failed" /\ t = "reader" /\ out'[e] = data
  /\ pc'[e][t] = to /\ after'[e][t] = after[e][t] /\ rest'[e][t] = rest[e][t]
  /\ wire'[e] = w[e] /\ mixed'[e] = mixed[e]
Begins(e, t, w, data, to) ==
  /\ data # <<>> /\ out'[e] = <<>>
  /\ pc'[e][t] = "flush" /\ after'[e][t] = to
  /\ short => rest'[e][t] = data /\ wire'[e] = w[e]
  /\ ~short => rest'[e][t] = <<>> /\ wire'[e] = w[e] \o data
  /\ mixed'[e] = (mixed[e] \/ \E u \in Tasks \ {t} : rest[e][u] # <<>>)
Elsewhere(e, t, w) ==
  /\ \A x \in Ends \ {e} : /\ out'[x] = out[x] /\ wire'[x] = w[x]
                           /\ mixed'[x] = mixed[x]
                           /\ \A u \in Tasks : Same(x, u)
  /\ \A u \in Tasks \ {t} : Same(e, u)

LEMMA FlushByValue ==
  ASSUME StreamTypes, NEW e \in Ends, NEW t \in Tasks, NEW w \in [Ends -> Seq(Pieces)],
         NEW data, NEW to \in PC,
         \/ Flush(e, t, w, data, to)
         \/ NoFlush(e, t, w, data, to) /\ t = "reader" /\ to = "failed"
  PROVE  /\ Elsewhere(e, t, w)
         /\ Quiet(e, t, w, data, to) \/ Begins(e, t, w, data, to)
<1> USE DEF StreamTypes
<1>1. CASE Flush(e, t, w, data, to) /\ data = <<>>
  <2>1. /\ out' = [out EXCEPT ![e] = <<>>] /\ pc' = [pc EXCEPT ![e][t] = to]
        /\ wire' = w /\ after' = after /\ rest' = rest /\ mixed' = mixed
    BY <1>1 DEF Flush, GoTo
  <2>2. Elsewhere(e, t, w)
    BY <2>1 DEF Elsewhere, Same
  <2>3. Quiet(e, t, w, data, to)
    BY <1>1, <2>1 DEF Quiet
  <2>4. QED
    BY <2>2, <2>3
<1>2. CASE Flush(e, t, w, data, to) /\ data # <<>>
  <2>1. /\ out' = [out EXCEPT ![e] = <<>>] /\ pc' = [pc EXCEPT ![e][t] = "flush"]
        /\ after' = [after EXCEPT ![e][t] = to]
        /\ rest' = [rest EXCEPT ![e][t] = IF short THEN data ELSE <<>>]
        /\ wire' = [w EXCEPT ![e] = IF short THEN w[e] ELSE w[e] \o data]
        /\ mixed' = [mixed EXCEPT ![e] =
                       mixed[e] \/ \E u \in Tasks \ {t} : rest[e][u] # <<>>]
    BY <1>2 DEF Flush, GoTo
  <2>2. /\ \A x \in Ends \ {e} : out'[x] = out[x] /\ mixed'[x] = mixed[x]
        /\ out'[e] = <<>>
        /\ mixed'[e] = (mixed[e] \/ \E u \in Tasks \ {t} : rest[e][u] # <<>>)
    BY <2>1, Zenon
  <2>3. /\ \A x \in Ends \ {e} : wire'[x] = w[x]
        /\ wire'[e] = IF short THEN w[e] ELSE w[e] \o data
    BY <2>1
  <2>4. /\ \A x \in Ends, u \in Tasks : x # e \/ u # t => Same(x, u)
        /\ pc'[e][t] = "flush" /\ after'[e][t] = to
        /\ rest'[e][t] = IF short THEN data ELSE <<>>
    BY <2>1 DEF Same
  <2>5. Elsewhere(e, t, w)
    BY <2>2, <2>3, <2>4 DEF Elsewhere
  <2>6. Begins(e, t, w, data, to)
    BY <1>2, <2>2, <2>3, <2>4 DEF Begins
  <2>7. QED
    BY <2>5, <2>6
<1>3. CASE NoFlush(e, t, w, data, to) /\ t = "reader" /\ to = "failed"
  <2>1. /\ out' = [out EXCEPT ![e] = data] /\ pc' = [pc EXCEPT ![e][t] = to]
        /\ wire' = w /\ after' = after /\ rest' = rest /\ mixed' = mixed
    BY <1>3 DEF NoFlush, GoTo
  <2>2. Elsewhere(e, t, w)
    BY <2>1 DEF Elsewhere, Same
  <2>3. Quiet(e, t, w, data, to)
    BY <1>3, <2>1 DEF Quiet
  <2>4. QED
    BY <2>2, <2>3
<1>4. QED
  BY <1>1, <1>2, <1>3

(* All that such a step does, value by value.                              *)
LEMMA PumpByValue ==
  ASSUME TypeOK, Known, NEW e \in Ends, NEW t \in Tasks,
         NEW k \in 0..Len(wire[Peer(e)]), NEW n \in Nat,
         n <= Whole(e, Taken(e, k)), NEW kinds \in Seq(Kinds), NEW to \in PC,
         Pumps(e, t, k, n, kinds, to)
  PROVE  /\ StreamTypes /\ StreamTypes'
         /\ Elsewhere(e, t, Untaken(e, k))
         /\ \/ Quiet(e, t, Untaken(e, k), Pending(e, kinds), to)
            \/ Begins(e, t, Untaken(e, k), Pending(e, kinds), to)
         /\ short' = short /\ torn' = torn
         /\ in'[e] = Later(Taken(e, k), 2 * n) /\ in'[Peer(e)] = in[Peer(e)]
         /\ seen'[e] = seen[e] + n /\ seen'[Peer(e)] = seen[Peer(e)]
         /\ gen'[e] = gen[e] \o kinds /\ gen'[Peer(e)] = gen[Peer(e)]
         /\ Len(gen'[e]) = Len(gen[e]) + Len(kinds)
         /\ Untaken(e, k)[e] = wire[e]
         /\ Untaken(e, k)[Peer(e)] = Later(wire[Peer(e)], k)
         /\ 2 * n \in Nat /\ 2 * n <= Len(Taken(e, k))
         /\ seen[e] + n <= Len(gen[Peer(e)])
<1>1. StreamTypes
  BY DEF TypeOK, StreamTypes, Pieces
<1>2. StreamTypes'
  BY PumpTypes
<1>3. Untaken(e, k) \in [Ends -> Seq(Pieces)]
  BY TakenSome
<1>4. /\ Elsewhere(e, t, Untaken(e, k))
      /\ \/ Quiet(e, t, Untaken(e, k), Pending(e, kinds), to)
         \/ Begins(e, t, Untaken(e, k), Pending(e, kinds), to)
  BY <1>1, <1>3, FlushByValue DEF Pumps
<1>5. short' = short /\ torn' = torn
  BY DEF Pumps, below
<1>6. Peer(e) \in Ends /\ Peer(e) # e
  BY TwoEnds
<1>7. /\ in' = [in EXCEPT ![e] = Later(Taken(e, k), 2 * n)]
      /\ gen' = [gen EXCEPT ![e] = gen[e] \o kinds]
      /\ seen' = [seen EXCEPT ![e] = seen[e] + n]
  BY DEF Pumps, Engine, Later
<1>8. /\ in'[e] = Later(Taken(e, k), 2 * n) /\ in'[Peer(e)] = in[Peer(e)]
      /\ seen'[e] = seen[e] + n /\ seen'[Peer(e)] = seen[Peer(e)]
      /\ gen'[e] = gen[e] \o kinds /\ gen'[Peer(e)] = gen[Peer(e)]
  BY <1>1, <1>6, <1>7, Zenon DEF StreamTypes
<1>9. Len(gen'[e]) = Len(gen[e]) + Len(kinds)
  BY <1>1, <1>8, PendingKnown
<1>10. /\ Untaken(e, k)[e] = wire[e]
       /\ Untaken(e, k)[Peer(e)] = Later(wire[Peer(e)], k)
  BY <1>1, <1>6, TakenSome DEF StreamTypes
<1>11. /\ Whole(e, Taken(e, k)) \in Nat
       /\ 2 * Whole(e, Taken(e, k)) <= Len(Taken(e, k))
       /\ seen[e] + Whole(e, Taken(e, k)) <= Len(gen[Peer(e)])
       /\ Len(Taken(e, k)) \in Nat /\ seen[e] \in Nat /\ Len(gen[Peer(e)]) \in Nat
  BY TakenSome, WholeBounds, LenProperties
<1>12. /\ 2 * n \in Nat /\ 2 * n <= Len(Taken(e, k))
       /\ seen[e] + n <= Len(gen[Peer(e)])
  BY <1>11
<1>13. QED
  BY <1>1, <1>2, <1>4, <1>5, <1>8, <1>9, <1>10, <1>12
LEMMA PumpKnown ==
  ASSUME TypeOK, Known, NEW e \in Ends, NEW t \in Tasks,
         NEW k \in 0..Len(wire[Peer(e)]), NEW n \in Nat,
         n <= Whole(e, Taken(e, k)), NEW kinds \in Seq(Kinds), NEW to \in PC,
         Pumps(e, t, k, n, kinds, to)
  PROVE  Known'
<1> DEFINE p == Peer(e)
           w == Untaken(e, k)
           data == Pending(e, kinds)
           m == Len(gen'[e])
<1>1. /\ p \in Ends /\ p # e /\ Peer(p) = e /\ \A x \in Ends : x = e \/ x = p
  BY TwoEnds
<1>2. /\ StreamTypes /\ StreamTypes' /\ Elsewhere(e, t, w)
      /\ Quiet(e, t, w, data, to) \/ Begins(e, t, w, data, to)
      /\ in'[e] = Later(Taken(e, k), 2 * n) /\ in'[p] = in[p]
      /\ seen'[e] = seen[e] + n /\ seen'[p] = seen[p]
      /\ gen'[p] = gen[p] /\ m = Len(gen[e]) + Len(kinds)
      /\ w[e] = wire[e] /\ w[p] = Later(wire[p], k)
      /\ 2 * n \in Nat /\ 2 * n <= Len(Taken(e, k))
      /\ seen[e] + n <= Len(gen[p])
  BY PumpByValue
<1>3. /\ data \in Seq(Pieces) /\ UpTo(data, m)
      /\ Len(gen[e]) \in Nat /\ m \in Nat /\ Len(gen[e]) <= m
  BY <1>2, PendingKnown
<1>4. /\ Taken(e, k) \in Seq(Pieces) /\ UpTo(Taken(e, k), Len(gen[p]))
      /\ UpTo(Later(wire[p], k), Len(gen[p])) /\ Len(gen[p]) \in Nat
      /\ Len(Taken(e, k)) \in Nat
  BY TakenSome, LenProperties
<1>5. UpTo(<<>>, m) /\ UpTo(<<>>, Len(gen[p]))
  BY EmptySeq DEF UpTo
<1>6. /\ seen[p] <= Len(gen[e]) /\ UpTo(in[p], Len(gen[e])) /\ UpTo(wire[e], Len(gen[e]))
      /\ \A u \in Tasks : UpTo(rest[e][u], Len(gen[e]))
      /\ \A u \in Tasks : UpTo(rest[p][u], Len(gen[p]))
      /\ UpTo(out[p], Len(gen[p]))
  BY <1>1 DEF Known
<1>7. /\ in[p] \in Seq(Pieces) /\ wire[e] \in Seq(Pieces)
      /\ \A u \in Tasks : rest[e][u] \in Seq(Pieces)
      /\ seen[p] \in Nat
  BY <1>1, <1>2 DEF StreamTypes
<1>8. /\ seen[p] <= m /\ UpTo(in[p], m) /\ UpTo(wire[e], m)
      /\ \A u \in Tasks : UpTo(rest[e][u], m)
  <2>1. UpTo(in[p], m)
    BY <1>3, <1>6, <1>7, UpToParts
  <2>2. UpTo(wire[e], m)
    BY <1>3, <1>6, <1>7, UpToParts
  <2>3. \A u \in Tasks : UpTo(rest[e][u], m)
    BY <1>3, <1>6, <1>7, UpToParts
  <2>4. seen[p] <= m
    BY <1>3, <1>6, <1>7
  <2>5. QED
    BY <2>1, <2>2, <2>3, <2>4
<1> HIDE DEF p, w, data, m
<1>9. /\ seen'[e] <= Len(gen'[p]) /\ UpTo(in'[e], Len(gen'[p]))
      /\ UpTo(wire'[p], Len(gen'[p]))
      /\ \A u \in Tasks : UpTo(rest'[p][u], Len(gen'[p]))
      /\ UpTo(out'[p], Len(gen'[p]))
  <2>1. UpTo(Later(Taken(e, k), 2 * n), Len(gen[p]))
    BY <1>2, <1>4, UpToParts
  <2>2. /\ wire'[p] = w[p] /\ out'[p] = out[p]
        /\ \A u \in Tasks : rest'[p][u] = rest[p][u]
    BY <1>1, <1>2 DEF Elsewhere, Same
  <2>3. QED
    BY <1>2, <1>4, <1>6, <2>1, <2>2
<1>10. /\ UpTo(wire'[e], m) /\ UpTo(out'[e], m)
       /\ \A u \in Tasks : UpTo(rest'[e][u], m)
  <2>1. \A u \in Tasks \ {t} : rest'[e][u] = rest[e][u]
    BY <1>2 DEF Elsewhere, Same
  <2>2. CASE Quiet(e, t, w, data, to)
    BY <1>2, <1>3, <1>5, <1>8, <2>1, <2>2 DEF Quiet
  <2>3. CASE Begins(e, t, w, data, to)
    <3>1. UpTo(w[e] \o data, m)
      BY <1>2, <1>3, <1>7, <1>8, UpToJoin
    <3>2. UpTo(wire'[e], m) /\ UpTo(out'[e], m) /\ UpTo(rest'[e][t], m)
      BY <1>2, <1>3, <1>5, <1>8, <2>3, <3>1 DEF Begins, StreamTypes
    <3>3. QED
      BY <1>8, <2>1, <3>2
  <2>4. QED
    BY <1>2, <2>2, <2>3
<1>11. seen'[p] <= m /\ UpTo(in'[p], m)
  BY <1>2, <1>8
<1>12. QED
  BY <1>1, <1>9, <1>10, <1>11 DEF Known, p, m

LEMMA PumpWriters ==
  ASSUME TypeOK, Known, Writers, NEW e \in Ends, NEW t \in Tasks,
         NEW k \in 0..Len(wire[Peer(e)]), NEW n \in Nat,
         n <= Whole(e, Taken(e, k)), NEW kinds \in Seq(Kinds), NEW to \in PC,
         Pumps(e, t, k, n, kinds, to)
  PROVE  Writers'
<1> DEFINE w == Untaken(e, k)
           data == Pending(e, kinds)
<1>1. /\ StreamTypes /\ StreamTypes' /\ Elsewhere(e, t, w)
      /\ Quiet(e, t, w, data, to) \/ Begins(e, t, w, data, to)
      /\ short' = short /\ torn' = torn
  BY PumpByValue
<1>2. /\ pc[e][t] # "flush"
      /\ t = "reader" /\ pc[e]["reader"] = "failed" => to = "failed"
  BY DEF Pumps
<1> HIDE DEF w, data
<1>3. ASSUME NEW x \in Ends, x # e
      PROVE  /\ out'[x] = out[x] /\ mixed'[x] = mixed[x]
             /\ \A u \in Tasks : pc'[x][u] = pc[x][u] /\ rest'[x][u] = rest[x][u]
  BY <1>1, <1>3 DEF Elsewhere, Same
<1>4. \A u \in Tasks \ {t} : pc'[e][u] = pc[e][u] /\ rest'[e][u] = rest[e][u]
  BY <1>1 DEF Elsewhere, Same
<1>5. /\ rest[e][t] = <<>>
      /\ ~short => ~torn[e] /\ ~mixed[e] /\ \A u \in Tasks : rest[e][u] = <<>>
      /\ \A u \in Tasks : rest[e][u] # <<>> => pc[e][u] = "flush"
      /\ ~mixed[e] => rest[e]["reader"] = <<>> \/ rest[e]["writer"] = <<>>
      /\ out[e] # <<>> => pc[e]["reader"] = "failed"
  BY <1>2 DEF Writers, Damaged
<1>6. /\ ~short' => ~torn'[e] /\ ~mixed'[e] /\ \A u \in Tasks : rest'[e][u] = <<>>
      /\ \A u \in Tasks : rest'[e][u] # <<>> => pc'[e][u] = "flush"
      /\ ~mixed'[e] => rest'[e]["reader"] = <<>> \/ rest'[e]["writer"] = <<>>
      /\ out'[e] # <<>> => pc'[e]["reader"] = "failed"
  <2>1. CASE Quiet(e, t, w, data, to)
    <3>1. /\ rest'[e][t] = <<>> /\ mixed'[e] = mixed[e]
          /\ pc'[e][t] = to
          /\ \/ out'[e] = <<>>
             \/ to = "failed" /\ t = "reader"
      BY <1>5, <2>1 DEF Quiet
    <3>2. QED
      BY <1>1, <1>4, <1>5, <3>1 DEF Tasks
  <2>2. CASE Begins(e, t, w, data, to)
    <3>1. /\ ~short => rest'[e][t] = <<>>
          /\ out'[e] = <<>> /\ pc'[e][t] = "flush"
      BY <2>2 DEF Begins
    <3>2. ~short => ~mixed'[e]
      BY <1>5, <2>2, Zenon DEF Begins
    <3>3. ~mixed'[e] => \A u \in Tasks \ {t} : rest[e][u] = <<>>
      BY <2>2, Zenon DEF Begins
    <3>4. QED
      BY <1>1, <1>4, <1>5, <3>1, <3>2, <3>3 DEF Tasks
  <2>3. QED
    BY <1>1, <2>1, <2>2
<1>7. ASSUME NEW x \in Ends, x # e
      PROVE  /\ ~short' => ~torn'[x] /\ ~mixed'[x] /\ \A u \in Tasks : rest'[x][u] = <<>>
             /\ \A u \in Tasks : rest'[x][u] # <<>> => pc'[x][u] = "flush"
             /\ ~mixed'[x] => rest'[x]["reader"] = <<>> \/ rest'[x]["writer"] = <<>>
             /\ out'[x] # <<>> => pc'[x]["reader"] = "failed"
  BY <1>1, <1>3, <1>7 DEF Writers, Damaged, Tasks
<1>8. QED
  BY <1>6, <1>7 DEF Writers, Damaged

LEMMA PumpUncut ==
  ASSUME TypeOK, Known, Writers, Uncut, NEW e \in Ends, NEW t \in Tasks,
         NEW k \in 0..Len(wire[Peer(e)]), NEW n \in Nat,
         n <= Whole(e, Taken(e, k)), NEW kinds \in Seq(Kinds), NEW to \in PC,
         Pumps(e, t, k, n, kinds, to)
  PROVE  Uncut'
<1> DEFINE p == Peer(e)
           w == Untaken(e, k)
           data == Pending(e, kinds)
<1>1. /\ p \in Ends /\ p # e /\ Peer(p) = e /\ \A x \in Ends : x = e \/ x = p
  BY TwoEnds
<1>2. /\ StreamTypes /\ StreamTypes' /\ Elsewhere(e, t, w)
      /\ Quiet(e, t, w, data, to) \/ Begins(e, t, w, data, to)
      /\ short' = short /\ torn' = torn
      /\ in'[e] = Later(Taken(e, k), 2 * n) /\ in'[p] = in[p]
      /\ seen'[e] = seen[e] + n /\ seen'[p] = seen[p]
      /\ gen'[p] = gen[p] /\ Len(gen'[e]) = Len(gen[e]) + Len(kinds)
      /\ w[e] = wire[e] /\ w[p] = Later(wire[p], k)
      /\ 2 * n \in Nat /\ 2 * n <= Len(Taken(e, k))
      /\ seen[e] + n <= Len(gen[p])
  BY PumpByValue
<1>3. /\ Len(gen[e]) \in Nat /\ Len(kinds) \in Nat /\ Len(gen[p]) \in Nat
      /\ seen[e] \in Nat /\ seen[p] \in Nat
  BY <1>2, PendingKnown, TakenSome, <1>1 DEF StreamTypes
<1>4. ~Damaged(p)' => Cuts(in'[e], wire'[p], rest'[p]["reader"], rest'[p]["writer"],
                           out'[p], 2 * seen'[e], 2 * Len(gen'[p]))
  <2>1. SUFFICES ASSUME ~Damaged(p)'
                 PROVE  Cuts(in'[e], wire'[p], rest'[p]["reader"], rest'[p]["writer"],
                             out'[p], 2 * seen'[e], 2 * Len(gen'[p]))
    OBVIOUS
  <2>2. /\ wire'[p] = w[p] /\ out'[p] = out[p] /\ mixed'[p] = mixed[p]
        /\ rest'[p]["reader"] = rest[p]["reader"]
        /\ rest'[p]["writer"] = rest[p]["writer"]
    BY <1>1, <1>2 DEF Elsewhere, Same, Tasks
  <2>3. ~Damaged(p)
    BY <1>2, <2>1, <2>2 DEF Damaged
  <2>4. Cuts(in[e], wire[p], rest[p]["reader"], rest[p]["writer"], out[p],
             2 * seen[e], 2 * Len(gen[p]))
    BY <1>1, <2>3 DEF Uncut
  <2>5. Taken(e, k) = in[e] \o First(wire[p], k)
    BY TakenSome
  <2>6. 2 * seen[e] \in Nat /\ 2 * Len(gen[p]) \in Nat /\ 2 * n \in Nat
        /\ 2 * seen[e] + 2 * n = 2 * (seen[e] + n)
    BY <1>2, <1>3
  <2>7. Cuts(Later(Taken(e, k), 2 * n), Later(wire[p], k), rest[p]["reader"],
             rest[p]["writer"], out[p], 2 * seen[e] + 2 * n, 2 * Len(gen[p]))
    BY <1>2, <2>4, <2>5, <2>6, CutsTaken
  <2>8. QED
    BY <1>2, <2>2, <2>6, <2>7
<1>5. ~Damaged(e)' => Cuts(in'[p], wire'[e], rest'[e]["reader"], rest'[e]["writer"],
                           out'[e], 2 * seen'[p], 2 * Len(gen'[e]))
  <2>1. SUFFICES ASSUME ~Damaged(e)'
                 PROVE  Cuts(in'[p], wire'[e], rest'[e]["reader"], rest'[e]["writer"],
                             out'[e], 2 * seen'[p], 2 * Len(gen'[e]))
    OBVIOUS
  <2>2. ~torn[e] /\ ~mixed'[e]
    BY <1>2, <2>1 DEF Damaged
  <2>3. ~mixed[e]
    BY <1>2, <2>2 DEF Quiet, Begins
  <2>4. Cuts(in[p], wire[e], rest[e]["reader"], rest[e]["writer"], out[e],
             2 * seen[p], 2 * Len(gen[e]))
    BY <1>1, <2>2, <2>3 DEF Uncut, Damaged
  <2>5. PICK y \in Nat, z \in Nat : /\ y = 2 * Len(gen[e]) /\ z = 2 * Len(gen'[e])
                                    /\ y <= z /\ 2 * seen[p] \in Nat
    <3>1. \A a, b \in Nat : /\ 2 * a \in Nat /\ 2 * (a + b) \in Nat
                            /\ 2 * a <= 2 * (a + b)
      OBVIOUS
    <3>2. Len(gen'[e]) = Len(gen[e]) + Len(kinds)
      BY <1>2
    <3>3. QED
      BY <1>3, <3>1, <3>2
  <2>6. data = out[e] \o Stretch(y, z)
    <3>1. Len(gen[e]) <= Len(gen[e]) + Len(kinds) /\ Len(gen[e]) + Len(kinds) \in Nat
      BY <1>3
    <3>2. Stream(Len(gen[e]), Len(gen[e]) + Len(kinds)) = Stretch(y, z)
      BY <1>2, <1>3, <2>5, <3>1, StreamIsStretch
    <3>3. QED
      BY <3>2 DEF Pending
  <2>7. Cuts(in[p], wire[e], rest[e]["reader"], rest[e]["writer"], data, 2 * seen[p], z)
    BY <2>4, <2>5, <2>6, CutsGrow
  <2>8. \A u \in Tasks \ {t} : rest'[e][u] = rest[e][u]
    BY <1>2 DEF Elsewhere, Same
  <2> HIDE DEF data, w, p
  <2>9. CASE Quiet(e, t, w, data, to)
    <3>1. /\ rest'[e]["reader"] = rest[e]["reader"] /\ rest'[e]["writer"] = rest[e]["writer"]
          /\ wire'[e] = wire[e] /\ out'[e] = data
      BY <1>2, <2>8, <2>9 DEF Quiet, Tasks
    <3>2. QED
      BY <1>2, <2>5, <2>7, <3>1
  <2>10. CASE Begins(e, t, w, data, to)
    <3>1. rest[e]["reader"] = <<>> /\ rest[e]["writer"] = <<>>
      <4>1. \A u \in Tasks \ {t} : rest[e][u] = <<>>
        BY <2>2, <2>10, Zenon DEF Begins
      <4>2. rest[e][t] = <<>>
        BY DEF Pumps, Writers
      <4>3. QED
        BY <4>1, <4>2 DEF Tasks
    <3>2. Cuts(in[p], wire[e], <<>>, <<>>, data, 2 * seen[p], z)
      BY <2>7, <3>1
    <3>3. /\ Cuts(in[p], wire[e] \o data, <<>>, <<>>, <<>>, 2 * seen[p], z)
          /\ Cuts(in[p], wire[e], data, <<>>, <<>>, 2 * seen[p], z)
          /\ Cuts(in[p], wire[e], <<>>, data, <<>>, 2 * seen[p], z)
      BY <2>5, <3>2, CutsFlushed
    <3>4. /\ out'[e] = <<>> /\ in'[p] = in[p] /\ seen'[p] = seen[p] /\ w[e] = wire[e]
      BY <1>2, <2>10 DEF Begins
    <3>5. CASE ~short
      <4>1. /\ rest'[e]["reader"] = <<>> /\ rest'[e]["writer"] = <<>>
            /\ wire'[e] = wire[e] \o data
        BY <2>8, <2>10, <3>1, <3>4, <3>5 DEF Begins, Tasks
      <4>2. QED
        BY <2>5, <3>3, <3>4, <4>1
    <3>6. CASE short /\ t = "reader"
      <4>1. /\ rest'[e]["reader"] = data /\ rest'[e]["writer"] = <<>>
            /\ wire'[e] = wire[e]
        BY <2>8, <2>10, <3>1, <3>4, <3>6 DEF Begins, Tasks
      <4>2. QED
        BY <2>5, <3>3, <3>4, <4>1
    <3>7. CASE short /\ t = "writer"
      <4>1. /\ rest'[e]["reader"] = <<>> /\ rest'[e]["writer"] = data
            /\ wire'[e] = wire[e]
        BY <2>8, <2>10, <3>1, <3>4, <3>7 DEF Begins, Tasks
      <4>2. QED
        BY <2>5, <3>3, <3>4, <4>1
    <3>8. QED
      BY <3>5, <3>6, <3>7 DEF Tasks
  <2>11. QED
    BY <1>2, <2>9, <2>10
<1>6. QED
  BY <1>1, <1>4, <1>5, Zenon DEF Uncut
LEMMA PartKeepsStream ==
  ASSUME TypeOK, Uncut, Known, Writers, NEW e \in Ends, NEW t \in Tasks,
         WritePart(e, t)
  PROVE  StreamTypes' /\ Uncut' /\ Known' /\ Writers'
<1> DEFINE p == Peer(e)
           r == rest[e][t]
<1>1. /\ p \in Ends /\ p # e /\ Peer(p) = e /\ \A x \in Ends : x = e \/ x = p
  BY TwoEnds
<1>2. StreamTypes
  BY DEF TypeOK, StreamTypes, Pieces
<1>3. /\ pc[e][t] = "flush" /\ r # <<>>
      /\ wire' = [wire EXCEPT ![e] = Append(wire[e], Head(r))]
      /\ rest' = [rest EXCEPT ![e][t] = Tail(r)]
      /\ UNCHANGED <<flights, short, pc, after, gen, seen, in, out, torn, mixed>>
  BY DEF WritePart, below, engine, history
<1>4. /\ r \in Seq(Pieces) /\ wire[e] \in Seq(Pieces) /\ gen[e] \in Seq(Kinds)
      /\ Len(gen[e]) \in Nat
  BY <1>2, LenProperties DEF StreamTypes
<1>5. UpTo(r, Len(gen[e])) /\ UpTo(wire[e], Len(gen[e]))
  BY DEF Known
<1>6. /\ Head(r) \in Pieces /\ Tail(r) \in Seq(Pieces)
      /\ Append(wire[e], Head(r)) \in Seq(Pieces)
  BY <1>3, <1>4, HeadTailProperties, AppendProperties
<1>7. UpTo(Tail(r), Len(gen[e])) /\ UpTo(Append(wire[e], Head(r)), Len(gen[e]))
  <2>1. UpTo(Tail(r), Len(gen[e])) /\ Head(r)[1] <= Len(gen[e])
    BY <1>3, <1>4, <1>5, UpToParts
  <2>2. ASSUME NEW i \in 1..Len(wire[e]) + 1
        PROVE  Append(wire[e], Head(r))[i][1] <= Len(gen[e])
    <3>1. Len(wire[e]) \in Nat
      BY <1>4, LenProperties
    <3>2. CASE i \in 1..Len(wire[e])
      BY <1>4, <1>5, <1>6, <3>2, AppendProperties DEF UpTo
    <3>3. CASE i = Len(wire[e]) + 1
      BY <1>4, <1>6, <2>1, <3>3, AppendProperties
    <3>4. QED
      BY <3>1, <3>2, <3>3
  <2>3. Len(Append(wire[e], Head(r))) = Len(wire[e]) + 1
    BY <1>4, <1>6, AppendProperties
  <2>4. QED
    BY <2>1, <2>2, <2>3 DEF UpTo
<1> HIDE DEF p, r
<1>8. /\ wire' \in [Ends -> Seq(Pieces)]
      /\ wire'[e] = Append(wire[e], Head(r)) /\ wire'[p] = wire[p]
  BY <1>1, <1>2, <1>3, <1>6 DEF StreamTypes
<1>9. /\ rest' \in [Ends -> [Tasks -> Seq(Pieces)]]
      /\ rest'[e][t] = Tail(r)
      /\ \A u \in Tasks \ {t} : rest'[e][u] = rest[e][u]
      /\ \A u \in Tasks : rest'[p][u] = rest[p][u]
  BY <1>1, <1>2, <1>3, <1>6 DEF StreamTypes
<1>10. StreamTypes'
  BY <1>2, <1>3, <1>8, <1>9 DEF StreamTypes
<1>11. Known'
  <2>1. ASSUME NEW x \in Ends
        PROVE  /\ seen'[Peer(x)] <= Len(gen'[x])
               /\ UpTo(in'[Peer(x)], Len(gen'[x])) /\ UpTo(wire'[x], Len(gen'[x]))
               /\ \A u \in Tasks : UpTo(rest'[x][u], Len(gen'[x]))
               /\ UpTo(out'[x], Len(gen'[x]))
    <3>1. /\ seen[Peer(x)] <= Len(gen[x])
          /\ UpTo(in[Peer(x)], Len(gen[x])) /\ UpTo(wire[x], Len(gen[x]))
          /\ \A u \in Tasks : UpTo(rest[x][u], Len(gen[x]))
          /\ UpTo(out[x], Len(gen[x]))
      BY DEF Known
    <3>2. CASE x = e
      <4>1. \A u \in Tasks : UpTo(rest'[e][u], Len(gen[e]))
        BY <1>7, <1>9, <3>1, <3>2
      <4>2. QED
        BY <1>3, <1>7, <1>8, <3>1, <3>2, <4>1
    <3>3. CASE x = p
      BY <1>3, <1>8, <1>9, <3>1, <3>3
    <3>4. QED
      BY <1>1, <3>2, <3>3
  <2>2. QED
    BY <2>1 DEF Known
<1>12. ~short => r = <<>>
  BY DEF Writers, r
<1>13. Writers'
  <2>1. ASSUME NEW x \in Ends
        PROVE  /\ ~short' => ~Damaged(x)' /\ \A u \in Tasks : rest'[x][u] = <<>>
               /\ \A u \in Tasks : rest'[x][u] # <<>> => pc'[x][u] = "flush"
               /\ ~mixed'[x] => rest'[x]["reader"] = <<>> \/ rest'[x]["writer"] = <<>>
               /\ out'[x] # <<>> => pc'[x]["reader"] = "failed"
    <3>1. /\ ~short => ~Damaged(x) /\ \A u \in Tasks : rest[x][u] = <<>>
          /\ \A u \in Tasks : rest[x][u] # <<>> => pc[x][u] = "flush"
          /\ ~mixed[x] => rest[x]["reader"] = <<>> \/ rest[x]["writer"] = <<>>
          /\ out[x] # <<>> => pc[x]["reader"] = "failed"
      BY DEF Writers
    <3>2. Damaged(x)' <=> Damaged(x)
      BY <1>3 DEF Damaged
    <3>3. CASE x = e
      <4>1. ~mixed[e] => \A u \in Tasks \ {t} : rest[e][u] = <<>>
        BY <1>3, <3>1, <3>3 DEF Tasks, r
      <4>2. QED
        BY <1>3, <1>9, <1>12, <3>1, <3>2, <3>3, <4>1 DEF Tasks
    <3>4. CASE x = p
      BY <1>3, <1>9, <3>1, <3>2, <3>4 DEF Tasks
    <3>5. QED
      BY <1>1, <3>3, <3>4
  <2>2. QED
    BY <2>1 DEF Writers
<1>14. Uncut'
  <2>1. ASSUME NEW x \in Ends, ~Damaged(x)'
        PROVE  Cuts(in'[Peer(x)], wire'[x], rest'[x]["reader"], rest'[x]["writer"],
                    out'[x], 2 * seen'[Peer(x)], 2 * Len(gen'[x]))
    <3>1. ~Damaged(x)
      BY <1>3, <2>1 DEF Damaged
    <3>2. Cuts(in[Peer(x)], wire[x], rest[x]["reader"], rest[x]["writer"],
               out[x], 2 * seen[Peer(x)], 2 * Len(gen[x]))
      BY <3>1 DEF Uncut
    <3>3. CASE x = p
      BY <1>3, <1>8, <1>9, <3>2, <3>3 DEF Tasks
    <3>4. CASE x = e
      <4>1. \A u \in Tasks \ {t} : rest[e][u] = <<>>
        BY <1>3, <3>1, <3>4 DEF Writers, Damaged, Tasks, r
      <4>2. 2 * seen[p] \in Nat /\ 2 * Len(gen[e]) \in Nat
        <5>1. seen[p] \in Nat
          BY <1>1, <1>2 DEF StreamTypes
        <5>2. QED
          BY <1>4, <5>1
      <4>3. CASE t = "reader"
        <5>1. Cuts(in[p], wire[e], r, <<>>, out[e], 2 * seen[p], 2 * Len(gen[e]))
          BY <3>2, <3>4, <4>1, <4>3 DEF Tasks, p, r
        <5>2. Cuts(in[p], Append(wire[e], Head(r)), Tail(r), <<>>, out[e],
                   2 * seen[p], 2 * Len(gen[e]))
          BY <1>3, <4>2, <5>1, CutsPart
        <5>3. rest'[e]["reader"] = Tail(r) /\ rest'[e]["writer"] = <<>>
          BY <1>9, <4>1, <4>3 DEF Tasks
        <5>4. QED
          BY <1>3, <1>8, <3>4, <5>2, <5>3 DEF p
      <4>4. CASE t = "writer"
        <5>1. Cuts(in[p], wire[e], <<>>, r, out[e], 2 * seen[p], 2 * Len(gen[e]))
          BY <3>2, <3>4, <4>1, <4>4 DEF Tasks, p, r
        <5>2. Cuts(in[p], Append(wire[e], Head(r)), <<>>, Tail(r), out[e],
                   2 * seen[p], 2 * Len(gen[e]))
          BY <1>3, <4>2, <5>1, CutsPart
        <5>3. rest'[e]["reader"] = <<>> /\ rest'[e]["writer"] = Tail(r)
          BY <1>9, <4>1, <4>4 DEF Tasks
        <5>4. QED
          BY <1>3, <1>8, <3>4, <5>2, <5>3 DEF p
      <4>5. QED
        BY <4>3, <4>4 DEF Tasks
    <3>5. QED
      BY <1>1, <3>3, <3>4
  <2>2. QED
    BY <2>1 DEF Uncut
<1>15. QED
  BY <1>10, <1>11, <1>13, <1>14

(* A task leaves its flush, or its read.                                   *)
LEMMA FlushedKeepsStream ==
  ASSUME TypeOK, Uncut, Known, Writers, NEW e \in Ends, NEW t \in Tasks,
         Flushed(e, t)
  PROVE  StreamTypes' /\ Uncut' /\ Known' /\ Writers'
<1>1. StreamTypes
  BY DEF TypeOK, StreamTypes, Pieces
<1>2. /\ pc[e][t] = "flush" /\ rest[e][t] = <<>>
      /\ pc' = [pc EXCEPT ![e][t] = after[e][t]]
      /\ UNCHANGED <<flights, short, after, gen, seen, in, out, rest, wire, torn, mixed>>
  BY DEF Flushed, GoTo, below, engine, history
<1>3. after[e][t] \in PC
  BY <1>1 DEF StreamTypes
<1>4. /\ pc' \in [Ends -> [Tasks -> PC]]
      /\ \A x \in Ends, u \in Tasks : x # e \/ u # t => pc'[x][u] = pc[x][u]
  BY <1>1, <1>2, <1>3 DEF StreamTypes
<1>5. StreamTypes'
  BY <1>1, <1>2, <1>4 DEF StreamTypes
<1>6. Known'
  BY <1>2 DEF Known
<1>7. Uncut'
  BY <1>2 DEF Uncut, Damaged
<1>8. Writers'
  <2>1. ASSUME NEW x \in Ends
        PROVE  /\ ~short' => ~Damaged(x)' /\ \A u \in Tasks : rest'[x][u] = <<>>
               /\ \A u \in Tasks : rest'[x][u] # <<>> => pc'[x][u] = "flush"
               /\ ~mixed'[x] => rest'[x]["reader"] = <<>> \/ rest'[x]["writer"] = <<>>
               /\ out'[x] # <<>> => pc'[x]["reader"] = "failed"
    <3>1. /\ ~short => ~Damaged(x) /\ \A u \in Tasks : rest[x][u] = <<>>
          /\ \A u \in Tasks : rest[x][u] # <<>> => pc[x][u] = "flush"
          /\ ~mixed[x] => rest[x]["reader"] = <<>> \/ rest[x]["writer"] = <<>>
          /\ out[x] # <<>> => pc[x]["reader"] = "failed"
      BY DEF Writers
    <3>2. Damaged(x)' <=> Damaged(x)
      BY <1>2 DEF Damaged
    <3>3. "reader" \in Tasks
      BY DEF Tasks
    <3>4. QED
      BY <1>2, <1>4, <3>1, <3>2, <3>3
  <2>2. QED
    BY <2>1 DEF Writers
<1>9. QED
  BY <1>5, <1>6, <1>7, <1>8

LEMMA CancelKeepsStream ==
  ASSUME TypeOK, Uncut, Known, Writers, NEW e \in Ends, NEW t \in Tasks,
         Cancel(e, t)
  PROVE  StreamTypes' /\ Uncut' /\ Known' /\ Writers'
<1>1. StreamTypes
  BY DEF TypeOK, StreamTypes, Pieces
<1>2. /\ pc[e][t] \in {"flush", "read"}
      /\ pc' = [pc EXCEPT ![e][t] = "idle"]
      /\ torn' = [torn EXCEPT ![e] = torn[e] \/ rest[e][t] # <<>>]
      /\ rest' = [rest EXCEPT ![e][t] = <<>>]
      /\ UNCHANGED <<flights, short, after, gen, seen, in, out, wire, mixed>>
  BY DEF Cancel, GoTo, below, engine
<1>3. <<>> \in Seq(Pieces) /\ "idle" \in PC
  BY EmptySeq DEF PC
<1>4. /\ pc' \in [Ends -> [Tasks -> PC]]
      /\ \A x \in Ends, u \in Tasks : x # e \/ u # t => pc'[x][u] = pc[x][u]
  BY <1>1, <1>2, <1>3 DEF StreamTypes
<1>5. /\ rest' \in [Ends -> [Tasks -> Seq(Pieces)]] /\ rest'[e][t] = <<>>
      /\ \A x \in Ends, u \in Tasks : x # e \/ u # t => rest'[x][u] = rest[x][u]
  BY <1>1, <1>2, <1>3 DEF StreamTypes
<1>6. /\ torn' \in [Ends -> BOOLEAN]
      /\ torn'[e] = (torn[e] \/ rest[e][t] # <<>>)
      /\ \A x \in Ends \ {e} : torn'[x] = torn[x]
  BY <1>1, <1>2, Zenon DEF StreamTypes
<1>7. StreamTypes'
  BY <1>1, <1>2, <1>4, <1>5, <1>6 DEF StreamTypes
<1>8. UpTo(<<>>, Len(gen[e]))
  BY EmptySeq DEF UpTo
<1>9. Known'
  <2>1. ASSUME NEW x \in Ends
        PROVE  \A u \in Tasks : UpTo(rest'[x][u], Len(gen[x]))
    BY <1>5, <1>8 DEF Known
  <2>2. QED
    BY <1>2, <2>1 DEF Known
<1>10. ASSUME NEW x \in Ends
       PROVE  /\ ~Damaged(x)' => /\ ~Damaged(x)
                                 /\ \A u \in Tasks : rest'[x][u] = rest[x][u]
              /\ ~short => ~Damaged(x)'
  <2>1. CASE x = e
    <3>1. rest[e][t] = <<>> => \A u \in Tasks : rest'[e][u] = rest[e][u]
      BY <1>5
    <3>2. Damaged(e)' <=> Damaged(e) \/ rest[e][t] # <<>>
      BY <1>2, <1>6 DEF Damaged
    <3>3. ~short => ~Damaged(e) /\ rest[e][t] = <<>>
      BY DEF Writers
    <3>4. QED
      BY <2>1, <3>1, <3>2, <3>3
  <2>2. CASE x # e
    <3>1. Damaged(x)' <=> Damaged(x)
      BY <1>2, <1>6, <2>2 DEF Damaged
    <3>2. QED
      BY <1>5, <2>2, <3>1 DEF Writers
  <2>3. QED
    BY <2>1, <2>2
<1>11. Uncut'
  <2>1. ASSUME NEW x \in Ends, ~Damaged(x)'
        PROVE  Cuts(in'[Peer(x)], wire'[x], rest'[x]["reader"], rest'[x]["writer"],
                    out'[x], 2 * seen'[Peer(x)], 2 * Len(gen'[x]))
    <3>1. /\ ~Damaged(x) /\ rest'[x]["reader"] = rest[x]["reader"]
          /\ rest'[x]["writer"] = rest[x]["writer"]
      BY <1>10, <2>1 DEF Tasks
    <3>2. QED
      BY <1>2, <3>1 DEF Uncut
  <2>2. QED
    BY <2>1 DEF Uncut
<1>12. Writers'
  <2>1. ASSUME NEW x \in Ends
        PROVE  /\ ~short' => ~Damaged(x)' /\ \A u \in Tasks : rest'[x][u] = <<>>
               /\ \A u \in Tasks : rest'[x][u] # <<>> => pc'[x][u] = "flush"
               /\ ~mixed'[x] => rest'[x]["reader"] = <<>> \/ rest'[x]["writer"] = <<>>
               /\ out'[x] # <<>> => pc'[x]["reader"] = "failed"
    <3>1. /\ ~short => ~Damaged(x) /\ \A u \in Tasks : rest[x][u] = <<>>
          /\ \A u \in Tasks : rest[x][u] # <<>> => pc[x][u] = "flush"
          /\ ~mixed[x] => rest[x]["reader"] = <<>> \/ rest[x]["writer"] = <<>>
          /\ out[x] # <<>> => pc[x]["reader"] = "failed"
      BY DEF Writers
    <3>2. \A u \in Tasks : \/ rest'[x][u] = <<>>
                           \/ rest'[x][u] = rest[x][u] /\ pc'[x][u] = pc[x][u]
      BY <1>4, <1>5
    <3>3. "reader" \in Tasks /\ "writer" \in Tasks
      BY DEF Tasks
    <3>4. ~short' => ~Damaged(x)'
      BY <1>2, <1>10
    <3>5. pc[x]["reader"] = "failed" => pc'[x]["reader"] = "failed"
      BY <1>2, <1>4, <3>3
    <3>6. QED
      BY <1>2, <3>1, <3>2, <3>3, <3>4, <3>5
  <2>2. QED
    BY <2>1 DEF Writers
<1>13. QED
  BY <1>7, <1>9, <1>11, <1>12
-----------------------------------------------------------------------------
LEMMA MinIn ==
  ASSUME NEW T \in SUBSET Nat, T # {}
  PROVE  Min(T) \in T /\ \A y \in T : Min(T) <= y
<1>1. IsWellFoundedOn(OpToRel(<, Nat), Nat)
  BY NatLessThanWellFounded
<1>2. PICK x \in T : \A y \in T : ~(<<y, x>> \in OpToRel(<, Nat))
  BY <1>1, WFMin
<1>3. \A y \in T : x <= y
  <2>1. ASSUME NEW y \in T PROVE ~(y < x)
    BY <1>2 DEF OpToRel
  <2>2. QED
    BY <2>1
<1>4. QED
  BY <1>3 DEF Min

(* A call of do_handshake, after which h flights are done, as a step of    *)
(* the engine; a call of read, which decrypts record num, or none.         *)
Greets(e, k, n, kinds, to, h) ==
  /\ pc[e]["reader"] \in {"unborn", "handshake"}
  /\ Pumps(e, "reader", k, n, kinds, to) /\ n <= Whole(e, Taken(e, k))
  /\ hs' = [hs EXCEPT ![e] = h]
  /\ (h < flights) <=> (to = "handshake")
  /\ n = 1 => ~Mine(e, hs[e] + 1)
  /\ \/ kinds = <<"flight">> /\ h = hs[e] + n + 1 /\ Mine(e, h)
     \/ kinds = <<>> /\ h = hs[e] + n /\ (h < flights => ~Mine(e, h + 1))
     \/ kinds = <<"ticket">> /\ h = hs[e] + n /\ h = flights

Decrypts(e, k, n, kinds, to, num) ==
  /\ pc[e]["reader"] \in {"prepared", "idle", "read"}
  /\ Pumps(e, "reader", k, n, kinds, to) /\ n <= Whole(e, Taken(e, k))
  /\ hs' = hs
  /\ \A i \in 1..n : seen[e] + i # num => gen[Peer(e)][seen[e] + i] # "data"
  /\ num # 0 => /\ n > 0 /\ num = seen[e] + n /\ gen[Peer(e)][num] = "data"
                /\ to # "failed"
  /\ \/ /\ num # 0 /\ Pending(e, kinds) = <<>>
        /\ got' = [got EXCEPT ![e] = Append(got[e], num)] /\ hand' = hand
     \/ /\ num = 0 \/ Pending(e, kinds) # <<>>
        /\ got' = got /\ hand' = [hand EXCEPT ![e] = num]

LEMMA HandshakePumps ==
  ASSUME TypeOK, Known, NEW e \in Ends, NEW k \in 0..Len(wire[Peer(e)]),
         pc[e]["reader"] \in {"unborn", "handshake"}, hs[e] < flights,
         Handshake(e, Untaken(e, k), Taken(e, k)), UNCHANGED <<below, torn>>
  PROVE  \E n \in {0, 1}, kinds \in {<<>>, <<"flight">>, <<"ticket">>},
            to \in {"prepared", "handshake"}, h \in 0..flights :
           Greets(e, k, n, kinds, to, h)
<1> DEFINE bio == Taken(e, k)
           w == Untaken(e, k)
           n == IF ~Mine(e, hs[e] + 1) /\ Whole(e, bio) > 0 THEN 1 ELSE 0
           sends == hs[e] + n < flights /\ Mine(e, hs[e] + n + 1)
           done == hs[e] + n + (IF sends THEN 1 ELSE 0)
           kinds == CASE sends -> <<"flight">>
                      [] ~sends /\ done = flights /\ e = Server -> <<"ticket">>
                      [] OTHER -> <<>>
<1>1. /\ Engine(e, bio, n, kinds)
      /\ hs' = [hs EXCEPT ![e] = done]
      /\ \/ /\ done = flights
            /\ Flush(e, "reader", w, Pending(e, kinds), "prepared")
         \/ /\ done < flights
            /\ Flush(e, "reader", w, Pending(e, kinds), "handshake")
  BY Zenon DEF Handshake, DoWantWrite, DoWantRead
<1>2. hs[e] \in Nat /\ flights \in Nat /\ Whole(e, bio) \in Nat
  <2>1. hs[e] \in 0..flights /\ flights \in Nat
    BY CountsAssumption DEF TypeOK, CountsAssumption
  <2>2. Whole(e, bio) \in Nat
    BY TakenSome, WholeBounds
  <2>3. QED
    BY <2>1, <2>2
<1>3. n \in {0, 1} /\ n <= Whole(e, bio) /\ (n = 1 => ~Mine(e, hs[e] + 1))
  BY <1>2
<1>4. \/ kinds = <<"flight">> /\ sends
      \/ kinds = <<>> /\ ~sends
      \/ kinds = <<"ticket">> /\ ~sends /\ done = flights
  OBVIOUS
<1> HIDE DEF kinds, n, w, bio
<1>5. done \in 0..flights
  BY <1>2, <1>3
<1>6. \/ kinds = <<"flight">> /\ done = hs[e] + n + 1 /\ Mine(e, done)
      \/ kinds = <<>> /\ done = hs[e] + n /\ (done < flights => ~Mine(e, done + 1))
      \/ kinds = <<"ticket">> /\ done = hs[e] + n /\ done = flights
  BY <1>2, <1>3, <1>4
<1>7. kinds \in {<<>>, <<"flight">>, <<"ticket">>}
  BY <1>4
<1> HIDE DEF done, sends
<1>8. \E to \in {"prepared", "handshake"} :
        /\ Pumps(e, "reader", k, n, kinds, to)
        /\ (done < flights) <=> (to = "handshake")
  <2>1. CASE done = flights
    <3>1. Pumps(e, "reader", k, n, kinds, "prepared")
      BY <1>1, <2>1, <1>5, <1>2 DEF Pumps, w, bio
    <3>2. ~(done < flights)
      BY <1>2, <2>1
    <3>3. QED
      BY <3>1, <3>2
  <2>2. CASE done < flights
    <3>1. Pumps(e, "reader", k, n, kinds, "handshake")
      BY <1>1, <2>2, <1>5, <1>2 DEF Pumps, w, bio
    <3>2. QED
      BY <2>2, <3>1
  <2>3. QED
    BY <1>2, <1>5, <2>1, <2>2
<1>9. n <= Whole(e, Taken(e, k))
  BY <1>3 DEF bio
<1>10. QED
  <2>1. PICK to \in {"prepared", "handshake"} :
          /\ Pumps(e, "reader", k, n, kinds, to)
          /\ (done < flights) <=> (to = "handshake")
    BY <1>8
  <2>2. Greets(e, k, n, kinds, to, done)
    BY <1>1, <1>3, <1>6, <1>9, <2>1, Zenon DEF Greets
  <2>3. QED
    BY <1>3, <1>5, <1>7, <2>2, Zenon

(* A call of read as a step of the engine: num is the record it decrypts.  *)
LEMMA ReadPumps ==
  ASSUME TypeOK, Known, NEW e \in Ends, NEW k \in 0..Len(wire[Peer(e)]),
         pc[e]["reader"] \in {"prepared", "idle", "read"},
         SslRead(e, Untaken(e, k), Taken(e, k)), UNCHANGED <<below, torn>>
  PROVE  \E n \in Nat, kinds \in {<<>>, <<"reply">>},
            to \in {"failed", "read", "eof", "idle"}, num \in Nat :
           Decrypts(e, k, n, kinds, to, num)
<1> DEFINE bio == Taken(e, k)
           w == Untaken(e, k)
           whole == Whole(e, bio)
           Kind(i) == gen[Peer(e)][seen[e] + i]
           ends == {i \in 1..whole : Kind(i) \in {"data", "close"}}
           n == IF ends = {} THEN whole ELSE Min(ends)
           garbled == Len(bio) >= 2 * whole + 2
           kinds == IF \E i \in 1..n : Kind(i) = "update" THEN <<"reply">> ELSE <<>>
           data == Pending(e, kinds)
           num == IF ends # {} /\ Kind(n) = "data" THEN seen[e] + n ELSE 0
<1>1. /\ Engine(e, bio, n, kinds)
      /\ hs' = hs
      /\ \/ /\ ends = {} /\ garbled
            /\ NoFlush(e, "reader", w, data, "failed")
         \/ /\ ends = {} /\ ~garbled
            /\ Flush(e, "reader", w, data, "read")
         \/ /\ ends # {}
            /\ Flush(e, "reader", w, data, IF num = 0 THEN "eof" ELSE "idle")
      /\ IF num # 0 /\ data = <<>>
         THEN got' = [got EXCEPT ![e] = Append(got[e], num)] /\ hand' = hand
         ELSE got' = got /\ hand' = [hand EXCEPT ![e] = num]
  BY Zenon DEF SslRead, DoWantWrite, DoWantRead
<1>2. whole \in Nat /\ seen[e] \in Nat
  BY TakenSome, WholeBounds
<1>3. ends \in SUBSET Nat
  OBVIOUS
<1>4. /\ n \in Nat /\ n <= whole
      /\ ends # {} => n \in ends /\ n > 0
      /\ \A i \in 1..n : i # n \/ ends = {} => Kind(i) # "data"
  <2>1. CASE ends = {}
    <3>1. \A i \in 1..whole : Kind(i) # "data"
      BY <2>1
    <3>2. QED
      BY <1>2, <2>1, <3>1
  <2>2. CASE ends # {}
    <3>1. n \in ends /\ \A y \in ends : n <= y
      BY <1>3, <2>2, MinIn
    <3>2. ASSUME NEW i \in 1..n, i # n
          PROVE  Kind(i) # "data"
      <4>1. n \in 1..whole
        BY <3>1
      <4>2. i \in 1..whole /\ ~(n <= i)
        BY <1>2, <3>2, <4>1
      <4>3. QED
        BY <3>1, <4>2
    <3>3. n \in 1..whole
      BY <3>1
    <3>4. n \in Nat /\ n <= whole /\ n > 0
      BY <1>2, <3>3
    <3>5. QED
      BY <2>2, <3>1, <3>2, <3>4, Zenon
  <2>3. QED
    BY <2>1, <2>2
<1>5. /\ num \in Nat
      /\ num # 0 => ends # {} /\ n > 0 /\ num = seen[e] + n /\ Kind(n) = "data"
      /\ num = 0 => ends = {} \/ Kind(n) # "data"
  <2> HIDE DEF n, ends, Kind, whole
  <2>1. CASE ends # {} /\ Kind(n) = "data"
    <3>1. num = seen[e] + n
      BY <2>1
    <3>2. QED
      BY <1>2, <1>4, <2>1, <3>1
  <2>2. CASE ~(ends # {} /\ Kind(n) = "data")
    BY <2>2
  <2>3. QED
    BY <2>1, <2>2
<1>6. kinds \in {<<>>, <<"reply">>}
  OBVIOUS
<1> HIDE DEF kinds, n, w, bio, ends, whole, num
<1>7. ASSUME NEW i \in 1..n, seen[e] + i # num
      PROVE  gen[Peer(e)][seen[e] + i] # "data"
  <2>1. CASE i # n \/ ends = {}
    BY <1>4, <2>1
  <2>2. CASE i = n /\ ends # {}
    BY <1>5, <1>7, <2>2
  <2>3. QED
    BY <2>1, <2>2
<1> HIDE DEF data, Kind, garbled
<1>8. \E to \in {"failed", "read", "eof", "idle"} :
        /\ Pumps(e, "reader", k, n, kinds, to)
        /\ num # 0 => to # "failed"
  <2>1. \E to \in {"failed", "read", "eof", "idle"} :
          /\ \/ NoFlush(e, "reader", w, data, to) /\ to = "failed"
             \/ Flush(e, "reader", w, data, to)
          /\ num # 0 => to # "failed"
    BY <1>1, <1>5
  <2>2. QED
    BY <1>1, <2>1 DEF Pumps, w, bio, data
<1>9. num # 0 => gen[Peer(e)][num] = "data"
  BY <1>5 DEF Kind
<1>10. n <= Whole(e, Taken(e, k))
  BY <1>4 DEF whole, bio
<1>11. \/ /\ num # 0 /\ Pending(e, kinds) = <<>>
          /\ got' = [got EXCEPT ![e] = Append(got[e], num)] /\ hand' = hand
       \/ /\ num = 0 \/ Pending(e, kinds) # <<>>
          /\ got' = got /\ hand' = [hand EXCEPT ![e] = num]
  BY <1>1 DEF data
<1>12. QED
  <2>1. PICK to \in {"failed", "read", "eof", "idle"} :
          Pumps(e, "reader", k, n, kinds, to) /\ (num # 0 => to # "failed")
    BY <1>8
  <2>2. num # 0 => n > 0 /\ num = seen[e] + n
    BY <1>5
  <2>3. Decrypts(e, k, n, kinds, to, num)
    BY <1>1, <1>7, <1>9, <1>10, <1>11, <2>1, <2>2, Zenon DEF Decrypts
  <2>4. QED
    BY <1>4, <1>5, <1>6, <2>3, Zenon
-----------------------------------------------------------------------------
(* The steps of Next, those of the engine as such.                         *)
HandshakeStep(e) ==
  /\ \E k \in 0..Len(wire[Peer(e)]), n \in {0, 1},
        kinds \in {<<>>, <<"flight">>, <<"ticket">>},
        to \in {"prepared", "handshake"}, h \in 0..flights :
          Greets(e, k, n, kinds, to, h)
  /\ UNCHANGED <<hand, wrote, got, dropped, cancels>>
ReadStep(e) ==
  /\ \E k \in 0..Len(wire[Peer(e)]), n \in Nat, kinds \in {<<>>, <<"reply">>},
        to \in {"failed", "read", "eof", "idle"}, num \in Nat :
          Decrypts(e, k, n, kinds, to, num)
  /\ UNCHANGED <<wrote, dropped, cancels>>
WriteStep(e) ==
  /\ \E kind \in {"data", "update", "close"} :
       Pumps(e, "writer", 0, 0, <<kind>>, "idle")
  /\ ~Preparing(e)
  /\ wrote' = [wrote EXCEPT ![e] = wrote[e] + 1]
  /\ UNCHANGED <<hs, hand, got, dropped, cancels>>

LEMMA Steps ==
  ASSUME IInv, Next
  PROVE  \E e \in Ends : \/ HandshakeStep(e) \/ ReadStep(e) \/ WriteStep(e)
                         \/ \E t \in Tasks : WritePart(e, t) \/ Flushed(e, t) \/ Cancel(e, t)
<1>1. TypeOK /\ Known /\ Flights
  BY DEF IInv
<1>2. ASSUME NEW e \in Ends
      PROVE  /\ in[e] = Taken(e, 0) /\ wire = Untaken(e, 0)
             /\ 0 \in 0..Len(wire[Peer(e)]) /\ Len(wire[Peer(e)]) \in Nat
  <2>1. Peer(e) \in Ends
    BY TwoEnds
  <2>2. Len(wire[Peer(e)]) \in Nat
    BY <1>1, <2>1, LenProperties DEF TypeOK
  <2>3. QED
    BY <1>1, <2>2, TakenNone
<1>3. ASSUME NEW e \in Ends, pc[e]["reader"] \in {"unborn", "handshake"}
      PROVE  hs[e] < flights
  BY <1>1, <1>3 DEF Flights, Greeting
<1>4. ASSUME NEW e \in Ends, PrepareCall(e)
      PROVE  HandshakeStep(e)
  <2>1. /\ pc[e]["reader"] = "unborn"
        /\ Handshake(e, Untaken(e, 0), Taken(e, 0))
        /\ UNCHANGED <<below, hand, wrote, got, dropped, torn, cancels>>
    BY <1>2, <1>4, Zenon DEF PrepareCall
  <2>2. hs[e] < flights /\ 0 \in 0..Len(wire[Peer(e)])
    BY <1>2, <1>3, <2>1
  <2>3. QED
    BY <1>1, <2>1, <2>2, HandshakePumps DEF HandshakeStep
<1>5. ASSUME NEW e \in Ends, HandshakeRead(e)
      PROVE  HandshakeStep(e)
  <2>1. PICK k \in 1..Len(wire[Peer(e)]) :
          Handshake(e, Untaken(e, k), Taken(e, k))
    BY <1>5 DEF HandshakeRead
  <2>2. /\ pc[e]["reader"] = "handshake"
        /\ UNCHANGED <<below, hand, wrote, got, dropped, torn, cancels>>
    BY <1>5 DEF HandshakeRead
  <2>3. hs[e] < flights /\ k \in 0..Len(wire[Peer(e)])
    BY <1>2, <1>3, <2>2
  <2>4. QED
    BY <1>1, <2>1, <2>2, <2>3, HandshakePumps DEF HandshakeStep
<1>6. ASSUME NEW e \in Ends, ReadCall(e)
      PROVE  ReadStep(e)
  <2>1. /\ pc[e]["reader"] \in {"prepared", "idle"}
        /\ SslRead(e, Untaken(e, 0), Taken(e, 0))
        /\ UNCHANGED <<below, wrote, dropped, torn, cancels>>
    BY <1>2, <1>6, Zenon DEF ReadCall
  <2>2. 0 \in 0..Len(wire[Peer(e)])
    BY <1>2
  <2>3. QED
    BY <1>1, <2>1, <2>2, ReadPumps DEF ReadStep
<1>7. ASSUME NEW e \in Ends, ReadMore(e)
      PROVE  ReadStep(e)
  <2>1. PICK k \in 1..Len(wire[Peer(e)]) :
          SslRead(e, Untaken(e, k), Taken(e, k))
    BY <1>7 DEF ReadMore
  <2>2. /\ pc[e]["reader"] = "read"
        /\ UNCHANGED <<below, wrote, dropped, torn, cancels>>
    BY <1>7 DEF ReadMore
  <2>3. k \in 0..Len(wire[Peer(e)])
    BY <1>2
  <2>4. QED
    BY <1>1, <2>1, <2>2, <2>3, ReadPumps DEF ReadStep
<1>8. ASSUME NEW e \in Ends, NEW kind \in {"data", "update", "close"},
             WriteCall(e, kind)
      PROVE  WriteStep(e)
  <2>1. /\ pc[e]["writer"] # "flush" /\ ~Preparing(e)
        /\ wrote' = [wrote EXCEPT ![e] = wrote[e] + 1]
        /\ Engine(e, Taken(e, 0), 0, <<kind>>)
        /\ Flush(e, "writer", Untaken(e, 0), Pending(e, <<kind>>), "idle")
        /\ UNCHANGED <<below, hs, hand, got, dropped, torn, cancels>>
    <3>1. pc[e]["writer"] # "flush"
      BY <1>8 DEF WriteCall
    <3>2. QED
      BY <1>2, <1>8, <3>1, Zenon DEF WriteCall, DoWantWrite
  <2>2. Pumps(e, "writer", 0, 0, <<kind>>, "idle")
    BY <2>1, Zenon DEF Pumps
  <2>3. QED
    BY <2>1, <2>2 DEF WriteStep
<1>9. "reader" \in Tasks /\ "writer" \in Tasks
  BY DEF Tasks
<1>10. QED
  BY <1>4, <1>5, <1>6, <1>7, <1>8, <1>9 DEF Next, Reader, Writer

(* A write as the step of an engine that takes no record.                  *)
LEMMA WritePumps ==
  ASSUME TypeOK, Known, NEW e \in Ends, WriteStep(e)
  PROVE  \E k \in 0..Len(wire[Peer(e)]), n \in Nat, kinds \in Seq(Kinds), to \in PC :
           /\ Pumps(e, "writer", k, n, kinds, to)
           /\ n <= Whole(e, Taken(e, k)) /\ n = 0
<1>1. PICK kind \in {"data", "update", "close"} :
        Pumps(e, "writer", 0, 0, <<kind>>, "idle")
  BY DEF WriteStep
<1>2. 0 \in 0..Len(wire[Peer(e)])
  BY TakenNone
<1>3. Whole(e, Taken(e, 0)) \in Nat
  BY <1>2, TakenSome, WholeBounds
<1>4. 0 <= Whole(e, Taken(e, 0)) /\ 0 \in Nat /\ "idle" \in PC
  BY <1>3 DEF PC
<1>5. <<kind>> \in Seq(Kinds)
  BY DEF Kinds
<1>6. QED
  BY <1>1, <1>2, <1>4, <1>5, Zenon

LEMMA StreamKept ==
  ASSUME IInv, Next
  PROVE  StreamTypes' /\ Uncut' /\ Known' /\ Writers'
<1>1. TypeOK /\ Uncut /\ Known /\ Writers
  BY DEF IInv
<1>2. ASSUME NEW e \in Ends, NEW t \in Tasks, NEW k \in 0..Len(wire[Peer(e)]),
             NEW n \in Nat, n <= Whole(e, Taken(e, k)), NEW kinds \in Seq(Kinds),
             NEW to \in PC, Pumps(e, t, k, n, kinds, to)
      PROVE  StreamTypes' /\ Uncut' /\ Known' /\ Writers'
  BY <1>1, <1>2, PumpTypes, PumpKnown, PumpUncut, PumpWriters
<1>3. /\ <<>> \in Seq(Kinds) /\ <<"flight">> \in Seq(Kinds)
      /\ <<"ticket">> \in Seq(Kinds) /\ <<"reply">> \in Seq(Kinds)
  BY DEF Kinds
<1>4. /\ {"prepared", "handshake", "failed", "read", "eof", "idle"} \subseteq PC
      /\ "reader" \in Tasks /\ "writer" \in Tasks
  BY DEF PC, Tasks
<1>5. PICK e \in Ends : \/ HandshakeStep(e) \/ ReadStep(e) \/ WriteStep(e)
                        \/ \E t \in Tasks : WritePart(e, t) \/ Flushed(e, t) \/ Cancel(e, t)
  BY Steps
<1>6. CASE HandshakeStep(e)
  <2>1. PICK k \in 0..Len(wire[Peer(e)]), n \in {0, 1},
             kinds \in {<<>>, <<"flight">>, <<"ticket">>},
             to \in {"prepared", "handshake"}, h \in 0..flights :
               Greets(e, k, n, kinds, to, h)
    BY <1>6 DEF HandshakeStep
  <2>2. kinds \in Seq(Kinds)
    BY <1>3
  <2>3. to \in PC /\ n \in Nat
    BY <1>4
  <2>4. QED
    BY <1>2, <1>4, <2>1, <2>2, <2>3 DEF Greets
<1>7. CASE ReadStep(e)
  <2>1. PICK k \in 0..Len(wire[Peer(e)]), n \in Nat, kinds \in {<<>>, <<"reply">>},
             to \in {"failed", "read", "eof", "idle"}, num \in Nat :
               Decrypts(e, k, n, kinds, to, num)
    BY <1>7 DEF ReadStep
  <2>2. kinds \in Seq(Kinds) /\ to \in PC
    BY <1>3, <1>4
  <2>3. QED
    BY <1>2, <1>4, <2>1, <2>2 DEF Decrypts
<1>8. CASE WriteStep(e)
  BY <1>1, <1>2, <1>4, <1>8, WritePumps
<1>9. CASE \E t \in Tasks : WritePart(e, t) \/ Flushed(e, t) \/ Cancel(e, t)
  BY <1>1, <1>9, PartKeepsStream, FlushedKeepsStream, CancelKeepsStream
<1>10. QED
  BY <1>5, <1>6, <1>7, <1>8, <1>9
-----------------------------------------------------------------------------
(* Where the tasks are after a step of the engine, and what it has made.   *)
LEMMA PumpMoves ==
  ASSUME TypeOK, Known, NEW e \in Ends, NEW t \in Tasks,
         NEW k \in 0..Len(wire[Peer(e)]), NEW n \in Nat,
         n <= Whole(e, Taken(e, k)), NEW kinds \in Seq(Kinds), NEW to \in PC,
         Pumps(e, t, k, n, kinds, to)
  PROVE  /\ \A x \in Ends, u \in Tasks : x # e \/ u # t =>
              pc'[x][u] = pc[x][u] /\ after'[x][u] = after[x][u]
         /\ \/ pc'[e][t] = to /\ after'[e][t] = after[e][t]
            \/ pc'[e][t] = "flush" /\ after'[e][t] = to
         /\ Pending(e, kinds) # <<>> /\ to # "failed" => pc'[e][t] = "flush"
         /\ flights' = flights
         /\ \A x \in Ends \ {e} : gen'[x] = gen[x] /\ seen'[x] = seen[x]
         /\ seen'[e] = seen[e] + n
         /\ gen[e] \in Seq(Kinds) /\ gen'[e] = gen[e] \o kinds
         /\ Len(gen[e]) \in Nat /\ Len(gen'[e]) = Len(gen[e]) + Len(kinds)
         /\ \A i \in 1..Len(gen[e]) : gen'[e][i] = gen[e][i]
         /\ seen[e] \in Nat /\ seen[e] + n <= Len(gen[Peer(e)])
<1> DEFINE w == Untaken(e, k)
           data == Pending(e, kinds)
<1>1. /\ StreamTypes /\ Elsewhere(e, t, w)
      /\ Quiet(e, t, w, data, to) \/ Begins(e, t, w, data, to)
      /\ seen'[e] = seen[e] + n /\ seen'[Peer(e)] = seen[Peer(e)]
      /\ gen'[e] = gen[e] \o kinds /\ gen'[Peer(e)] = gen[Peer(e)]
      /\ Len(gen'[e]) = Len(gen[e]) + Len(kinds)
      /\ seen[e] + n <= Len(gen[Peer(e)])
  BY PumpByValue
<1>2. \A x \in Ends \ {e} : x = Peer(e)
  BY TwoEnds
<1>3. gen[e] \in Seq(Kinds) /\ Len(gen[e]) \in Nat /\ seen[e] \in Nat
  BY <1>1, LenProperties DEF StreamTypes
<1>4. \A i \in 1..Len(gen[e]) : gen'[e][i] = gen[e][i]
  BY <1>1, <1>3, ConcatProperties
<1>5. flights' = flights
  BY DEF Pumps, below
<1> HIDE DEF w, data
<1>6. \A x \in Ends, u \in Tasks : x # e \/ u # t =>
        pc'[x][u] = pc[x][u] /\ after'[x][u] = after[x][u]
  BY <1>1 DEF Elsewhere, Same
<1>7. /\ \/ pc'[e][t] = to /\ after'[e][t] = after[e][t]
         \/ pc'[e][t] = "flush" /\ after'[e][t] = to
      /\ data # <<>> /\ to # "failed" => pc'[e][t] = "flush"
  BY <1>1 DEF Quiet, Begins
<1>8. QED
  BY <1>1, <1>2, <1>3, <1>4, <1>5, <1>6, <1>7 DEF data

LEMMA TypesKept ==
  ASSUME IInv, Next
  PROVE  TypeOK'
<1>1. TypeOK /\ Known
  BY DEF IInv
<1>2. StreamTypes'
  BY StreamKept
<1>3. /\ hs \in [Ends -> 0..flights] /\ hand \in [Ends -> Nat]
      /\ wrote \in [Ends -> Nat] /\ got \in [Ends -> Seq(Nat)]
      /\ dropped \in [Ends -> SUBSET Nat] /\ cancels \in 0..NCancels
      /\ NCancels \in Nat
  BY <1>1, CountsAssumption DEF TypeOK, CountsAssumption
<1>4. \A x \in Ends, m \in Nat : Append(got[x], m) \in Seq(Nat)
  BY <1>3, AppendProperties
<1>5. SUFFICES /\ flights' = flights
               /\ hs' \in [Ends -> 0..flights] /\ hand' \in [Ends -> Nat]
               /\ wrote' \in [Ends -> Nat] /\ got' \in [Ends -> Seq(Nat)]
               /\ dropped' \in [Ends -> SUBSET Nat] /\ cancels' \in 0..NCancels
  BY <1>2 DEF TypeOK, StreamTypes, Pieces
<1>6. PICK e \in Ends : \/ HandshakeStep(e) \/ ReadStep(e) \/ WriteStep(e)
                        \/ \E t \in Tasks : WritePart(e, t) \/ Flushed(e, t) \/ Cancel(e, t)
  BY Steps
<1>7. CASE HandshakeStep(e)
  <2>1. PICK k \in 0..Len(wire[Peer(e)]), n \in {0, 1},
             kinds \in {<<>>, <<"flight">>, <<"ticket">>},
             to \in {"prepared", "handshake"}, h \in 0..flights :
               Greets(e, k, n, kinds, to, h)
    BY <1>7 DEF HandshakeStep
  <2>2. hs' = [hs EXCEPT ![e] = h] /\ flights' = flights
    BY <2>1 DEF Greets, Pumps, below
  <2>3. UNCHANGED <<hand, wrote, got, dropped, cancels>>
    BY <1>7 DEF HandshakeStep
  <2>4. QED
    BY <1>3, <2>2, <2>3
<1>8. CASE ReadStep(e)
  <2>1. PICK k \in 0..Len(wire[Peer(e)]), n \in Nat, kinds \in {<<>>, <<"reply">>},
             to \in {"failed", "read", "eof", "idle"}, num \in Nat :
               Decrypts(e, k, n, kinds, to, num)
    BY <1>8 DEF ReadStep
  <2>2. hs' = hs /\ flights' = flights
    BY <2>1 DEF Decrypts, Pumps, below
  <2>3. UNCHANGED <<wrote, dropped, cancels>>
    BY <1>8 DEF ReadStep
  <2>4. /\ got' = got \/ got' = [got EXCEPT ![e] = Append(got[e], num)]
        /\ hand' = hand \/ hand' = [hand EXCEPT ![e] = num]
    BY <2>1 DEF Decrypts
  <2>5. got' \in [Ends -> Seq(Nat)] /\ hand' \in [Ends -> Nat]
    BY <1>3, <1>4, <2>4
  <2>6. QED
    BY <1>3, <2>2, <2>3, <2>5
<1>9. CASE WriteStep(e)
  <2>1. flights' = flights
    BY <1>9 DEF WriteStep, Pumps, below
  <2>2. /\ wrote' = [wrote EXCEPT ![e] = wrote[e] + 1]
        /\ UNCHANGED <<hs, hand, got, dropped, cancels>>
    BY <1>9 DEF WriteStep
  <2>3. QED
    BY <1>3, <2>1, <2>2
<1>10. ASSUME NEW t \in Tasks, WritePart(e, t)
       PROVE  UNCHANGED <<flights, hs, hand, wrote, got, dropped, cancels>>
  BY <1>10 DEF WritePart, below, engine, history
<1>11. ASSUME NEW t \in Tasks, Flushed(e, t)
       PROVE  /\ UNCHANGED <<flights, hs, wrote, dropped, cancels>>
              /\ got' = got \/ got' = [got EXCEPT ![e] = Append(got[e], hand[e])]
              /\ hand' = hand \/ hand' = [hand EXCEPT ![e] = 0]
  BY <1>11 DEF Flushed, below, engine, history
<1>12. ASSUME NEW t \in Tasks, Cancel(e, t)
       PROVE  /\ UNCHANGED <<flights, hs, wrote, got>>
              /\ cancels' = cancels + 1 /\ cancels < NCancels
              /\ \/ dropped' = dropped
                 \/ dropped' = [dropped EXCEPT ![e] = dropped[e] \cup ({hand[e]} \ {0})]
              /\ hand' = hand \/ hand' = [hand EXCEPT ![e] = 0]
  BY <1>12 DEF Cancel, below, engine
<1>13. CASE \E t \in Tasks : WritePart(e, t)
  BY <1>3, <1>10, <1>13
<1>14. CASE \E t \in Tasks : Flushed(e, t)
  <2>1. hand[e] \in Nat
    BY <1>3
  <2>2. got' \in [Ends -> Seq(Nat)]
    BY <1>3, <1>4, <1>11, <1>14, <2>1
  <2>3. hand' \in [Ends -> Nat]
    BY <1>3, <1>11, <1>14
  <2>4. QED
    BY <1>3, <1>11, <1>14, <2>2, <2>3
<1>15. CASE \E t \in Tasks : Cancel(e, t)
  <2>1. dropped[e] \cup ({hand[e]} \ {0}) \in SUBSET Nat
    BY <1>3
  <2>2. dropped' \in [Ends -> SUBSET Nat]
    BY <1>3, <1>12, <1>15, <2>1
  <2>3. hand' = hand \/ hand' = [hand EXCEPT ![e] = 0]
    BY <1>12, <1>15
  <2>4. hand' \in [Ends -> Nat]
    <3>1. [hand EXCEPT ![e] = 0] \in [Ends -> Nat]
      BY <1>3
    <3>2. QED
      BY <1>3, <2>3, <3>1, Zenon
  <2>5. cancels' \in 0..NCancels
    BY <1>3, <1>12, <1>15
  <2>6. QED
    BY <1>3, <1>12, <1>15, <2>2, <2>4, <2>5
<1>16. QED
  BY <1>6, <1>7, <1>8, <1>9, <1>13, <1>14, <1>15

LEMMA OwnSteps ==
  ASSUME NEW e \in Ends, NEW h \in Nat
  PROVE  /\ Own(e, h) \in Nat
         /\ Own(e, h + 1) = Own(e, h) + (IF Mine(e, h + 1) THEN 1 ELSE 0)
         /\ Mine(e, h + 1) <=> ~Mine(Peer(e), h + 1)
         /\ Mine(e, h + 1) <=> ~Mine(e, h + 2)
         /\ \A g \in 0..h : Own(e, g) <= Own(e, h)
<1>1. /\ (h + 1) \div 2 \in Nat /\ h \div 2 \in Nat
      /\ (h + 2) \div 2 = (h + 1) \div 2 + (IF (h + 1) % 2 = 1 THEN 1 ELSE 0)
      /\ (h + 1) \div 2 = h \div 2 + (IF (h + 1) % 2 = 1 THEN 0 ELSE 1)
      /\ (h + 1) % 2 = 1 <=> ~((h + 2) % 2 = 1)
  OBVIOUS
<1>2. \A g \in 0..h : (g + 1) \div 2 <= (h + 1) \div 2 /\ g \div 2 <= h \div 2
  OBVIOUS
<1>3. (e = Client) <=> ~(Peer(e) = Client)
  BY EndsAssumption DEF EndsAssumption, Ends, Peer
<1>4. h + 1 + 1 = h + 2
  OBVIOUS
<1>5. QED
  BY <1>1, <1>2, <1>3, <1>4 DEF Own, Mine
LEMMA FlightsKept ==
  ASSUME IInv, Next
  PROVE  Flights'
<1> DEFINE OfEnd(x) ==
             /\ Greeting(x) <=> hs[x] < flights
             /\ after[x]["reader"] # "unborn"
             /\ Greeting(x) => /\ Len(gen[x]) = Own(x, hs[x])
                               /\ seen[x] = Own(Peer(x), hs[x])
             /\ Len(gen[x]) >= Own(x, hs[x])
             /\ \A i \in 1..Len(gen[x]) : i <= Own(x, flights) => gen[x][i] = "flight"
<1>0. TypeOK /\ Known
  BY DEF IInv
<1>1. TypeOK /\ Known /\ (\A x \in Ends : OfEnd(x))
  BY DEF IInv, Flights
<1>2. SUFFICES \A x \in Ends : OfEnd(x)'
  BY DEF Flights
<1>3. /\ hs \in [Ends -> 0..flights] /\ flights \in Nat
      /\ "reader" \in Tasks /\ "writer" \in Tasks
  BY <1>1, CountsAssumption DEF TypeOK, CountsAssumption, Tasks
(* What an end keeps if its reader stays where it is, or was not greeting  *)
(* and is not now, and whatever it has produced.                           *)
<1>4. ASSUME NEW x \in Ends, NEW kinds \in Seq(Kinds),
             \/ pc'[x]["reader"] = pc[x]["reader"] /\ after'[x]["reader"] = after[x]["reader"]
             \/ ~Greeting(x) /\ ~Greeting(x)' /\ after'[x]["reader"] # "unborn",
             Greeting(x) => seen'[x] = seen[x] /\ Len(kinds) = 0,
             flights' = flights, hs'[x] = hs[x],
             Len(gen'[x]) = Len(gen[x]) + Len(kinds),
             \A i \in 1..Len(gen[x]) : gen'[x][i] = gen[x][i]
      PROVE  OfEnd(x)'
  <2>1. /\ Len(gen[x]) \in Nat /\ Len(kinds) \in Nat /\ hs[x] \in 0..flights
        /\ gen[x] \in Seq(Kinds)
    BY <1>1, <1>3, LenProperties DEF TypeOK
  <2>2. OfEnd(x)
    BY <1>1
  <2>3. Greeting(x)' <=> Greeting(x)
    BY <1>4 DEF Greeting
  <2>4. after'[x]["reader"] # "unborn"
    BY <1>4, <2>2
  <2>5. Greeting(x) => Len(gen'[x]) = Len(gen[x])
    BY <1>4, <2>1
  <2>6. Own(x, hs[x]) \in Nat /\ Own(x, flights) \in Nat /\ Own(x, hs[x]) <= Own(x, flights)
    BY <1>3, <2>1, OwnSteps
  <2>7. Len(gen'[x]) >= Own(x, hs[x])
    BY <1>4, <2>1, <2>2, <2>6
  <2>8. ASSUME NEW i \in 1..Len(gen'[x]), i <= Own(x, flights)
        PROVE  gen'[x][i] = "flight"
    <3>1. i \in 1..Len(gen[x])
      <4>1. CASE Greeting(x)
        BY <2>5, <4>1
      <4>2. CASE ~Greeting(x)
        <5>1. hs[x] = flights
          BY <1>3, <2>1, <2>2, <4>2
        <5>2. QED
          BY <2>1, <2>2, <2>6, <2>8, <5>1
      <4>3. QED
        BY <4>1, <4>2
    <3>2. QED
      BY <1>4, <2>2, <2>8, <3>1
  <2>9. QED
    BY <1>4, <2>2, <2>3, <2>4, <2>5, <2>7, <2>8
<1>5. PICK e \in Ends : \/ HandshakeStep(e) \/ ReadStep(e) \/ WriteStep(e)
                        \/ \E t \in Tasks : WritePart(e, t) \/ Flushed(e, t) \/ Cancel(e, t)
  BY Steps
<1>6. /\ <<>> \in Seq(Kinds) /\ <<"flight">> \in Seq(Kinds)
      /\ <<"ticket">> \in Seq(Kinds) /\ <<"reply">> \in Seq(Kinds)
      /\ Len(<<>>) = 0
  BY DEF Kinds
<1>7. /\ {"prepared", "handshake", "failed", "read", "eof", "idle"} \subseteq PC
  BY DEF PC
<1>8. CASE HandshakeStep(e)
  <2>1. PICK k \in 0..Len(wire[Peer(e)]), n \in {0, 1},
             kinds \in {<<>>, <<"flight">>, <<"ticket">>},
             to \in {"prepared", "handshake"}, h \in 0..flights :
               Greets(e, k, n, kinds, to, h)
    BY <1>8 DEF HandshakeStep
  <2>2. /\ pc[e]["reader"] \in {"unborn", "handshake"}
        /\ Pumps(e, "reader", k, n, kinds, to) /\ n <= Whole(e, Taken(e, k))
        /\ hs' = [hs EXCEPT ![e] = h]
        /\ (h < flights) <=> (to = "handshake")
        /\ n = 1 => ~Mine(e, hs[e] + 1)
        /\ \/ kinds = <<"flight">> /\ h = hs[e] + n + 1 /\ Mine(e, h)
           \/ kinds = <<>> /\ h = hs[e] + n /\ (h < flights => ~Mine(e, h + 1))
           \/ kinds = <<"ticket">> /\ h = hs[e] + n /\ h = flights
    BY <2>1 DEF Greets
  <2>3. kinds \in Seq(Kinds)
    BY <1>6
  <2>4. to \in PC /\ n \in Nat
    BY <1>7
  <2>5. /\ \A x \in Ends, u \in Tasks : x # e \/ u # "reader" =>
             pc'[x][u] = pc[x][u] /\ after'[x][u] = after[x][u]
        /\ \/ pc'[e]["reader"] = to /\ after'[e]["reader"] = after[e]["reader"]
           \/ pc'[e]["reader"] = "flush" /\ after'[e]["reader"] = to
        /\ flights' = flights
        /\ \A x \in Ends \ {e} : gen'[x] = gen[x] /\ seen'[x] = seen[x]
        /\ seen'[e] = seen[e] + n
        /\ gen[e] \in Seq(Kinds) /\ gen'[e] = gen[e] \o kinds
        /\ Len(gen[e]) \in Nat /\ Len(gen'[e]) = Len(gen[e]) + Len(kinds)
        /\ \A i \in 1..Len(gen[e]) : gen'[e][i] = gen[e][i]
    BY <1>0, <1>3, <2>2, <2>3, <2>4, PumpMoves
  <2>6. ASSUME NEW x \in Ends, x # e PROVE OfEnd(x)'
    <3>1. gen'[x] = gen[x] /\ seen'[x] = seen[x] /\ hs'[x] = hs[x]
      BY <1>3, <2>2, <2>5, <2>6
    <3>2. Len(gen[x]) \in Nat
      BY <1>1, LenProperties DEF TypeOK
    <3>3. Len(gen'[x]) = Len(gen[x]) + Len(<<>>)
      BY <1>6, <3>1, <3>2
    <3>4. QED
      BY <1>3, <1>4, <1>6, <2>5, <2>6, <3>1, <3>3
  <2>7. OfEnd(e) /\ Greeting(e) /\ hs[e] \in Nat /\ hs[e] < flights /\ h \in Nat
    BY <1>1, <1>3, <2>2 DEF Greeting
  <2>8. hs'[e] = h
    BY <1>3, <2>2
  <2>9. /\ Greeting(e)' <=> h < flights
        /\ after'[e]["reader"] # "unborn"
    BY <2>2, <2>5, <2>7 DEF Greeting
  <2> DEFINE p == Peer(e)
  <2>10. /\ Own(e, hs[e]) \in Nat /\ Own(p, hs[e]) \in Nat
         /\ Own(e, hs[e] + 1) = Own(e, hs[e]) + (IF Mine(e, hs[e] + 1) THEN 1 ELSE 0)
         /\ Own(p, hs[e] + 1) = Own(p, hs[e]) + (IF Mine(e, hs[e] + 1) THEN 0 ELSE 1)
         /\ Mine(e, hs[e] + 1) <=> ~Mine(e, hs[e] + 2)
         /\ Own(e, hs[e] + 2) = Own(e, hs[e] + 1) + (IF Mine(e, hs[e] + 2) THEN 1 ELSE 0)
         /\ Own(p, hs[e] + 2) = Own(p, hs[e] + 1) + (IF Mine(e, hs[e] + 2) THEN 0 ELSE 1)
    <3>1. p \in Ends
      BY TwoEnds
    <3>2. hs[e] + 1 \in Nat /\ hs[e] + 1 + 1 = hs[e] + 2
      BY <2>7
    <3>3. /\ Mine(e, hs[e] + 1) <=> ~Mine(p, hs[e] + 1)
          /\ Mine(e, hs[e] + 2) <=> ~Mine(p, hs[e] + 2)
      BY <2>7, <3>2, OwnSteps
    <3>4. /\ Own(e, hs[e]) \in Nat /\ Own(p, hs[e]) \in Nat
          /\ Own(e, hs[e] + 1) = Own(e, hs[e]) + (IF Mine(e, hs[e] + 1) THEN 1 ELSE 0)
          /\ Own(p, hs[e] + 1) = Own(p, hs[e]) + (IF Mine(p, hs[e] + 1) THEN 1 ELSE 0)
          /\ Mine(e, hs[e] + 1) <=> ~Mine(e, hs[e] + 2)
      BY <2>7, <3>1, OwnSteps
    <3>5. PICK g \in Nat : g = hs[e] + 1 /\ g + 1 = hs[e] + 2
      BY <2>7
    <3>6. /\ Own(e, g + 1) = Own(e, g) + (IF Mine(e, g + 1) THEN 1 ELSE 0)
          /\ Own(p, g + 1) = Own(p, g) + (IF Mine(p, g + 1) THEN 1 ELSE 0)
      BY <3>1, OwnSteps
    <3>7. /\ Own(e, hs[e] + 2) = Own(e, hs[e] + 1) + (IF Mine(e, hs[e] + 2) THEN 1 ELSE 0)
          /\ Own(p, hs[e] + 2) = Own(p, hs[e] + 1) + (IF Mine(p, hs[e] + 2) THEN 1 ELSE 0)
      BY <3>5, <3>6
    <3>8. QED
      BY <3>3, <3>4, <3>7
  <2> HIDE DEF p
  <2>11. Len(gen[e]) = Own(e, hs[e]) /\ seen[e] = Own(p, hs[e])
    BY <2>7 DEF p
  <2>12. Own(e, h) \in Nat /\ Own(e, flights) \in Nat /\ Own(e, h) <= Own(e, flights)
    BY <1>3, <2>7, OwnSteps
  <2>13. CASE kinds = <<"flight">>
    <3>1. h = hs[e] + n + 1 /\ Mine(e, h) /\ Len(kinds) = 1
      BY <2>2, <2>13
    <3>2. Len(gen'[e]) = Own(e, h) /\ seen'[e] = Own(p, h)
      <4>1. CASE n = 0
        BY <2>5, <2>7, <2>10, <2>11, <3>1, <4>1
      <4>2. CASE n = 1
        <5>1. h = hs[e] + 2 /\ ~Mine(e, hs[e] + 1)
          BY <2>2, <2>7, <3>1, <4>2
        <5>2. QED
          BY <2>5, <2>7, <2>10, <2>11, <3>1, <4>2, <5>1
      <4>3. QED
        BY <4>1, <4>2
    <3>3. ASSUME NEW i \in 1..Len(gen'[e]) PROVE gen'[e][i] = "flight"
      <4>1. CASE i \in 1..Len(gen[e])
        <5>1. i <= Own(e, flights)
          BY <2>5, <2>12, <3>2, <4>1
        <5>2. QED
          BY <2>5, <2>7, <4>1, <5>1
      <4>2. CASE i = Len(gen[e]) + 1
        BY <2>3, <2>5, <2>13, <4>2, ConcatProperties
      <4>3. QED
        BY <2>5, <3>1, <4>1, <4>2
    <3>4. OfEnd(e)'
      <4>1. Own(Peer(e), h) = Own(p, h)
        BY DEF p
      <4>2. Len(gen'[e]) >= Own(e, h)
        BY <2>12, <3>2
      <4>3. QED
        BY <2>5, <2>8, <2>9, <3>2, <3>3, <4>1, <4>2
    <3>5. QED
      BY <2>6, <3>4
  <2>14. CASE kinds = <<>>
    <3>1. h = hs[e] + n /\ Len(kinds) = 0
      BY <2>2, <2>14
    <3>2. Len(gen'[e]) = Own(e, h) /\ seen'[e] = Own(p, h)
      BY <2>2, <2>5, <2>7, <2>10, <2>11, <3>1
    <3>3. ASSUME NEW i \in 1..Len(gen'[e]) PROVE gen'[e][i] = "flight"
      <4>1. i \in 1..Len(gen[e]) /\ i <= Own(e, flights)
        BY <2>5, <2>12, <3>1, <3>2
      <4>2. QED
        BY <2>5, <2>7, <4>1
    <3>4. OfEnd(e)'
      <4>1. Own(Peer(e), h) = Own(p, h)
        BY DEF p
      <4>2. Len(gen'[e]) >= Own(e, h)
        BY <2>12, <3>2
      <4>3. QED
        BY <2>5, <2>8, <2>9, <3>2, <3>3, <4>1, <4>2
    <3>5. QED
      BY <2>6, <3>4
  <2>15. CASE kinds = <<"ticket">>
    <3>1. h = hs[e] + n /\ h = flights /\ Len(kinds) = 1 /\ kinds # <<>>
          /\ kinds # <<"flight">>
      BY <2>2, <2>15
    <3>2. Len(gen[e]) = Own(e, h)
      BY <2>2, <2>7, <2>10, <2>11, <3>1
    <3>3. ~Greeting(e)'
      BY <2>7, <2>9, <3>1
    <3>4. ASSUME NEW i \in 1..Len(gen'[e]), i <= Own(e, flights)
          PROVE  gen'[e][i] = "flight"
      <4>1. i \in 1..Len(gen[e])
        BY <2>12, <3>1, <3>2, <3>4
      <4>2. QED
        BY <2>5, <2>7, <3>4, <4>1
    <3>5. Len(gen'[e]) >= Own(e, h)
      BY <2>5, <2>12, <3>1, <3>2
    <3>6. ~(h < flights)
      BY <2>7, <3>1
    <3>7. QED
      BY <2>5, <2>6, <2>8, <2>9, <3>3, <3>4, <3>5, <3>6
  <2>16. QED
    BY <2>13, <2>14, <2>15
<1>9. CASE ReadStep(e)
  <2>1. PICK k \in 0..Len(wire[Peer(e)]), n \in Nat, kinds \in {<<>>, <<"reply">>},
             to \in {"failed", "read", "eof", "idle"}, num \in Nat :
               Decrypts(e, k, n, kinds, to, num)
    BY <1>9 DEF ReadStep
  <2>2. /\ pc[e]["reader"] \in {"prepared", "idle", "read"}
        /\ Pumps(e, "reader", k, n, kinds, to) /\ n <= Whole(e, Taken(e, k))
        /\ hs' = hs
    BY <2>1 DEF Decrypts
  <2>3. kinds \in Seq(Kinds) /\ to \in PC
    BY <1>6, <1>7
  <2>4. /\ \A x \in Ends, u \in Tasks : x # e \/ u # "reader" =>
             pc'[x][u] = pc[x][u] /\ after'[x][u] = after[x][u]
        /\ \/ pc'[e]["reader"] = to /\ after'[e]["reader"] = after[e]["reader"]
           \/ pc'[e]["reader"] = "flush" /\ after'[e]["reader"] = to
        /\ flights' = flights
        /\ \A x \in Ends \ {e} : gen'[x] = gen[x] /\ seen'[x] = seen[x]
        /\ Len(gen'[e]) = Len(gen[e]) + Len(kinds)
        /\ \A i \in 1..Len(gen[e]) : gen'[e][i] = gen[e][i]
    BY <1>0, <1>3, <2>2, <2>3, PumpMoves
  <2>5. after[e]["reader"] # "unborn"
    BY <1>1
  <2>6. ~Greeting(e) /\ ~Greeting(e)' /\ after'[e]["reader"] # "unborn"
    BY <2>2, <2>4, <2>5 DEF Greeting
  <2>7. OfEnd(e)'
    BY <1>4, <2>2, <2>3, <2>4, <2>6
  <2>8. ASSUME NEW x \in Ends, x # e PROVE OfEnd(x)'
    <3>1. Len(gen[x]) \in Nat
      BY <1>1, LenProperties DEF TypeOK
    <3>2. /\ gen'[x] = gen[x] /\ seen'[x] = seen[x] /\ hs'[x] = hs[x]
          /\ Len(gen'[x]) = Len(gen[x]) + Len(<<>>)
      BY <1>6, <2>2, <2>4, <2>8, <3>1
    <3>3. QED
      BY <1>3, <1>4, <1>6, <2>4, <2>8, <3>2
  <2>9. QED
    BY <2>7, <2>8
<1>10. CASE WriteStep(e)
  <2>1. PICK k \in 0..Len(wire[Peer(e)]), n \in Nat, kinds \in Seq(Kinds), to \in PC :
          /\ Pumps(e, "writer", k, n, kinds, to)
          /\ n <= Whole(e, Taken(e, k)) /\ n = 0
    BY <1>0, <1>10, WritePumps
  <2>2. ~Greeting(e) /\ hs' = hs
    BY <1>10 DEF WriteStep, Preparing, Greeting
  <2>5. /\ \A x \in Ends, u \in Tasks : x # e \/ u # "writer" =>
             pc'[x][u] = pc[x][u] /\ after'[x][u] = after[x][u]
        /\ flights' = flights
        /\ \A x \in Ends \ {e} : gen'[x] = gen[x] /\ seen'[x] = seen[x]
        /\ Len(gen'[e]) = Len(gen[e]) + Len(kinds)
        /\ \A i \in 1..Len(gen[e]) : gen'[e][i] = gen[e][i]
    BY <1>0, <1>3, <2>1, PumpMoves
  <2>6. \A x \in Ends : /\ pc'[x]["reader"] = pc[x]["reader"]
                        /\ after'[x]["reader"] = after[x]["reader"]
    BY <1>3, <2>5
  <2>7. OfEnd(e)'
    BY <1>4, <2>1, <2>2, <2>5, <2>6
  <2>8. ASSUME NEW x \in Ends, x # e PROVE OfEnd(x)'
    <3>1. Len(gen[x]) \in Nat
      BY <1>1, LenProperties DEF TypeOK
    <3>2. /\ gen'[x] = gen[x] /\ seen'[x] = seen[x] /\ hs'[x] = hs[x]
          /\ Len(gen'[x]) = Len(gen[x]) + Len(<<>>)
      BY <1>6, <2>2, <2>5, <2>8, <3>1
    <3>3. QED
      BY <1>4, <1>6, <2>5, <2>6, <3>2
  <2>9. QED
    BY <2>7, <2>8
<1>11. CASE \E t \in Tasks : WritePart(e, t) \/ Flushed(e, t) \/ Cancel(e, t)
  <2>1. PICK t \in Tasks : WritePart(e, t) \/ Flushed(e, t) \/ Cancel(e, t)
    BY <1>11
  <2>2. UNCHANGED <<flights, after, hs, gen, seen>>
    BY <2>1 DEF WritePart, Flushed, Cancel, below, engine
  <2>3. \/ pc' = pc
        \/ pc[e][t] = "flush" /\ pc' = [pc EXCEPT ![e][t] = after[e][t]]
        \/ /\ pc[e][t] \in {"flush", "read"} /\ ~Preparing(e)
           /\ pc' = [pc EXCEPT ![e][t] = "idle"]
    BY <2>1 DEF WritePart, Flushed, Cancel, GoTo
  <2>4. \A x \in Ends : after[x]["reader"] # "unborn"
    BY <1>1
  <2>5. pc \in [Ends -> [Tasks -> PC]]
    BY <1>1 DEF TypeOK
  <2>6. ASSUME NEW x \in Ends
        PROVE  \/ pc'[x]["reader"] = pc[x]["reader"]
               \/ ~Greeting(x) /\ ~Greeting(x)'
               \/ Greeting(x) /\ Greeting(x)'
    <3>1. CASE x # e \/ t # "reader" \/ pc' = pc
      BY <1>3, <2>3, <2>5, <3>1
    <3>2. CASE x = e /\ t = "reader" /\ pc' # pc
      <4>1. \/ pc[e]["reader"] = "flush" /\ pc'[e]["reader"] = after[e]["reader"]
            \/ /\ pc[e]["reader"] \in {"flush", "read"} /\ ~Preparing(e)
               /\ pc'[e]["reader"] = "idle"
        BY <1>3, <2>3, <2>5, <3>2
      <4>2. QED
        BY <2>2, <2>4, <3>2, <4>1 DEF Greeting, Preparing
    <3>3. QED
      BY <3>1, <3>2
  <2>7. ASSUME NEW x \in Ends PROVE OfEnd(x)'
    <3>1. Greeting(x)' <=> Greeting(x)
      BY <2>2, <2>6 DEF Greeting
    <3>2. QED
      BY <1>1, <2>2, <3>1
  <2>8. QED
    BY <2>7
<1>12. QED
  BY <1>5, <1>8, <1>9, <1>10, <1>11
-----------------------------------------------------------------------------
(* Accounted and InHand of one end.                                        *)
Decrypted(x) == {n \in 1..seen[x] : gen[Peer(x)][n] = "data"}
Rising(s) == \A i, j \in 1..Len(s) : i < j => s[i] < s[j]
Books(x) ==
  /\ Decrypted(x) = ToSet(got[x]) \cup dropped[x] \cup ({hand[x]} \ {0})
  /\ Rising(got[x])
  /\ ToSet(got[x]) \cap (dropped[x] \cup {hand[x]}) = {}
  /\ hand[x] # 0 => /\ pc[x]["reader"] = "flush"
                    /\ \A y \in ToSet(got[x]) \cup dropped[x] : y < hand[x]
  /\ Cardinality(dropped[x]) + (IF hand[x] # 0 THEN 1 ELSE 0) <= Cardinality(Replies(x))

LEMMA BooksOfAll == Accounted /\ InHand <=> \A x \in Ends : Books(x)
BY DEF Accounted, InHand, Books, Decrypted, Rising

LEMMA Appended ==
  ASSUME NEW s \in Seq(Nat), NEW m \in Nat
  PROVE  /\ ToSet(Append(s, m)) = ToSet(s) \cup {m}
         /\ Rising(s) /\ (\A y \in ToSet(s) : y < m) => Rising(Append(s, m))
<1>1. /\ Len(s) \in Nat /\ Len(Append(s, m)) = Len(s) + 1
      /\ \A i \in 1..Len(s) : Append(s, m)[i] = s[i]
      /\ Append(s, m)[Len(s) + 1] = m
      /\ DOMAIN s = 1..Len(s) /\ DOMAIN Append(s, m) = 1..Len(s) + 1
  BY LenProperties, AppendProperties
<1>2. 1..Len(s) + 1 = (1..Len(s)) \cup {Len(s) + 1}
  BY <1>1
<1>3. ToSet(Append(s, m)) = ToSet(s) \cup {m}
  BY <1>1, <1>2 DEF ToSet
<1>4. ASSUME Rising(s), \A y \in ToSet(s) : y < m
      PROVE  Rising(Append(s, m))
  <2>1. ASSUME NEW i \in 1..Len(s) + 1, NEW j \in 1..Len(s) + 1, i < j
        PROVE  Append(s, m)[i] < Append(s, m)[j]
    <3>1. i \in 1..Len(s) /\ Append(s, m)[i] = s[i]
      BY <1>1, <2>1
    <3>2. CASE j \in 1..Len(s)
      BY <1>1, <1>4, <2>1, <3>1, <3>2 DEF Rising
    <3>3. CASE j = Len(s) + 1
      <4>1. s[i] \in ToSet(s)
        BY <1>1, <3>1 DEF ToSet
      <4>2. QED
        BY <1>1, <1>4, <3>1, <3>3, <4>1
    <3>4. QED
      BY <1>1, <3>2, <3>3
  <2>2. QED
    BY <1>1, <2>1 DEF Rising
<1>5. QED
  BY <1>3, <1>4

LEMMA MoreReplies ==
  ASSUME NEW x \in Ends, gen[x] \in Seq(Kinds), NEW kinds \in Seq(Kinds),
         gen'[x] = gen[x] \o kinds
  PROVE  /\ Cardinality(Replies(x)) \in Nat /\ Cardinality(Replies(x)') \in Nat
         /\ Cardinality(Replies(x)) <= Cardinality(Replies(x)')
         /\ kinds = <<"reply">> => Cardinality(Replies(x)') = Cardinality(Replies(x)) + 1
<1> DEFINE l == Len(gen[x])
           m == Len(gen'[x])
<1>1. /\ l \in Nat /\ Len(kinds) \in Nat /\ m = l + Len(kinds)
      /\ \A i \in 1..l : gen'[x][i] = gen[x][i]
  BY LenProperties, ConcatProperties
<1>2. m \in Nat
  BY <1>1
<1> HIDE DEF l, m
<1>3. PICK R, S : /\ R = {i \in 1..l : gen[x][i] = "reply"}
                 /\ S = {i \in 1..m : gen'[x][i] = "reply"}
  OBVIOUS
<1>4. R = Replies(x) /\ S = Replies(x)'
  BY <1>3 DEF Replies, l, m
<1>5. /\ \A i \in R : i \in 1..l /\ gen[x][i] = "reply"
      /\ \A i \in 1..l : gen[x][i] = "reply" => i \in R
      /\ \A i \in S : i \in 1..m /\ gen'[x][i] = "reply"
      /\ \A i \in 1..m : gen'[x][i] = "reply" => i \in S
  BY <1>3
<1>6. IsFiniteSet(R) /\ IsFiniteSet(S)
  <2>1. IsFiniteSet(1..l) /\ IsFiniteSet(1..m)
    BY <1>1, <1>2, FS_Interval
  <2>2. QED
    BY <1>5, <2>1, FS_Subset
<1>7. \A i \in 1..l : i \in 1..m
  BY <1>1, <1>2
<1>8. R \subseteq S
  BY <1>1, <1>5, <1>7
<1>9. Cardinality(R) \in Nat /\ Cardinality(S) \in Nat /\ Cardinality(R) <= Cardinality(S)
  BY <1>6, <1>8, FS_Subset, FS_CardinalityType
<1>10. ASSUME kinds = <<"reply">>
       PROVE  Cardinality(S) = Cardinality(R) + 1
  <2>1. m = l + 1
    BY <1>1, <1>10
  <2>2. gen'[x][l + 1] = "reply"
    BY <1>1, <1>10, ConcatProperties DEF l
  <2>3. \A i \in 1..m : i \in 1..l \/ i = l + 1
    BY <1>1, <2>1
  <2>4. l + 1 \in 1..m /\ l + 1 \notin 1..l
    BY <1>1, <2>1
  <2>5. S = R \cup {l + 1}
    BY <1>1, <1>5, <1>8, <2>2, <2>3, <2>4
  <2>6. l + 1 \notin R
    BY <1>5, <2>4
  <2>7. QED
    BY <1>6, <2>5, <2>6, FS_AddElement
<1>11. QED
  BY <1>4, <1>9, <1>10

LEMMA DroppedFinite ==
  ASSUME TypeOK, NEW x \in Ends, Books(x)
  PROVE  IsFiniteSet(dropped[x]) /\ Cardinality(dropped[x]) \in Nat
<1>1. seen[x] \in Nat
  BY DEF TypeOK
<1>2. dropped[x] \subseteq 1..seen[x]
  BY DEF Books, Decrypted
<1>3. IsFiniteSet(1..seen[x])
  BY <1>1, FS_Interval
<1>4. QED
  BY <1>2, <1>3, FS_Subset, FS_CardinalityType

(* What x has decrypted after it took n more records, of which the last    *)
(* may be the one with data.                                               *)
LEMMA DecryptedGrows ==
  ASSUME TypeOK, NEW x \in Ends, NEW n \in Nat, seen'[x] = seen[x] + n,
         NEW theirs \in Seq(Kinds), gen'[Peer(x)] = gen[Peer(x)] \o theirs,
         seen[x] + n <= Len(gen[Peer(x)]), NEW num \in Nat,
         \A i \in 1..n : seen[x] + i # num => gen[Peer(x)][seen[x] + i] # "data",
         num # 0 => n > 0 /\ num = seen[x] + n /\ gen[Peer(x)][num] = "data"
  PROVE  Decrypted(x)' = Decrypted(x) \cup ({num} \ {0})
<1> DEFINE g == gen[Peer(x)]
<1>1. /\ seen[x] \in Nat /\ g \in Seq(Kinds) /\ Len(g) \in Nat
      /\ \A i \in 1..Len(g) : gen'[Peer(x)][i] = g[i]
  <2>1. g \in Seq(Kinds) /\ seen[x] \in Nat
    BY TwoEnds DEF TypeOK
  <2>2. QED
    BY <2>1, LenProperties, ConcatProperties
<1> HIDE DEF g
<1>2. Decrypted(x)' = {i \in 1..(seen[x] + n) : g[i] = "data"}
  <2>1. Decrypted(x)' = {i \in 1..(seen[x] + n) : gen'[Peer(x)][i] = "data"}
    BY DEF Decrypted
  <2>2. \A i \in 1..(seen[x] + n) : i \in 1..Len(g)
    BY <1>1 DEF g
  <2>3. QED
    BY <1>1, <2>1, <2>2
<1>3. Decrypted(x) = {i \in 1..seen[x] : g[i] = "data"}
  BY DEF Decrypted, g
<1>4. ASSUME NEW i \in 1..(seen[x] + n), g[i] = "data", i # num
      PROVE  i \in 1..seen[x]
  <2>1. SUFFICES ASSUME i > seen[x] PROVE FALSE
    BY <1>1
  <2>2. i - seen[x] \in 1..n /\ seen[x] + (i - seen[x]) = i
    BY <1>1, <2>1
  <2>3. QED
    BY <1>4, <2>2 DEF g
<1>5. num # 0 => num \in 1..(seen[x] + n) /\ g[num] = "data"
  BY <1>1 DEF g
<1>6. 1..seen[x] \subseteq 1..(seen[x] + n)
  BY <1>1
<1>7. num = 0 => \A i \in 1..(seen[x] + n) : i # num
  BY <1>1
<1>8. QED
  BY <1>2, <1>3, <1>4, <1>5, <1>6, <1>7

(* An end that decrypts no data, and returns and drops none.               *)
LEMMA BooksStay ==
  ASSUME TypeOK, NEW x \in Ends, Books(x),
         hand'[x] = hand[x], got'[x] = got[x], dropped'[x] = dropped[x],
         hand[x] # 0 => pc'[x]["reader"] = "flush",
         NEW n \in Nat, seen'[x] = seen[x] + n,
         NEW kinds \in Seq(Kinds), gen'[x] = gen[x] \o kinds,
         NEW theirs \in Seq(Kinds), gen'[Peer(x)] = gen[Peer(x)] \o theirs,
         seen[x] + n <= Len(gen[Peer(x)]),
         \A i \in 1..n : gen[Peer(x)][seen[x] + i] # "data"
  PROVE  Books(x)'
<1>1. Decrypted(x)' = Decrypted(x)
  <2>1. Decrypted(x)' = Decrypted(x) \cup ({0} \ {0})
    BY DecryptedGrows
  <2>2. QED
    BY <2>1
<1>2. gen[x] \in Seq(Kinds)
  BY DEF TypeOK
<1>3. /\ Cardinality(Replies(x)) \in Nat /\ Cardinality(Replies(x)') \in Nat
      /\ Cardinality(Replies(x)) <= Cardinality(Replies(x)')
  BY <1>2, MoreReplies
<1>4. Cardinality(dropped[x]) \in Nat
  BY DroppedFinite
<1>5. /\ Cardinality(dropped'[x]) + (IF hand'[x] # 0 THEN 1 ELSE 0)
           <= Cardinality(Replies(x)')
  BY <1>3, <1>4 DEF Books
<1>6. QED
  BY <1>1, <1>5 DEF Books, Rising

(* The end that a step of the other is not about.                          *)
LEMMA BooksElsewhere ==
  ASSUME TypeOK, Known, NEW e \in Ends, NEW t \in Tasks,
         NEW k \in 0..Len(wire[Peer(e)]), NEW n \in Nat,
         n <= Whole(e, Taken(e, k)), NEW kinds \in Seq(Kinds), NEW to \in PC,
         Pumps(e, t, k, n, kinds, to),
         NEW x \in Ends, x # e, Books(x),
         hand'[x] = hand[x], got'[x] = got[x], dropped'[x] = dropped[x]
  PROVE  Books(x)'
<1>1. Peer(x) = e /\ x = Peer(e) /\ "reader" \in Tasks
  BY TwoEnds DEF Tasks
<1>2. /\ pc'[x]["reader"] = pc[x]["reader"]
      /\ gen'[x] = gen[x] /\ seen'[x] = seen[x] /\ gen'[e] = gen[e] \o kinds
  BY <1>1, PumpMoves
<1>3. gen[x] \in Seq(Kinds) /\ seen[x] \in Nat /\ seen[x] <= Len(gen[e])
  BY <1>1 DEF TypeOK, Known
<1>4. <<>> \in Seq(Kinds) /\ gen'[x] = gen[x] \o <<>>
  BY <1>2, <1>3, EmptySeq, ConcatEmptySeq
<1>5. /\ 0 \in Nat /\ seen'[x] = seen[x] + 0 /\ seen[x] + 0 <= Len(gen[Peer(x)])
      /\ \A i \in 1..0 : gen[Peer(x)][seen[x] + i] # "data"
  BY <1>1, <1>2, <1>3
<1>6. gen'[Peer(x)] = gen[Peer(x)] \o kinds
  BY <1>1, <1>2
<1>7. hand[x] # 0 => pc'[x]["reader"] = "flush"
  BY <1>2 DEF Books
<1>8. QED
  BY <1>4, <1>5, <1>6, <1>7, BooksStay

LEMMA BooksOfHandshake ==
  ASSUME IInv, NEW e \in Ends, HandshakeStep(e), NEW x \in Ends
  PROVE  Books(x)'
<1>0. TypeOK /\ Known
  BY DEF IInv
<1>1. Flights /\ \A y \in Ends : Books(y)
  BY BooksOfAll DEF IInv
<1>2. PICK k \in 0..Len(wire[Peer(e)]), n \in {0, 1},
           kinds \in {<<>>, <<"flight">>, <<"ticket">>},
           to \in {"prepared", "handshake"}, h \in 0..flights :
             Greets(e, k, n, kinds, to, h)
  BY DEF HandshakeStep
<1>3. /\ pc[e]["reader"] \in {"unborn", "handshake"}
      /\ Pumps(e, "reader", k, n, kinds, to) /\ n <= Whole(e, Taken(e, k))
      /\ n = 1 => ~Mine(e, hs[e] + 1)
  BY <1>2 DEF Greets
<1>4. hand' = hand /\ got' = got /\ dropped' = dropped
  BY DEF HandshakeStep
<1>5. /\ kinds \in Seq(Kinds) /\ to \in PC /\ n \in Nat /\ "reader" \in Tasks
      /\ <<>> \in Seq(Kinds)
  <2>1. /\ <<>> \in Seq(Kinds) /\ <<"flight">> \in Seq(Kinds)
        /\ <<"ticket">> \in Seq(Kinds)
    BY DEF Kinds
  <2>2. to \in PC /\ n \in Nat /\ "reader" \in Tasks
    BY DEF PC, Tasks
  <2>3. QED
    BY <2>1, <2>2
<1>6. CASE x # e
  BY <1>0, <1>1, <1>3, <1>4, <1>5, <1>6, BooksElsewhere
<1>7. CASE x = e
  <2> DEFINE p == Peer(e)
  <2>1. /\ seen'[e] = seen[e] + n /\ gen'[e] = gen[e] \o kinds
        /\ seen[e] \in Nat /\ seen[e] + n <= Len(gen[p])
        /\ \A y \in Ends \ {e} : gen'[y] = gen[y]
    BY <1>0, <1>3, <1>5, PumpMoves
  <2>2. p \in Ends /\ p # e /\ Peer(p) = e
    BY TwoEnds
  <2>3. gen[p] \in Seq(Kinds) /\ Len(gen[p]) \in Nat
    BY <1>0, <2>2, LenProperties DEF TypeOK
  <2>4. gen'[p] = gen[p] \o <<>>
    BY <2>1, <2>2, <2>3, ConcatEmptySeq
  <2>5. hand[e] = 0
    BY <1>1, <1>3 DEF Books
  <2>6. ASSUME NEW i \in 1..n PROVE gen[p][seen[e] + i] # "data"
    <3>1. n = 1 /\ i = 1
      BY <1>5, <2>6
    <3>2. hs[e] \in 0..flights /\ flights \in Nat
      BY <1>0, CountsAssumption DEF TypeOK, CountsAssumption
    <3>3. Greeting(e) /\ hs[e] < flights /\ seen[e] = Own(p, hs[e])
      BY <1>1, <1>3 DEF Flights, Greeting
    <3>4. PICK h1 \in Nat : h1 = hs[e] + 1
      BY <3>2
    <3>5. h1 \in 0..flights /\ hs[e] \in Nat
      BY <3>2, <3>3, <3>4
    <3>6. Mine(p, hs[e] + 1)
      BY <1>3, <2>2, <3>1, <3>5, OwnSteps
    <3>7. /\ Own(p, hs[e] + 1) = Own(p, hs[e]) + 1 /\ Own(p, hs[e]) \in Nat
          /\ Own(p, h1) <= Own(p, flights)
      BY <2>2, <3>2, <3>5, <3>6, OwnSteps
    <3>8. seen[e] + 1 <= Own(p, flights)
      BY <3>3, <3>4, <3>7
    <3>9. seen[e] + 1 \in 1..Len(gen[p])
      BY <2>1, <2>3, <3>1
    <3>10. gen[p][seen[e] + 1] = "flight"
      BY <1>1, <2>2, <3>8, <3>9 DEF Flights
    <3>11. QED
      BY <3>1, <3>10
  <2>7. Books(e) /\ hand'[e] = hand[e] /\ got'[e] = got[e] /\ dropped'[e] = dropped[e]
    BY <1>1, <1>4
  <2> HIDE DEF p
  <2>8. /\ gen'[Peer(e)] = gen[Peer(e)] \o <<>> /\ seen[e] + n <= Len(gen[Peer(e)])
        /\ \A i \in 1..n : gen[Peer(e)][seen[e] + i] # "data"
    BY <2>1, <2>4, <2>6 DEF p
  <2>9. hand[e] # 0 => pc'[e]["reader"] = "flush"
    BY <2>5
  <2>10. Books(e)'
    BY <1>0, <1>5, <2>1, <2>7, <2>8, <2>9, BooksStay
  <2>11. QED
    BY <1>7, <2>10
<1>8. QED
  BY <1>6, <1>7

LEMMA BooksOfWrite ==
  ASSUME IInv, NEW e \in Ends, WriteStep(e), NEW x \in Ends
  PROVE  Books(x)'
<1>0. TypeOK /\ Known
  BY DEF IInv
<1>1. Books(x)
  BY BooksOfAll DEF IInv
<1>2. hand' = hand /\ got' = got /\ dropped' = dropped
  BY DEF WriteStep
<1>3. PICK k \in 0..Len(wire[Peer(e)]), n \in Nat, kinds \in Seq(Kinds), to \in PC :
        /\ Pumps(e, "writer", k, n, kinds, to)
        /\ n <= Whole(e, Taken(e, k)) /\ n = 0
  BY <1>0, WritePumps
<1>4. "reader" \in Tasks /\ "writer" \in Tasks /\ <<>> \in Seq(Kinds)
  BY DEF Tasks
<1>5. CASE x # e
  BY <1>0, <1>1, <1>2, <1>3, <1>4, <1>5, BooksElsewhere
<1>6. CASE x = e
  <2>1. /\ pc'[e]["reader"] = pc[e]["reader"]
        /\ seen'[e] = seen[e] + n /\ gen'[e] = gen[e] \o kinds
        /\ seen[e] + n <= Len(gen[Peer(e)])
        /\ \A y \in Ends \ {e} : gen'[y] = gen[y]
    BY <1>0, <1>3, <1>4, PumpMoves
  <2>2. Peer(e) \in Ends /\ Peer(e) # e
    BY TwoEnds
  <2>3. gen[Peer(e)] \in Seq(Kinds)
    BY <1>0, <2>2 DEF TypeOK
  <2>4. gen'[Peer(e)] = gen[Peer(e)] \o <<>>
    BY <2>1, <2>2, <2>3, ConcatEmptySeq
  <2>5. \A i \in 1..n : gen[Peer(e)][seen[e] + i] # "data"
    BY <1>3
  <2>6. hand[e] # 0 => pc'[e]["reader"] = "flush"
    BY <1>1, <1>6, <2>1 DEF Books
  <2>7. Books(e) /\ hand'[e] = hand[e] /\ got'[e] = got[e] /\ dropped'[e] = dropped[e]
    BY <1>1, <1>2, <1>6
  <2>8. Books(e)'
    BY <1>0, <1>4, <2>1, <2>4, <2>5, <2>6, <2>7, BooksStay
  <2>9. QED
    BY <1>6, <2>8
<1>7. QED
  BY <1>5, <1>6

(* A call of read: the record it decrypts is returned if nothing has to be *)
(* flushed; else a reply has just been produced, and it stays in hand.     *)
LEMMA BooksOfRead ==
  ASSUME IInv, NEW e \in Ends, ReadStep(e), NEW x \in Ends
  PROVE  Books(x)'
<1>0. TypeOK /\ Known /\ Writers
  BY DEF IInv
<1>1. \A y \in Ends : Books(y)
  BY BooksOfAll DEF IInv
<1>2. PICK k \in 0..Len(wire[Peer(e)]), n \in Nat, kinds \in {<<>>, <<"reply">>},
           to \in {"failed", "read", "eof", "idle"}, num \in Nat :
             Decrypts(e, k, n, kinds, to, num)
  BY DEF ReadStep
<1>3. /\ pc[e]["reader"] \in {"prepared", "idle", "read"}
      /\ Pumps(e, "reader", k, n, kinds, to) /\ n <= Whole(e, Taken(e, k))
      /\ \A i \in 1..n : seen[e] + i # num => gen[Peer(e)][seen[e] + i] # "data"
      /\ num # 0 => /\ n > 0 /\ num = seen[e] + n /\ gen[Peer(e)][num] = "data"
                    /\ to # "failed"
  BY <1>2 DEF Decrypts
<1>4. \/ /\ num # 0 /\ Pending(e, kinds) = <<>>
         /\ got' = [got EXCEPT ![e] = Append(got[e], num)] /\ hand' = hand
      \/ /\ num = 0 \/ Pending(e, kinds) # <<>>
         /\ got' = got /\ hand' = [hand EXCEPT ![e] = num]
  BY <1>2 DEF Decrypts
<1>5. kinds \in Seq(Kinds) /\ <<>> \in Seq(Kinds)
  <2>1. <<>> \in Seq(Kinds) /\ <<"reply">> \in Seq(Kinds)
    BY DEF Kinds
  <2>2. QED
    BY <2>1
<1>6. to \in PC /\ "reader" \in Tasks
  BY DEF PC, Tasks
<1>7. dropped' = dropped
  BY DEF ReadStep
<1>8. /\ got \in [Ends -> Seq(Nat)] /\ hand \in [Ends -> Nat]
      /\ gen \in [Ends -> Seq(Kinds)]
  BY <1>0 DEF TypeOK
<1>9. CASE x # e
  <2>1. got'[x] = got[x] /\ hand'[x] = hand[x] /\ dropped'[x] = dropped[x]
    BY <1>4, <1>7, <1>8, <1>9
  <2>2. QED
    BY <1>0, <1>1, <1>3, <1>5, <1>6, <1>9, <2>1, BooksElsewhere
<1>10. CASE x = e
  <2>1. /\ seen'[e] = seen[e] + n /\ gen'[e] = gen[e] \o kinds
        /\ seen[e] \in Nat /\ seen[e] + n <= Len(gen[Peer(e)])
        /\ \A y \in Ends \ {e} : gen'[y] = gen[y]
        /\ Pending(e, kinds) # <<>> /\ to # "failed" => pc'[e]["reader"] = "flush"
    BY <1>0, <1>3, <1>5, <1>6, PumpMoves
  <2>2. Peer(e) \in Ends /\ Peer(e) # e
    BY TwoEnds
  <2>3. gen'[Peer(e)] = gen[Peer(e)] \o <<>>
    BY <1>8, <2>1, <2>2, ConcatEmptySeq
  <2>4. Books(e) /\ hand[e] = 0
    <3>1. Books(e)
      BY <1>1
    <3>2. QED
      BY <1>3, <3>1 DEF Books
  <2>5. gen[e] \in Seq(Kinds) /\ got[e] \in Seq(Nat)
    BY <1>8
  <2>6. /\ Cardinality(Replies(e)) \in Nat /\ Cardinality(Replies(e)') \in Nat
        /\ Cardinality(Replies(e)) <= Cardinality(Replies(e)')
        /\ kinds = <<"reply">> => Cardinality(Replies(e)') = Cardinality(Replies(e)) + 1
    BY <1>5, <2>1, <2>5, MoreReplies
  <2>7. Cardinality(dropped[e]) \in Nat
    BY <1>0, <2>4, DroppedFinite
  <2>8. Decrypted(e)' = Decrypted(e) \cup ({num} \ {0})
    BY <1>0, <1>3, <1>5, <2>1, <2>3, DecryptedGrows
  <2>9. /\ Decrypted(e) = ToSet(got[e]) \cup dropped[e]
        /\ Rising(got[e]) /\ ToSet(got[e]) \cap dropped[e] = {}
        /\ ToSet(got[e]) \cap {0} = {}
        /\ Cardinality(dropped[e]) <= Cardinality(Replies(e))
    BY <2>4, <2>7, <2>6 DEF Books
  <2>10. ASSUME num # 0
         PROVE  \A y \in ToSet(got[e]) \cup dropped[e] : y < num
    <3>1. ASSUME NEW y \in Decrypted(e) PROVE y < num
      <4>1. y \in 1..seen[e]
        BY <3>1 DEF Decrypted
      <4>2. QED
        BY <1>3, <2>1, <2>10, <4>1
    <3>2. QED
      BY <2>9, <3>1
  <2>11. CASE num # 0 /\ Pending(e, kinds) = <<>>
    <3>1. got'[e] = Append(got[e], num) /\ hand'[e] = 0 /\ dropped'[e] = dropped[e]
      BY <1>4, <1>7, <1>8, <2>4, <2>11
    <3>2. \A y \in ToSet(got[e]) \cup dropped[e] : y < num
      BY <2>10, <2>11
    <3>3. ToSet(got'[e]) = ToSet(got[e]) \cup {num} /\ Rising(got'[e])
      BY <2>5, <2>9, <3>1, <3>2, Appended
    <3>4. num \notin dropped[e]
      BY <3>2
    <3>5. Decrypted(e)' = ToSet(got'[e]) \cup dropped'[e] \cup ({hand'[e]} \ {0})
      BY <2>8, <2>9, <2>11, <3>1, <3>3
    <3>6. ToSet(got'[e]) \cap (dropped'[e] \cup {hand'[e]}) = {}
      BY <2>9, <2>11, <3>1, <3>3, <3>4
    <3>7. Cardinality(dropped'[e]) + (IF hand'[e] # 0 THEN 1 ELSE 0)
            <= Cardinality(Replies(e)')
      BY <2>6, <2>7, <2>9, <3>1
    <3>8. Books(e)'
      BY <3>1, <3>3, <3>5, <3>6, <3>7 DEF Books, Rising
    <3>9. QED
      BY <1>10, <3>8
  <2>12. CASE num = 0
    <3>1. got'[e] = got[e] /\ hand'[e] = 0 /\ dropped'[e] = dropped[e]
      BY <1>4, <1>7, <1>8, <2>12
    <3>2. Decrypted(e)' = ToSet(got'[e]) \cup dropped'[e] \cup ({hand'[e]} \ {0})
      BY <2>8, <2>9, <2>12, <3>1
    <3>3. Cardinality(dropped'[e]) + (IF hand'[e] # 0 THEN 1 ELSE 0)
            <= Cardinality(Replies(e)')
      BY <2>6, <2>7, <2>9, <3>1
    <3>4. ToSet(got'[e]) \cap (dropped'[e] \cup {hand'[e]}) = {} /\ Rising(got'[e])
      BY <2>9, <3>1
    <3>5. Books(e)'
      BY <3>1, <3>2, <3>3, <3>4 DEF Books, Rising
    <3>6. QED
      BY <1>10, <3>5
  <2>13. CASE num # 0 /\ Pending(e, kinds) # <<>>
    <3>1. got'[e] = got[e] /\ hand'[e] = num /\ dropped'[e] = dropped[e]
      BY <1>4, <1>7, <1>8, <2>13
    <3>2. pc'[e]["reader"] = "flush"
      BY <1>3, <2>1, <2>13
    <3>3. kinds = <<"reply">>
      <4>1. out[e] = <<>>
        BY <1>0, <1>3 DEF Writers
      <4>2. StreamTypes
        BY <1>0 DEF TypeOK, StreamTypes, Pieces
      <4>3. Pending(e, <<>>) = out[e]
        BY <1>0, <1>5, <4>2, PendingKnown
      <4>4. QED
        BY <2>13, <4>1, <4>3
    <3>4. \A y \in ToSet(got[e]) \cup dropped[e] : y < num
      BY <2>10, <2>13
    <3>5. num \notin ToSet(got[e])
      BY <3>4
    <3>6. Decrypted(e)' = ToSet(got'[e]) \cup dropped'[e] \cup ({hand'[e]} \ {0})
      BY <2>8, <2>9, <3>1
    <3>7. Cardinality(dropped'[e]) + (IF hand'[e] # 0 THEN 1 ELSE 0)
            <= Cardinality(Replies(e)')
      BY <2>6, <2>7, <2>9, <3>1, <3>3
    <3>8. ToSet(got'[e]) \cap (dropped'[e] \cup {hand'[e]}) = {} /\ Rising(got'[e])
      BY <2>9, <3>1, <3>5
    <3>9. Books(e)'
      BY <3>1, <3>2, <3>4, <3>6, <3>7, <3>8 DEF Books, Rising
    <3>10. QED
      BY <1>10, <3>9
  <2>14. QED
    BY <2>11, <2>12, <2>13
<1>11. QED
  BY <1>9, <1>10

(* A step of write_all, the end of a flush, or a cancelled call.           *)
LEMMA BooksOfRest ==
  ASSUME IInv, NEW e \in Ends, NEW t \in Tasks,
         WritePart(e, t) \/ Flushed(e, t) \/ Cancel(e, t), NEW x \in Ends
  PROVE  Books(x)'
<1>1. TypeOK /\ Books(x) /\ (\A y \in Ends : Books(y))
  BY BooksOfAll DEF IInv
<1>2. /\ got \in [Ends -> Seq(Nat)] /\ hand \in [Ends -> Nat]
      /\ dropped \in [Ends -> SUBSET Nat] /\ pc \in [Ends -> [Tasks -> PC]]
      /\ "reader" \in Tasks
  BY <1>1 DEF TypeOK, Tasks
<1>3. gen' = gen /\ seen' = seen
  BY DEF WritePart, Flushed, Cancel, engine
<1>4. Decrypted(x)' = Decrypted(x) /\ Replies(x)' = Replies(x)
  BY <1>3 DEF Decrypted, Replies
<1>5. Cardinality(Replies(x)) \in Nat
  <2>1. gen[x] \in Seq(Kinds) /\ Len(gen[x]) \in Nat
    BY <1>1, LenProperties DEF TypeOK
  <2>2. IsFiniteSet(1..Len(gen[x])) /\ Replies(x) \subseteq 1..Len(gen[x])
    BY <2>1, FS_Interval DEF Replies
  <2>3. QED
    BY <2>2, FS_Subset, FS_CardinalityType
<1>6. IsFiniteSet(dropped[x]) /\ Cardinality(dropped[x]) \in Nat
  BY <1>1, DroppedFinite
<1>7. ASSUME got'[x] = got[x], hand'[x] = hand[x], dropped'[x] = dropped[x],
             hand[x] # 0 => pc'[x]["reader"] = "flush"
      PROVE  Books(x)'
  BY <1>1, <1>4, <1>7 DEF Books, Rising
<1>8. CASE WritePart(e, t)
  BY <1>1, <1>7, <1>8 DEF WritePart, Books
<1>9. CASE Flushed(e, t)
  <2>1. pc' = [pc EXCEPT ![e][t] = after[e][t]] /\ dropped' = dropped
    BY <1>9 DEF Flushed, GoTo
  <2>2. CASE x = e /\ t = "reader" /\ hand[e] # 0
    <3>1. got' = [got EXCEPT ![e] = Append(got[e], hand[e])] /\ hand' = [hand EXCEPT ![e] = 0]
      BY <1>9, <2>2 DEF Flushed
    <3>2. got'[x] = Append(got[x], hand[x]) /\ hand'[x] = 0 /\ dropped'[x] = dropped[x]
      BY <1>2, <2>1, <2>2, <3>1
    <3>3. /\ Decrypted(x) = ToSet(got[x]) \cup dropped[x] \cup ({hand[x]} \ {0})
          /\ Rising(got[x])
          /\ ToSet(got[x]) \cap (dropped[x] \cup {hand[x]}) = {}
          /\ \A y \in ToSet(got[x]) \cup dropped[x] : y < hand[x]
          /\ Cardinality(dropped[x]) + 1 <= Cardinality(Replies(x))
      BY <1>1, <2>2 DEF Books
    <3>4. hand[x] \in Nat /\ got[x] \in Seq(Nat)
      BY <1>2
    <3>5. ToSet(got'[x]) = ToSet(got[x]) \cup {hand[x]} /\ Rising(got'[x])
      BY <3>2, <3>3, <3>4, Appended
    <3>6. 0 \notin ToSet(got[x]) /\ hand[x] \notin dropped[x]
      <4>1. 0 \notin Decrypted(x)
        BY DEF Decrypted
      <4>2. QED
        BY <3>3, <3>4, <4>1
    <3>7. Decrypted(x)' = ToSet(got'[x]) \cup dropped'[x] \cup ({hand'[x]} \ {0})
      BY <1>4, <2>2, <3>2, <3>3, <3>5
    <3>8. ToSet(got'[x]) \cap (dropped'[x] \cup {hand'[x]}) = {}
      BY <2>2, <3>2, <3>3, <3>5, <3>6
    <3>9. Cardinality(dropped'[x]) + (IF hand'[x] # 0 THEN 1 ELSE 0)
            <= Cardinality(Replies(x)')
      BY <1>4, <1>5, <1>6, <3>2, <3>3
    <3>10. QED
      BY <3>2, <3>5, <3>7, <3>8, <3>9 DEF Books, Rising
  <2>3. CASE ~(x = e /\ t = "reader" /\ hand[e] # 0)
    <3>1. got'[x] = got[x] /\ hand'[x] = hand[x] /\ dropped'[x] = dropped[x]
      BY <1>2, <1>9, <2>1, <2>3 DEF Flushed
    <3>2. hand[x] # 0 => pc'[x]["reader"] = "flush"
      BY <1>1, <1>2, <2>1, <2>3 DEF Books
    <3>3. QED
      BY <1>7, <3>1, <3>2
  <2>4. QED
    BY <2>2, <2>3
<1>10. CASE Cancel(e, t)
  <2>1. pc' = [pc EXCEPT ![e][t] = "idle"] /\ got' = got
    BY <1>10 DEF Cancel, GoTo
  <2>2. CASE x = e /\ t = "reader"
    <3>1. /\ dropped' = [dropped EXCEPT ![e] = dropped[e] \cup ({hand[e]} \ {0})]
          /\ hand' = [hand EXCEPT ![e] = 0]
      BY <1>10, <2>2 DEF Cancel
    <3>2. /\ dropped'[x] = dropped[x] \cup ({hand[x]} \ {0})
          /\ hand'[x] = 0 /\ got'[x] = got[x]
      BY <1>2, <2>1, <2>2, <3>1
    <3>3. /\ Decrypted(x) = ToSet(got[x]) \cup dropped[x] \cup ({hand[x]} \ {0})
          /\ Rising(got[x])
          /\ ToSet(got[x]) \cap (dropped[x] \cup {hand[x]}) = {}
          /\ Cardinality(dropped[x]) + (IF hand[x] # 0 THEN 1 ELSE 0)
               <= Cardinality(Replies(x))
      BY <1>1 DEF Books
    <3>4. 0 \notin ToSet(got[x])
      <4>1. 0 \notin Decrypted(x)
        BY DEF Decrypted
      <4>2. QED
        BY <3>3, <4>1
    <3>5. Decrypted(x)' = ToSet(got'[x]) \cup dropped'[x] \cup ({hand'[x]} \ {0})
      BY <1>4, <3>2, <3>3
    <3>6. ToSet(got'[x]) \cap (dropped'[x] \cup {hand'[x]}) = {}
      BY <3>2, <3>3, <3>4
    <3>7. /\ Cardinality(dropped'[x]) \in Nat
          /\ Cardinality(dropped'[x]) <= Cardinality(Replies(x))
      <4>1. CASE hand[x] = 0
        <5>1. dropped'[x] = dropped[x]
          BY <3>2, <4>1
        <5>2. QED
          BY <1>5, <1>6, <3>3, <4>1, <5>1
      <4>2. CASE hand[x] # 0
        <5>1. dropped'[x] = dropped[x] \cup {hand[x]}
          BY <3>2, <4>2
        <5>2. /\ Cardinality(dropped'[x]) = Cardinality(dropped[x])
              \/ Cardinality(dropped'[x]) = Cardinality(dropped[x]) + 1
          BY <1>6, <5>1, FS_AddElement
        <5>3. QED
          BY <1>5, <1>6, <3>3, <4>2, <5>2
      <4>3. QED
        BY <4>1, <4>2
    <3>8. Cardinality(dropped'[x]) + (IF hand'[x] # 0 THEN 1 ELSE 0)
            <= Cardinality(Replies(x)')
      BY <1>4, <3>2, <3>7
    <3>9. QED
      BY <3>2, <3>3, <3>5, <3>6, <3>8 DEF Books, Rising
  <2>3. CASE ~(x = e /\ t = "reader")
    <3>1. got'[x] = got[x] /\ hand'[x] = hand[x] /\ dropped'[x] = dropped[x]
      BY <1>2, <1>10, <2>1, <2>3 DEF Cancel
    <3>2. hand[x] # 0 => pc'[x]["reader"] = "flush"
      BY <1>1, <1>2, <2>1, <2>3 DEF Books
    <3>3. QED
      BY <1>7, <3>1, <3>2
  <2>4. QED
    BY <2>2, <2>3
<1>11. QED
  BY <1>8, <1>9, <1>10

LEMMA BooksKept ==
  ASSUME IInv, Next
  PROVE  Accounted' /\ InHand'
<1>1. PICK e \in Ends : \/ HandshakeStep(e) \/ ReadStep(e) \/ WriteStep(e)
                        \/ \E t \in Tasks : WritePart(e, t) \/ Flushed(e, t) \/ Cancel(e, t)
  BY Steps
<1>2. \A x \in Ends : Books(x)'
  BY <1>1, BooksOfHandshake, BooksOfRead, BooksOfWrite, BooksOfRest
<1>3. QED
  BY <1>2 DEF Accounted, InHand, Books, Decrypted, Rising
-----------------------------------------------------------------------------
LEMMA InitHolds == Init => IInv
<1> SUFFICES ASSUME Init PROVE IInv
  OBVIOUS
<1>1. /\ flights \in Nat \ {0, 1} /\ flights \in FlightCounts /\ NCancels \in Nat
      /\ "reader" \in Tasks /\ "writer" \in Tasks
  BY CountsAssumption DEF Init, CountsAssumption, Tasks
<1>2. ASSUME NEW e \in Ends
      PROVE  /\ hs[e] = 0 /\ gen[e] = <<>> /\ seen[e] = 0 /\ in[e] = <<>>
             /\ out[e] = <<>> /\ wire[e] = <<>> /\ hand[e] = 0
             /\ got[e] = <<>> /\ dropped[e] = {} /\ ~torn[e] /\ ~mixed[e]
             /\ \A t \in Tasks : /\ pc[e][t] = "unborn" /\ after[e][t] = "idle"
                                 /\ rest[e][t] = <<>>
             /\ Peer(e) \in Ends
  BY <1>2, TwoEnds DEF Init
<1>3. Len(<<>>) = 0 /\ \A S : <<>> \in Seq(S)
  BY EmptySeq
<1>4. TypeOK
  <2>1. "unborn" \in PC /\ "idle" \in PC
    BY DEF PC
  <2>2. 0 \in 0..flights /\ 0 \in 0..NCancels /\ flights \in FlightCounts
    BY <1>1
  <2>3. <<>> \in Seq(Nat \X {1, 2}) /\ <<>> \in Seq(Kinds) /\ <<>> \in Seq(Nat)
    BY <1>3
  <2>4. QED
    BY <2>1, <2>2, <2>3 DEF Init, TypeOK
<1>5. Uncut
  <2>1. Stretch(0, 0) = <<>>
    <3>1. Stretch(0, 0) = [i \in 1..0 |-> Nth(0 + i)]
      BY DEF Stretch
    <3>2. Stretch(0, 0) \in Seq(Pieces) /\ Len(Stretch(0, 0)) = 0
      BY StretchIsSeq
    <3>3. QED
      BY <3>2, EmptySeq
  <2>2. Cuts(<<>>, <<>>, <<>>, <<>>, <<>>, 0, 0)
    <3>1. /\ 0 \in Nat /\ 0 <= 0
      OBVIOUS
    <3>2. QED
      BY <2>1, <3>1 DEF Cuts
  <2>3. QED
    BY <1>1, <1>2, <1>3, <2>2 DEF Uncut
<1>6. Known
  BY <1>1, <1>2, <1>3 DEF Known, UpTo
<1>7. Writers
  BY <1>1, <1>2 DEF Writers, Damaged
<1>8. Flights
  <2>1. \A e \in Ends : Own(e, 0) = 0
    BY DEF Own
  <2>2. QED
    BY <1>1, <1>2, <1>3, <2>1 DEF Flights, Greeting
<1>9. Accounted /\ InHand
  <2>1. ToSet(<<>>) = {}
    BY DEF ToSet
  <2>2. ASSUME NEW e \in Ends PROVE Replies(e) = {}
    BY <1>2, <1>3 DEF Replies
  <2>3. Cardinality({}) = 0
    BY FS_EmptySet
  <2>4. InHand
    <3>1. ASSUME NEW e \in Ends
          PROVE  /\ hand[e] = 0 /\ Cardinality(dropped[e]) = 0
                 /\ Cardinality(Replies(e)) = 0
      BY <1>2, <2>2, <2>3
    <3>2. 0 + 0 <= 0
      OBVIOUS
    <3>3. QED
      BY <3>1, <3>2 DEF InHand
  <2>5. Accounted
    BY <1>2, <1>3, <2>1 DEF Accounted
  <2>6. QED
    BY <2>4, <2>5
<1>10. QED
  BY <1>4, <1>5, <1>6, <1>7, <1>8, <1>9 DEF IInv

LEMMA StepHolds == IInv /\ [Next]_vars => IInv'
<1>1. ASSUME IInv, Next PROVE IInv'
  BY <1>1, TypesKept, StreamKept, FlightsKept, BooksKept DEF IInv
<1>2. ASSUME IInv, UNCHANGED vars PROVE IInv'
  <2>1. /\ UNCHANGED <<flights, short, pc, after, hs, gen, seen, in, out, rest, wire>>
        /\ UNCHANGED <<hand, wrote, got, dropped, torn, mixed, cancels>>
    BY <1>2 DEF vars
  <2>2. TypeOK' /\ Known' /\ Writers'
    BY <1>2, <2>1 DEF IInv, TypeOK, Known, Writers, UpTo, Damaged
  <2>3. Uncut'
    BY <1>2, <2>1 DEF IInv, Uncut, Damaged
  <2>4. Flights'
    BY <1>2, <2>1 DEF IInv, Flights, Greeting
  <2>5. InHand' /\ Accounted'
    BY <1>2, <2>1 DEF IInv, InHand, Accounted, Replies
  <2>6. QED
    BY <2>2, <2>3, <2>4, <2>5 DEF IInv
<1>3. QED
  BY <1>1, <1>2

(* The engines, the two tasks of each end, cancelled calls and a layer     *)
(* below that takes writes in parts, whatever the bounds are: what is on   *)
(* the way is cut from one stream, and every record read is accounted for. *)
THEOREM SslInvariance == Spec => []IInv
<1>1. QED
  BY InitHolds, StepHolds, PTL DEF Spec

(* Unless a write was cancelled or met another one, over a layer that      *)
(* takes writes in parts, what is under way from an end is the records its *)
(* peer has not taken, whole and in order (_do_want_read, _do_want_write). *)
THEOREM StreamStaysIntact == Spec => []StreamIntact
<1>1. ASSUME IInv PROVE StreamIntact
  <2>1. TypeOK /\ Uncut /\ Known /\ Writers
    BY <1>1 DEF IInv
  <2>2. ASSUME NEW e \in Ends
        PROVE  /\ Damaged(e) => short
               /\ ~Damaged(e) =>
                    in[Peer(e)] \o wire[e] \o rest[e]["reader"] \o rest[e]["writer"] \o out[e]
                      = Stream(seen[Peer(e)], Len(gen[e]))
    <3>1. Damaged(e) => short
      BY <2>1 DEF Writers
    <3>2. ASSUME ~Damaged(e)
          PROVE  in[Peer(e)] \o wire[e] \o rest[e]["reader"] \o rest[e]["writer"] \o out[e]
                   = Stream(seen[Peer(e)], Len(gen[e]))
      <4>1. Cuts(in[Peer(e)], wire[e], rest[e]["reader"], rest[e]["writer"], out[e],
                 2 * seen[Peer(e)], 2 * Len(gen[e]))
        BY <2>1, <3>2 DEF Uncut
      <4>2. PICK m \in Nat, n \in Nat :
              m = seen[Peer(e)] /\ n = Len(gen[e]) /\ m <= n
        BY <2>1, TwoEnds, LenProperties DEF TypeOK, Known
      <4>3. PICK x \in Nat, y \in Nat : x = 2 * m /\ y = 2 * n
        BY <4>2
      <4>4. Cuts(in[Peer(e)], wire[e], rest[e]["reader"], rest[e]["writer"], out[e], x, y)
        BY <4>1, <4>2, <4>3
      <4>5. in[Peer(e)] \o wire[e] \o rest[e]["reader"] \o rest[e]["writer"] \o out[e]
              = Stretch(x, y)
        <5>1. PICK i, w, r, v, o :
                /\ i = in[Peer(e)] /\ w = wire[e] /\ r = rest[e]["reader"]
                /\ v = rest[e]["writer"] /\ o = out[e]
          OBVIOUS
        <5>2. Cuts(i, w, r, v, o, x, y)
          BY <4>4, <5>1
        <5>3. i \o w \o r \o v \o o = Stretch(x, y)
          BY <5>2, CutsAreStream
        <5>4. QED
          BY <5>1, <5>3, Zenon
      <4>6. Stream(m, n) = Stretch(2 * m, 2 * n)
        BY <4>2, StreamIsStretch
      <4>7. QED
        BY <4>2, <4>3, <4>5, <4>6
    <3>3. QED
      BY <3>1, <3>2
  <2>3. QED
    BY <2>1, <2>2 DEF StreamIntact
<1>2. QED
  BY <1>1, SslInvariance, PTL

(* Every record with data that the engine decrypted is returned by read(), *)
(* once and in order, or held by a read that flushes a reply first, or     *)
(* went with such a read: no other cancelled read loses any.               *)
THEOREM ReadsStayAccounted == Spec => []ReadsAccounted
<1>1. ASSUME IInv PROVE ReadsAccounted
  <2>1. TypeOK /\ Accounted /\ InHand
    BY <1>1 DEF IInv
  <2>2. ASSUME NEW e \in Ends
        PROVE  Cardinality(dropped[e]) <= Cardinality({n \in 1..Len(gen[e]) : gen[e][n] = "reply"})
    <3>1. Books(e)
      BY <2>1, BooksOfAll
    <3>2. Cardinality(dropped[e]) \in Nat
      BY <2>1, <3>1, DroppedFinite
    <3>3. Cardinality(Replies(e)) \in Nat
      <4>1. Len(gen[e]) \in Nat
        BY <2>1, LenProperties DEF TypeOK
      <4>2. IsFiniteSet(1..Len(gen[e])) /\ Replies(e) \subseteq 1..Len(gen[e])
        BY <4>1, FS_Interval DEF Replies
      <4>3. QED
        BY <4>2, FS_Subset, FS_CardinalityType
    <3>4. Cardinality(dropped[e]) <= Cardinality(Replies(e))
      BY <3>1, <3>2, <3>3 DEF Books
    <3>5. QED
      BY <3>4 DEF Replies
  <2>3. QED
    BY <2>1, <2>2 DEF Accounted, ReadsAccounted
<1>2. QED
  BY <1>1, SslInvariance, PTL
=============================================================================
