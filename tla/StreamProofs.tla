---------------------------- MODULE StreamProofs ----------------------------
(***************************************************************************)
(* Proofs about byte streams and what is cut out of them, in two parts.    *)
(*                                                                         *)
(* First, the safety properties of module ReadUntil hold for any alphabet, *)
(* any stream, any delimiters and any sizes.  Together they are not        *)
(* inductive: IInv adds that the delimiter of a search is not empty, that  *)
(* _data is empty while a read or a read_exactly waits for the socket, and *)
(* that what a read_exactly has gathered is the last that left the stream. *)
(*                                                                         *)
(* Second, the safety properties of module HttpStream hold for any bytes,  *)
(* bodies, headers and numbers of messages and chunks.  What has left the  *)
(* stream leaves no trace in its state, so HttpInv says that there is a    *)
(* sequence of all the symbols ever sent, of which wire is what is left,   *)
(* and a set of marks, where the chunks of the messages begin in it; that  *)
(* every message of log, and every chunk a mark stands before, is laid out *)
(* in it as its sender meant or broken where the sender broke off; and     *)
(* that the receiver is at the beginning of a message, behind its head, at *)
(* a mark, in a chunk or behind one, with what came before in its hands.   *)
(***************************************************************************)
EXTENDS MCHttpStream, SequenceTheorems, WellFoundedInduction, TLAPS

Types == /\ input \in Seq(Bytes) /\ taken \in Seq(Bytes) /\ delim \in Seq(Bytes)
         /\ limit \in Int

Joined(s, t, u) == s \o t \o u

Whole == input = Joined(taken, data, src)

Searching == pc = "until" => delim \in Delimiters

Drained == pc \in {"read", "exact"} => data = <<>>

Gathering == pc = "exact" =>
  /\ Len(part) < limit /\ Len(part) <= Len(taken)
  /\ part = SubSeq(input, Len(taken) - Len(part) + 1, Len(taken))

IInv == /\ TypeOK
        /\ Types
        /\ Whole
        /\ Searching
        /\ Drained
        /\ Gathering
        /\ WaitsForReason
        /\ ShortestPrefix
        /\ ExactIsExact

-----------------------------------------------------------------------------
(* What First and Rest return.                                             *)
LEMMA Halves ==
  ASSUME NEW S, NEW s \in Seq(S), NEW n \in 0..Len(s)
  PROVE  /\ First(s, n) \in Seq(S) /\ Rest(s, n) \in Seq(S)
         /\ Len(First(s, n)) = n /\ Len(Rest(s, n)) = Len(s) - n
         /\ \A i \in 1..n : First(s, n)[i] = s[i]
         /\ \A i \in 1..(Len(s) - n) : Rest(s, n)[i] = s[n + i]
         /\ First(s, n) \o Rest(s, n) = s
<1>1. Len(s) \in Nat /\ \A i \in 1..Len(s) : s[i] \in S
  BY LenProperties, ElementOfSeq
<1>2. /\ First(s, n) \in Seq(S)
      /\ Len(First(s, n)) = n
      /\ \A i \in 1..n : First(s, n)[i] = s[i]
  BY <1>1, SubSeqProperties DEF First
<1>3. /\ Rest(s, n) \in Seq(S)
      /\ Len(Rest(s, n)) = Len(s) - n
      /\ \A i \in 1..(Len(s) - n) : Rest(s, n)[i] = s[n + i]
  <2>1. \A i \in (n + 1)..Len(s) : s[i] \in S
    BY <1>1
  <2>2. /\ SubSeq(s, n + 1, Len(s)) \in Seq(S)
        /\ Len(SubSeq(s, n + 1, Len(s)))
             = IF n + 1 <= Len(s) THEN Len(s) - (n + 1) + 1 ELSE 0
        /\ \A i \in 1..(Len(s) - (n + 1) + 1) :
             SubSeq(s, n + 1, Len(s))[i] = s[n + 1 + i - 1]
    BY <1>1, <2>1, SubSeqProperties
  <2>3. QED
    BY <1>1, <2>2 DEF Rest
<1>4. First(s, n) \o Rest(s, n) = SubSeq(s, 1, Len(s))
  <2>1. /\ 1 \in 1..(Len(s) + 1) /\ n \in (1 - 1)..Len(s)
        /\ Len(s) \in n..Len(s)
    BY <1>1
  <2>2. QED
    BY <2>1, ConcatAdjacentSubSeq, Zenon DEF First, Rest
<1>5. QED
  BY <1>2, <1>3, <1>4, SubSeqFull

(* Concatenation, as an operator of which only these facts are used.       *)
Cat(s, t) == s \o t

LEMMA CatIsSeq ==
  ASSUME NEW S, NEW a \in Seq(S), NEW b \in Seq(S)
  PROVE  Cat(a, b) \in Seq(S)
BY ConcatProperties DEF Cat

LEMMA Associative ==
  ASSUME NEW S, NEW a \in Seq(S), NEW b \in Seq(S), NEW c \in Seq(S)
  PROVE  Cat(Cat(a, b), c) = Cat(a, Cat(b, c))
BY ConcatAssociative DEF Cat

LEMMA Regroup ==
  ASSUME NEW S, NEW a \in Seq(S), NEW b \in Seq(S), NEW c \in Seq(S),
         NEW d \in Seq(S)
  PROVE  Cat(Cat(a, Cat(b, c)), d) = Cat(Cat(a, b), Cat(c, d))
<1>1. Cat(a, b) \in Seq(S)
  BY CatIsSeq
<1>2. Cat(Cat(a, b), c) = Cat(a, Cat(b, c))
  BY Associative
<1>3. Cat(Cat(Cat(a, b), c), d) = Cat(Cat(a, b), Cat(c, d))
  BY <1>1, Associative
<1>4. QED
  BY <1>2, <1>3

(* A piece moves from the front of the middle to the end of the left.      *)
LEMMA MovesLeft ==
  ASSUME NEW S, NEW s \in Seq(S), NEW t \in Seq(S), NEW u \in Seq(S),
         NEW n \in 0..Len(t)
  PROVE  Joined(s \o First(t, n), Rest(t, n), u) = Joined(s, t, u)
<1>1. First(t, n) \in Seq(S) /\ Rest(t, n) \in Seq(S)
  BY Halves
<1>2. First(t, n) \o Rest(t, n) = t
  BY Halves
<1>3. Cat(Cat(s, First(t, n)), Rest(t, n)) = Cat(s, Cat(First(t, n), Rest(t, n)))
  BY <1>1, Associative
<1>4. QED
  BY <1>2, <1>3 DEF Joined, Cat

(* A piece moves from the front of the right to the end of the middle.     *)
LEMMA Arrives ==
  ASSUME NEW S, NEW s \in Seq(S), NEW t \in Seq(S), NEW u \in Seq(S),
         NEW n \in 0..Len(u)
  PROVE  Joined(s, t \o First(u, n), Rest(u, n)) = Joined(s, t, u)
<1>1. First(u, n) \in Seq(S) /\ Rest(u, n) \in Seq(S)
  BY Halves
<1>2. First(u, n) \o Rest(u, n) = u
  BY Halves
<1>3. Cat(Cat(s, Cat(t, First(u, n))), Rest(u, n))
        = Cat(Cat(s, t), Cat(First(u, n), Rest(u, n)))
  BY <1>1, Regroup
<1>4. QED
  BY <1>2, <1>3 DEF Joined, Cat

(* The same when nothing is in the middle.                                 *)
LEMMA PassesThrough ==
  ASSUME NEW S, NEW s \in Seq(S), NEW u \in Seq(S), NEW n \in 0..Len(u)
  PROVE  Joined(s \o First(u, n), <<>>, Rest(u, n)) = Joined(s, <<>>, u)
<1>1. First(u, n) \in Seq(S) /\ Rest(u, n) \in Seq(S)
  BY Halves
<1>2. First(u, n) \o Rest(u, n) = u
  BY Halves
<1>3. Cat(Cat(s, First(u, n)), Rest(u, n)) = Cat(s, Cat(First(u, n), Rest(u, n)))
  BY <1>1, Associative
<1>4. s \o First(u, n) \in Seq(S)
  BY <1>1, ConcatProperties
<1>5. (s \o First(u, n)) \o <<>> = s \o First(u, n) /\ s \o <<>> = s
  BY <1>4, ConcatEmptySeq
<1>6. QED
  BY <1>2, <1>3, <1>5 DEF Joined, Cat

(* Where the end of a sequence is in a longer one.                         *)
LEMMA Stretch ==
  ASSUME NEW S, NEW s \in Seq(S), NEW t \in Seq(S), NEW u \in Seq(S)
  PROVE  SubSeq(s \o t \o u, Len(s) + 1, Len(s) + Len(t)) = t
<1> DEFINE w == s \o t \o u
           m == SubSeq(w, Len(s) + 1, Len(s) + Len(t))
<1>1. /\ Len(s) \in Nat /\ Len(t) \in Nat /\ Len(u) \in Nat
      /\ s \o t \in Seq(S) /\ Len(s \o t) = Len(s) + Len(t)
      /\ \A i \in 1..(Len(s) + Len(t)) :
           (s \o t)[i] = IF i <= Len(s) THEN s[i] ELSE t[i - Len(s)]
  BY ConcatProperties, LenProperties
<1>2. /\ w \in Seq(S) /\ Len(w) = Len(s) + Len(t) + Len(u)
      /\ \A i \in 1..(Len(s) + Len(t)) : w[i] = (s \o t)[i]
  BY <1>1, ConcatProperties
<1>3. \A i \in 1..Len(w) : w[i] \in S
  BY <1>2, ElementOfSeq
<1> HIDE DEF w
<1>4. /\ m \in Seq(S) /\ Len(m) = Len(t)
      /\ \A i \in 1..Len(t) : m[i] = w[Len(s) + i]
  <2>1. \A i \in (Len(s) + 1)..(Len(s) + Len(t)) : w[i] \in S
    BY <1>1, <1>2, <1>3
  <2>2. /\ m \in Seq(S)
        /\ Len(m) = IF Len(s) + 1 <= Len(s) + Len(t)
                    THEN Len(s) + Len(t) - (Len(s) + 1) + 1 ELSE 0
        /\ \A i \in 1..(Len(s) + Len(t) - (Len(s) + 1) + 1) :
             m[i] = w[Len(s) + 1 + i - 1]
    BY <1>1, <2>1, SubSeqProperties
  <2> HIDE DEF m
  <2>3. QED
    BY <1>1, <2>2
<1> HIDE DEF m
<1>5. ASSUME NEW i \in 1..Len(t)
      PROVE  m[i] = t[i]
  <2>1. /\ Len(s) + i \in 1..(Len(s) + Len(t))
        /\ ~(Len(s) + i <= Len(s)) /\ Len(s) + i - Len(s) = i
    BY <1>1
  <2>2. m[i] = w[Len(s) + i] /\ w[Len(s) + i] = (s \o t)[Len(s) + i]
    BY <1>2, <1>4, <2>1
  <2>3. (s \o t)[Len(s) + i] = t[Len(s) + i - Len(s)]
    BY <1>1, <2>1
  <2>4. QED
    BY <2>1, <2>2, <2>3
<1>6. m = t
  BY <1>4, <1>5, SeqEqual
<1>7. QED
  BY <1>6 DEF m, w

(* The same when the right is in two parts.                                *)
LEMMA LastOfLeft ==
  ASSUME NEW S, NEW s \in Seq(S), NEW t \in Seq(S), NEW u \in Seq(S), NEW v \in Seq(S)
  PROVE  SubSeq(Joined(s \o t, u, v), Len(s) + 1, Len(s) + Len(t)) = t
<1> DEFINE w == s \o t
<1>1. w \in Seq(S) /\ u \o v \in Seq(S)
  BY ConcatProperties
<1>2. SubSeq(w \o (u \o v), Len(s) + 1, Len(s) + Len(t)) = t
  BY <1>1, Stretch
<1> HIDE DEF w
<1>3. Cat(Cat(w, u), v) = Cat(w, Cat(u, v))
  BY <1>1, Associative
<1>4. QED
  BY <1>2, <1>3 DEF Joined, Cat, w

LEMMA JoinedLen ==
  ASSUME NEW S, NEW s \in Seq(S), NEW t \in Seq(S), NEW u \in Seq(S)
  PROVE  Len(Joined(s, t, u)) = Len(s) + Len(t) + Len(u)
<1>1. s \o t \in Seq(S) /\ Len(s \o t) = Len(s) + Len(t)
  BY ConcatProperties
<1>2. QED
  BY <1>1, ConcatProperties DEF Joined

-----------------------------------------------------------------------------
(* A set of natural numbers has a smallest one.                            *)
LEMMA MinIn ==
  ASSUME NEW T, \A x \in T : x \in Nat, T # {}
  PROVE  Min(T) \in T /\ \A y \in T : Min(T) <= y
<1>1. PICK m \in T : \A y \in T : <<y, m>> \notin OpToRel(<, Nat)
  BY NatLessThanWellFounded, WFMin
<1>2. \A y \in T : m <= y
  <2>1. ASSUME NEW y \in T, y < m
        PROVE  <<y, m>> \in OpToRel(<, Nat)
    <3>1. <<y, m>> \in Nat \X Nat /\ <<y, m>>[1] < <<y, m>>[2]
      BY <2>1
    <3>2. QED
      BY <3>1, Zenon DEF OpToRel
  <2>2. \A y \in T : ~(y < m)
    BY <1>1, <2>1, Zenon
  <2>3. QED
    BY <2>2
<1>3. QED
  BY <1>2 DEF Min

(* d stands in s after the first i.                                        *)
At(s, d, i) == SubSeq(s, i + 1, i + Len(d)) = d

(* What Find finds.                                                        *)
LEMMA FindIs ==
  ASSUME NEW S, NEW s \in Seq(S), NEW d \in Seq(S), NEW from \in Nat
  PROVE  \/ /\ Find(s, d, from) = -1
            /\ \A i \in from..(Len(s) - Len(d)) : ~At(s, d, i)
         \/ /\ Find(s, d, from) \in from..(Len(s) - Len(d))
            /\ At(s, d, Find(s, d, from))
            /\ \A i \in from..(Len(s) - Len(d)) : At(s, d, i) => Find(s, d, from) <= i
<1> DEFINE at == {i \in from..(Len(s) - Len(d)) : SubSeq(s, i + 1, i + Len(d)) = d}
<1>1. Find(s, d, from) = IF at = {} THEN -1 ELSE Min(at)
  BY DEF Find
<1>2. \A x \in at : x \in Nat
  <2>1. Len(s) \in Nat /\ Len(d) \in Nat
    BY LenProperties
  <2>2. QED
    BY <2>1
<1>3. CASE at = {}
  BY <1>1, <1>3 DEF At
<1>4. CASE at # {}
  <2>1. Min(at) \in at /\ \A y \in at : Min(at) <= y
    <3> HIDE DEF at
    <3>1. QED
      BY <1>2, <1>4, MinIn
  <2>2. QED
    BY <1>1, <1>4, <2>1 DEF At
<1>5. QED
  BY <1>3, <1>4

(* Whether d stands at i is decided by what is before its end.             *)
LEMMA AtInside ==
  ASSUME NEW S, NEW s \in Seq(S), NEW t \in Seq(S), NEW d \in Seq(S),
         NEW i \in Nat, i + Len(d) <= Len(s)
  PROVE  At(s \o t, d, i) <=> At(s, d, i)
<1>1. Len(s) \in Nat /\ Len(d) \in Nat
  BY LenProperties
<1>2. CASE Len(d) = 0
  <2>1. SubSeq(s \o t, i + 1, i + Len(d)) = <<>> /\ SubSeq(s, i + 1, i + Len(d)) = <<>>
    BY <1>1, <1>2, SubSeqEmpty
  <2>2. QED
    BY <2>1 DEF At
<1>3. CASE Len(d) # 0
  <2>1. i + 1 \in 1..Len(s) /\ i + Len(d) \in 1..Len(s)
    BY <1>1, <1>3
  <2>2. SubSeq(s \o t, i + 1, i + Len(d)) = SubSeq(s, i + 1, i + Len(d))
    BY <2>1, SubSeqOfConcat1
  <2>3. QED
    BY <2>2 DEF At
<1>4. QED
  BY <1>2, <1>3

(* Search need not look at all of the buffer: what it leaves out was       *)
(* looked at before, and a delimiter that straddles the pieces is in what  *)
(* it looks at.                                                            *)
LEMMA SearchIsFind ==
  ASSUME NEW S, NEW s \in Seq(S), NEW t \in Seq(S), NEW d \in Seq(S),
         Find(s, d, 0) < 0
  PROVE  Search(s \o t, d, Len(s)) = Find(s \o t, d, 0)
<1> DEFINE b == s \o t
           from == IF Len(s) > Len(d) THEN Len(s) - Len(d) ELSE 0
<1>1. Len(s) \in Nat /\ Len(d) \in Nat /\ Len(t) \in Nat
  BY LenProperties
<1>2. b \in Seq(S) /\ Len(b) = Len(s) + Len(t)
  BY ConcatProperties
<1>3. from \in Nat
  BY <1>1
<1>4. ASSUME NEW i \in 0..(from - 1)
      PROVE  ~At(b, d, i)
  <2>1. i \in Nat /\ i + Len(d) <= Len(s) /\ i \in 0..(Len(s) - Len(d))
    BY <1>1
  <2>2. ~At(s, d, i)
    <3>1. 0 \in Nat
      OBVIOUS
    <3>2. \/ \A j \in 0..(Len(s) - Len(d)) : ~At(s, d, j)
          \/ Find(s, d, 0) \in 0..(Len(s) - Len(d))
      BY <3>1, FindIs
    <3>3. QED
      BY <1>1, <2>1, <3>2
  <2>3. QED
    BY <2>1, <2>2, AtInside
<1> HIDE DEF b, from
<1>5. /\ \/ /\ Find(b, d, 0) = -1
            /\ \A i \in 0..(Len(b) - Len(d)) : ~At(b, d, i)
         \/ /\ Find(b, d, 0) \in 0..(Len(b) - Len(d))
            /\ At(b, d, Find(b, d, 0))
            /\ \A i \in 0..(Len(b) - Len(d)) : At(b, d, i) => Find(b, d, 0) <= i
      /\ \/ /\ Find(b, d, from) = -1
            /\ \A i \in from..(Len(b) - Len(d)) : ~At(b, d, i)
         \/ /\ Find(b, d, from) \in from..(Len(b) - Len(d))
            /\ At(b, d, Find(b, d, from))
            /\ \A i \in from..(Len(b) - Len(d)) : At(b, d, i) => Find(b, d, from) <= i
  <2>1. 0 \in Nat
    OBVIOUS
  <2>2. QED
    BY <1>2, <1>3, <2>1, FindIs
<1>6. Find(b, d, from) = Find(b, d, 0)
  BY <1>1, <1>2, <1>3, <1>4, <1>5
<1>7. QED
  BY <1>6 DEF Search, b, from

(* The first occurrence is the first one of what ends with it, too.        *)
LEMMA FirstIsShortest ==
  ASSUME NEW S, NEW s \in Seq(S), NEW d \in Seq(S), Find(s, d, 0) >= 0
  PROVE  /\ Find(s, d, 0) \in Nat
         /\ Find(s, d, 0) + Len(d) \in 0..Len(s)
         /\ Find(First(s, Find(s, d, 0) + Len(d)), d, 0) = Find(s, d, 0)
<1> DEFINE f == Find(s, d, 0)
           p == First(s, f + Len(d))
           r == Rest(s, f + Len(d))
<1>1. Len(s) \in Nat /\ Len(d) \in Nat /\ 0 \in Nat
  BY LenProperties
<1>2. /\ f \in 0..(Len(s) - Len(d))
      /\ At(s, d, f)
      /\ \A i \in 0..(Len(s) - Len(d)) : At(s, d, i) => f <= i
  <2>1. f # -1
    OBVIOUS
  <2>2. QED
    BY <1>1, <2>1, FindIs
<1>3. f \in Nat /\ f + Len(d) \in 0..Len(s)
  BY <1>1, <1>2
<1> HIDE DEF f
<1>4. p \in Seq(S) /\ r \in Seq(S) /\ Len(p) = f + Len(d) /\ p \o r = s
  BY <1>3, Halves
<1> HIDE DEF p, r
<1>5. \A i \in 0..f : At(p, d, i) <=> At(s, d, i)
  <2>1. ASSUME NEW i \in 0..f
        PROVE  At(p \o r, d, i) <=> At(p, d, i)
    <3>1. i \in Nat /\ i + Len(d) <= Len(p)
      BY <1>1, <1>3, <1>4
    <3>2. QED
      BY <1>4, <3>1, AtInside
  <2>2. QED
    BY <1>4, <2>1
<1>6. \/ /\ Find(p, d, 0) = -1
         /\ \A i \in 0..(Len(p) - Len(d)) : ~At(p, d, i)
      \/ /\ Find(p, d, 0) \in 0..(Len(p) - Len(d))
         /\ At(p, d, Find(p, d, 0))
         /\ \A i \in 0..(Len(p) - Len(d)) : At(p, d, i) => Find(p, d, 0) <= i
  BY <1>1, <1>4, FindIs
<1>7. Len(p) - Len(d) = f
  BY <1>1, <1>3, <1>4
<1>8. Find(p, d, 0) = f
  BY <1>1, <1>2, <1>3, <1>5, <1>6, <1>7
<1>9. QED
  BY <1>3, <1>8 DEF f, p
-----------------------------------------------------------------------------
(* What read_until returns, and what it leaves.                            *)
LEMMA Delivers ==
  ASSUME NEW buf \in Seq(Bytes), NEW d \in Seq(Bytes), NEW u \in Seq(Bytes),
         taken \in Seq(Bytes),
         Find(buf, d, 0) >= 0, Deliver(buf, d, Find(buf, d, 0)), delim' = d
  PROVE  /\ data' \in Seq(Bytes) /\ taken' \in Seq(Bytes)
         /\ Joined(taken', data', u) = Joined(taken, buf, u)
         /\ pc' = "idle" /\ part' = <<>> /\ result'.kind = "until"
         /\ ShortestPrefix'
<1> DEFINE n == Find(buf, d, 0) + Len(d)
<1>1. /\ n \in 0..Len(buf)
      /\ Find(First(buf, n), d, 0) = Find(buf, d, 0)
      /\ Find(buf, d, 0) \in Nat
  BY FirstIsShortest
<1>2. /\ data' = Rest(buf, n)
      /\ taken' = taken \o First(buf, n)
      /\ pc' = "idle" /\ part' = <<>>
      /\ result' = [kind |-> "until", value |-> First(buf, n), delim |-> d]
  BY DEF Deliver, Idle
<1>3. Len(d) \in Nat
  BY LenProperties
<1>4. n - Len(d) = Find(buf, d, 0)
  BY <1>1, <1>3
<1> HIDE DEF n
<1>5. /\ First(buf, n) \in Seq(Bytes) /\ Rest(buf, n) \in Seq(Bytes)
      /\ Len(First(buf, n)) = n
  BY <1>1, Halves
<1>6. taken' \in Seq(Bytes)
  BY <1>2, <1>5, ConcatProperties
<1>7. Joined(taken', data', u) = Joined(taken, buf, u)
  BY <1>1, <1>2, MovesLeft
<1>8. ShortestPrefix'
  BY <1>1, <1>2, <1>4, <1>5 DEF ShortestPrefix
<1>9. QED
  BY <1>2, <1>5, <1>6, <1>7, <1>8

(* A call ends and returns nothing.                                        *)
LEMMA Raises ==
  ASSUME NEW kind, kind \notin {"until", "exact"}, Idle(kind, <<>>),
         IInv, UNCHANGED <<input, data, taken, src>>,
         delim' \in Seq(Bytes), limit' \in Int
  PROVE  IInv'
<1>1. /\ pc' = "idle" /\ part' = <<>> /\ result'.kind = kind
      /\ <<>> \in Seq(Bytes)
  BY DEF Idle
<1>2. TypeOK' /\ Types' /\ Whole'
  BY <1>1 DEF IInv, TypeOK, Types, Whole
<1>3. QED
  BY <1>1, <1>2 DEF IInv, Searching, Drained, Gathering, WaitsForReason,
     ShortestPrefix, ExactIsExact

LEMMA UntilCallKeeps ==
  ASSUME IInv, NEW d \in Delimiters, NEW m \in Limits, UntilCall(d, m)
  PROVE  IInv'
<1>1. /\ d \in Seq(Bytes) /\ m \in Int
      /\ pc = "idle" /\ delim' = d /\ limit' = m
      /\ UNCHANGED <<input, src>>
  BY DelimitersAssumption, SizesAssumption DEF UntilCall
<1>2. /\ TypeOK /\ Types /\ Whole
  BY DEF IInv
<1>3. CASE Find(data, d, 0) >= 0 /\ Deliver(data, d, Find(data, d, 0))
  <2>1. /\ data' \in Seq(Bytes) /\ taken' \in Seq(Bytes)
        /\ Joined(taken', data', src) = Joined(taken, data, src)
        /\ pc' = "idle" /\ part' = <<>> /\ result'.kind = "until"
        /\ ShortestPrefix'
    BY <1>1, <1>2, <1>3, Delivers DEF TypeOK, Types
  <2>2. TypeOK' /\ Types' /\ Whole'
    BY <1>1, <1>2, <2>1 DEF TypeOK, Types, Whole
  <2>3. QED
    BY <2>1, <2>2 DEF IInv, Searching, Drained, Gathering, WaitsForReason,
       ExactIsExact
<1>4. CASE Idle("bad", <<>>) /\ UNCHANGED <<data, taken>>
  BY <1>1, <1>4, Raises
<1>5. CASE /\ Find(data, d, 0) < 0
           /\ m < 0 \/ Len(data) <= m
           /\ pc' = "until"
           /\ UNCHANGED <<data, taken, part, result>>
  <2>1. TypeOK' /\ Types' /\ Whole'
    BY <1>1, <1>2, <1>5 DEF TypeOK, Types, Whole
  <2>2. Searching' /\ Drained' /\ Gathering' /\ ExactIsExact'
    BY <1>1, <1>5 DEF Searching, Drained, Gathering, ExactIsExact
  <2>3. WaitsForReason'
    BY <1>1, <1>5 DEF WaitsForReason
  <2>4. ShortestPrefix'
    BY <1>5 DEF IInv, ShortestPrefix
  <2>5. QED
    BY <2>1, <2>2, <2>3, <2>4 DEF IInv
<1>6. QED
  BY <1>3, <1>4, <1>5 DEF UntilCall

LEMMA UntilMoreKeeps ==
  ASSUME IInv, NEW n, UntilMore(n)
  PROVE  IInv'
<1> DEFINE buf == data \o First(src, n)
           end_pos == Search(buf, delim, Len(data))
<1>1. /\ pc = "until" /\ MayRead(n)
      /\ src' = Rest(src, n)
      /\ UNCHANGED <<delim, input, limit>>
  BY DEF UntilMore
<1>2. /\ TypeOK /\ Types /\ Whole /\ Searching /\ WaitsForReason
  BY DEF IInv
<1>3. /\ src \in Seq(Bytes) /\ data \in Seq(Bytes) /\ delim \in Seq(Bytes)
      /\ taken \in Seq(Bytes) /\ limit \in Int
      /\ Len(src) \in Nat /\ Len(data) \in Nat
  BY <1>2, LenProperties DEF TypeOK, Types
<1>4. n \in 1..Len(src) /\ n \in 0..Len(src) /\ (limit < 0 \/ n <= limit - Len(data))
  BY <1>1, <1>3 DEF MayRead
<1>5. /\ First(src, n) \in Seq(Bytes) /\ Len(First(src, n)) = n
      /\ Rest(src, n) \in Seq(Bytes)
  BY <1>3, <1>4, Halves
<1>6. /\ buf \in Seq(Bytes) /\ Len(buf) = Len(data) + n
  BY <1>3, <1>5, ConcatProperties
<1>7. Joined(taken, buf, src') = input
  BY <1>1, <1>2, <1>3, <1>4, Arrives DEF Whole
<1>8. end_pos = Find(buf, delim, 0)
  <2>1. Find(data, delim, 0) < 0
    BY <1>1, <1>2 DEF WaitsForReason
  <2>2. QED
    BY <1>3, <1>5, <2>1, SearchIsFind
<1>9. CASE end_pos >= 0 /\ Deliver(buf, delim, end_pos)
  <2> HIDE DEF buf
  <2>1. /\ data' \in Seq(Bytes) /\ taken' \in Seq(Bytes)
        /\ Joined(taken', data', src') = Joined(taken, buf, src')
        /\ pc' = "idle" /\ part' = <<>> /\ result'.kind = "until"
        /\ ShortestPrefix'
    <3> HIDE DEF end_pos
    <3>1. delim' = delim /\ src' \in Seq(Bytes)
      BY <1>1, <1>5
    <3>2. Find(buf, delim, 0) >= 0 /\ Deliver(buf, delim, Find(buf, delim, 0))
      BY <1>8, <1>9
    <3>3. QED
      BY <1>3, <1>6, <3>1, <3>2, Delivers
  <2>2. TypeOK' /\ Types' /\ Whole'
    BY <1>1, <1>2, <1>5, <1>7, <2>1 DEF TypeOK, Types, Whole
  <2>3. QED
    BY <2>1, <2>2 DEF IInv, Searching, Drained, Gathering, WaitsForReason,
       ExactIsExact
<1>10. CASE end_pos < 0 /\ data' = buf /\ UNCHANGED <<taken, pc, part, result>>
  <2> HIDE DEF buf, end_pos
  <2>1. TypeOK' /\ Types' /\ Whole'
    BY <1>1, <1>2, <1>5, <1>6, <1>7, <1>10 DEF TypeOK, Types, Whole
  <2>2. Searching' /\ Drained' /\ Gathering' /\ ExactIsExact'
    BY <1>1, <1>2, <1>10 DEF Searching, Drained, Gathering, ExactIsExact
  <2>3. WaitsForReason'
    BY <1>1, <1>3, <1>4, <1>6, <1>8, <1>10 DEF WaitsForReason
  <2>4. ShortestPrefix'
    BY <1>10 DEF IInv, ShortestPrefix
  <2>5. QED
    BY <2>1, <2>2, <2>3, <2>4 DEF IInv
<1>11. QED
  BY <1>9, <1>10 DEF UntilMore

-----------------------------------------------------------------------------
LEMMA ReadCallKeeps ==
  ASSUME IInv, NEW m \in Int, ReadCall(m)
  PROVE  IInv'
<1> DEFINE n == IF m < 0 \/ m >= Len(data) THEN Len(data) ELSE m
<1>1. /\ pc = "idle" /\ delim' = <<>> /\ limit' = m
      /\ UNCHANGED <<input, src>> /\ <<>> \in Seq(Bytes)
  BY DEF ReadCall
<1>2. TypeOK /\ Types /\ Whole
  BY DEF IInv
<1>3. /\ data \in Seq(Bytes) /\ taken \in Seq(Bytes) /\ src \in Seq(Bytes)
      /\ Len(data) \in Nat
  BY <1>2, LenProperties DEF TypeOK, Types
<1>4. CASE /\ data' = Rest(data, n)
           /\ taken' = taken \o First(data, n)
           /\ Idle("read", First(data, n))
  <2>1. n \in 0..Len(data)
    BY <1>3
  <2> HIDE DEF n
  <2>2. First(data, n) \in Seq(Bytes) /\ Rest(data, n) \in Seq(Bytes)
    BY <1>3, <2>1, Halves
  <2>3. taken' \in Seq(Bytes)
    BY <1>3, <1>4, <2>2, ConcatProperties
  <2>4. Joined(taken', data', src) = Joined(taken, data, src)
    BY <1>3, <1>4, <2>1, MovesLeft
  <2>5. pc' = "idle" /\ part' = <<>> /\ result'.kind = "read"
    BY <1>4 DEF Idle
  <2>6. TypeOK' /\ Types' /\ Whole'
    BY <1>1, <1>2, <1>4, <2>2, <2>3, <2>4, <2>5 DEF TypeOK, Types, Whole
  <2>7. QED
    BY <2>5, <2>6 DEF IInv, Searching, Drained, Gathering, WaitsForReason,
       ShortestPrefix, ExactIsExact
<1>5. CASE /\ data = <<>>
           /\ pc' = "read"
           /\ UNCHANGED <<data, taken, part, result>>
  <2>1. TypeOK' /\ Types' /\ Whole'
    BY <1>1, <1>2, <1>5 DEF TypeOK, Types, Whole
  <2>2. ShortestPrefix'
    BY <1>5 DEF IInv, ShortestPrefix
  <2>3. QED
    BY <1>5, <2>1, <2>2 DEF IInv, Searching, Drained, Gathering, WaitsForReason,
       ExactIsExact
<1>6. QED
  BY <1>4, <1>5 DEF ReadCall

LEMMA ReadMoreKeeps ==
  ASSUME IInv, NEW n, ReadMore(n)
  PROVE  IInv'
<1>1. /\ pc = "read" /\ n \in 1..Len(src)
      /\ src' = Rest(src, n) /\ taken' = taken \o First(src, n)
      /\ UNCHANGED <<delim, input, data, limit>>
      /\ pc' = "idle" /\ part' = <<>> /\ result'.kind = "read"
  BY DEF ReadMore, Idle
<1>2. TypeOK /\ Types /\ Whole /\ data = <<>>
  BY <1>1 DEF IInv, Drained
<1>3. taken \in Seq(Bytes) /\ src \in Seq(Bytes) /\ Len(src) \in Nat
  BY <1>2, LenProperties DEF TypeOK, Types
<1>4. n \in 0..Len(src)
  BY <1>1, <1>3
<1>5. First(src, n) \in Seq(Bytes) /\ Rest(src, n) \in Seq(Bytes)
  BY <1>3, <1>4, Halves
<1>6. taken' \in Seq(Bytes)
  BY <1>1, <1>3, <1>5, ConcatProperties
<1>7. Joined(taken', <<>>, src') = Joined(taken, <<>>, src)
  BY <1>1, <1>3, <1>4, PassesThrough
<1>8. TypeOK' /\ Types' /\ Whole'
  BY <1>1, <1>2, <1>5, <1>6, <1>7 DEF TypeOK, Types, Whole
<1>9. QED
  BY <1>1, <1>8 DEF IInv, Searching, Drained, Gathering, WaitsForReason,
     ShortestPrefix, ExactIsExact

(* read_exactly returns, or waits for the rest of what was asked for.      *)
LEMMA Gathers ==
  ASSUME NEW gathered \in Seq(Bytes), NEW n \in Int, Gather(gathered, n), limit' = n,
         (src \in Seq(Bytes))', (data \in Seq(Bytes))', Types', Whole',
         Len(gathered) <= Len(taken'),
         gathered = SubSeq(input', Len(taken') - Len(gathered) + 1, Len(taken')),
         Len(gathered) < n => data' = <<>>,
         ShortestPrefix
  PROVE  IInv'
<1>1. CASE Len(gathered) = n /\ Idle("exact", gathered)
  <2>1. /\ pc' = "idle" /\ part' = <<>> /\ <<>> \in Seq(Bytes)
        /\ result'.kind = "exact" /\ result'.value = gathered
    BY <1>1 DEF Idle
  <2>2. TypeOK'
    BY <2>1 DEF TypeOK
  <2>3. ExactIsExact'
    BY <1>1, <2>1 DEF ExactIsExact
  <2>4. QED
    BY <2>1, <2>2, <2>3 DEF IInv, Searching, Drained, Gathering, WaitsForReason,
       ShortestPrefix
<1>2. CASE Len(gathered) < n /\ pc' = "exact" /\ part' = gathered /\ UNCHANGED result
  <2>1. TypeOK'
    BY <1>2 DEF TypeOK
  <2>2. Gathering'
    BY <1>2 DEF Gathering
  <2>3. ShortestPrefix'
    BY <1>2 DEF ShortestPrefix
  <2>4. QED
    BY <1>2, <2>1, <2>2, <2>3 DEF IInv, Searching, Drained, WaitsForReason,
       ExactIsExact
<1>3. QED
  BY <1>1, <1>2 DEF Gather

LEMMA ExactCallKeeps ==
  ASSUME IInv, NEW nbytes \in Nat, ExactCall(nbytes)
  PROVE  IInv'
<1> DEFINE n == IF nbytes >= Len(data) THEN Len(data) ELSE nbytes
           gathered == First(data, n)
<1>1. /\ delim' = <<>> /\ limit' = nbytes
      /\ UNCHANGED <<input, src>> /\ <<>> \in Seq(Bytes)
      /\ data' = Rest(data, n) /\ taken' = taken \o gathered
      /\ Gather(gathered, nbytes)
  BY DEF ExactCall
<1>2. TypeOK /\ Types /\ Whole /\ ShortestPrefix
  BY DEF IInv
<1>3. /\ data \in Seq(Bytes) /\ taken \in Seq(Bytes) /\ src \in Seq(Bytes)
      /\ Len(data) \in Nat /\ Len(taken) \in Nat
  BY <1>2, LenProperties DEF TypeOK, Types
<1>4. n \in 0..Len(data) /\ (n < nbytes => n = Len(data))
  BY <1>3
<1> HIDE DEF n
<1>5. /\ gathered \in Seq(Bytes) /\ Rest(data, n) \in Seq(Bytes)
      /\ Len(gathered) = n /\ Len(Rest(data, n)) = Len(data) - n
  BY <1>3, <1>4, Halves
<1>6. Joined(taken \o gathered, Rest(data, n), src) = Joined(taken, data, src)
  BY <1>3, <1>4, MovesLeft
<1> HIDE DEF gathered
<1>7. taken' \in Seq(Bytes) /\ Len(taken') = Len(taken) + n
  BY <1>1, <1>3, <1>5, ConcatProperties
<1>8. gathered = SubSeq(input', Len(taken') - Len(gathered) + 1, Len(taken'))
  <2>1. SubSeq(Joined(taken \o gathered, Rest(data, n), src), Len(taken) + 1,
               Len(taken) + Len(gathered)) = gathered
    <3>1. /\ taken \in Seq(Bytes) /\ gathered \in Seq(Bytes)
          /\ Rest(data, n) \in Seq(Bytes) /\ src \in Seq(Bytes)
      BY <1>3, <1>5
    <3>2. QED
      BY <3>1, LastOfLeft
  <2>2. input' = Joined(taken \o gathered, Rest(data, n), src)
    BY <1>1, <1>2, <1>6 DEF Whole
  <2>3. /\ Len(taken') - Len(gathered) + 1 = Len(taken) + 1
        /\ Len(taken') = Len(taken) + Len(gathered)
    BY <1>3, <1>4, <1>5, <1>7
  <2>4. QED
    BY <2>1, <2>2, <2>3
<1>9. Len(gathered) < nbytes => data' = <<>>
  BY <1>1, <1>3, <1>4, <1>5, EmptySeq
<1>10. Types' /\ Whole' /\ (src \in Seq(Bytes))' /\ (data \in Seq(Bytes))'
  BY <1>1, <1>2, <1>3, <1>5, <1>6, <1>7 DEF Types, Whole
<1>11. Len(gathered) <= Len(taken')
  BY <1>3, <1>4, <1>5, <1>7
<1>12. nbytes \in Int
  OBVIOUS
<1>13. QED
  BY <1>1, <1>2, <1>5, <1>8, <1>9, <1>10, <1>11, <1>12, Gathers

LEMMA ExactMoreKeeps ==
  ASSUME IInv, NEW n, ExactMore(n)
  PROVE  IInv'
<1> DEFINE piece == First(src, n)
           gathered == part \o piece
<1>1. /\ pc = "exact" /\ n \in 1..Len(src) /\ n <= limit - Len(part)
      /\ src' = Rest(src, n) /\ taken' = taken \o piece
      /\ UNCHANGED <<delim, input, data, limit>>
      /\ Gather(gathered, limit)
  BY DEF ExactMore
<1>2. /\ TypeOK /\ Types /\ Whole /\ ShortestPrefix /\ data = <<>>
      /\ Len(part) <= Len(taken)
      /\ part = SubSeq(input, Len(taken) - Len(part) + 1, Len(taken))
  BY <1>1 DEF IInv, Drained, Gathering
<1>3. /\ taken \in Seq(Bytes) /\ src \in Seq(Bytes) /\ part \in Seq(Bytes)
      /\ input \in Seq(Bytes) /\ <<>> \in Seq(Bytes) /\ limit \in Int
      /\ Len(src) \in Nat /\ Len(taken) \in Nat /\ Len(part) \in Nat
  BY <1>2, LenProperties DEF TypeOK, Types
<1>4. n \in 0..Len(src)
  BY <1>1, <1>3
<1>5. piece \in Seq(Bytes) /\ Rest(src, n) \in Seq(Bytes) /\ Len(piece) = n
  BY <1>3, <1>4, Halves
<1>6. Joined(taken \o piece, <<>>, Rest(src, n)) = input
  BY <1>2, <1>3, <1>4, PassesThrough DEF Whole
<1> HIDE DEF piece
<1>7. /\ taken' \in Seq(Bytes) /\ Len(taken') = Len(taken) + n
      /\ gathered \in Seq(Bytes) /\ Len(gathered) = Len(part) + n
  BY <1>1, <1>3, <1>5, ConcatProperties
<1>8. Len(taken') <= Len(input)
  <2>1. Len(input) = Len(taken') + Len(<<>>) + Len(Rest(src, n))
    <3>1. Len(Joined(taken', <<>>, Rest(src, n)))
            = Len(taken') + Len(<<>>) + Len(Rest(src, n))
      <4>1. taken' \in Seq(Bytes) /\ <<>> \in Seq(Bytes) /\ Rest(src, n) \in Seq(Bytes)
        BY <1>3, <1>5, <1>7
      <4>2. \A t \in Seq(Bytes) : Len(Joined(taken', t, Rest(src, n)))
                                     = Len(taken') + Len(t) + Len(Rest(src, n))
        BY <4>1, JoinedLen
      <4>3. QED
        BY <4>1, <4>2
    <3>2. QED
      BY <1>1, <1>6, <3>1
  <2>2. Len(Rest(src, n)) \in Nat /\ Len(<<>>) = 0 /\ Len(taken') \in Nat
    BY <1>5, <1>7, LenProperties, EmptySeq
  <2>3. QED
    BY <2>1, <2>2
<1>9. gathered = SubSeq(input', Len(taken') - Len(gathered) + 1, Len(taken'))
  <2> DEFINE m == Len(taken) - Len(part) + 1
  <2>1. SubSeq(input, Len(taken) + 1, Len(taken) + n) = piece
    <3>1. SubSeq(Joined(taken \o piece, <<>>, Rest(src, n)), Len(taken) + 1,
                 Len(taken) + Len(piece)) = piece
      <4>1. /\ taken \in Seq(Bytes) /\ piece \in Seq(Bytes)
            /\ <<>> \in Seq(Bytes) /\ Rest(src, n) \in Seq(Bytes)
        BY <1>3, <1>5
      <4>2. QED
        BY <4>1, LastOfLeft
    <3>2. QED
      BY <1>5, <1>6, <3>1
  <2>2. /\ Len(input) \in Nat
        /\ m \in 1..(Len(input) + 1)
        /\ Len(taken) \in (m - 1)..Len(input)
        /\ Len(taken) + n \in Len(taken)..Len(input)
    BY <1>2, <1>3, <1>4, <1>7, <1>8, LenProperties
  <2>3. SubSeq(input, m, Len(taken)) \o SubSeq(input, Len(taken) + 1, Len(taken) + n)
          = SubSeq(input, m, Len(taken) + n)
    <3> HIDE DEF m
    <3>1. QED
      BY <1>3, <2>2, ConcatAdjacentSubSeq
  <2>4. gathered = SubSeq(input, m, Len(taken) + n)
    BY <1>2, <2>1, <2>3
  <2>5. /\ Len(taken') - Len(gathered) + 1 = m
        /\ Len(taken') = Len(taken) + n /\ input' = input
    BY <1>1, <1>3, <1>4, <1>7
  <2> HIDE DEF m, gathered
  <2>6. QED
    BY <2>4, <2>5
<1> HIDE DEF gathered
<1>10. Types' /\ Whole' /\ (src \in Seq(Bytes))' /\ (data \in Seq(Bytes))'
  BY <1>1, <1>2, <1>3, <1>5, <1>6, <1>7 DEF Types, Whole
<1>11. Len(gathered) <= Len(taken')
  BY <1>2, <1>3, <1>4, <1>7
<1>12. limit' = limit /\ data' = <<>>
  BY <1>1, <1>2
<1>13. QED
  BY <1>1, <1>2, <1>3, <1>7, <1>9, <1>10, <1>11, <1>12, Gathers

-----------------------------------------------------------------------------
LEMMA Starts == Init => IInv
<1> SUFFICES ASSUME Init PROVE IInv
  OBVIOUS
<1>1. input \in Seq(Bytes)
  <2>1. PICK n \in 0..MaxInput : input \in [1..n -> Bytes]
    BY DEF Init
  <2>2. n \in Nat
    BY SizesAssumption
  <2>3. QED
    BY <2>1, <2>2, SeqDef
<1>2. /\ src = input /\ data = <<>> /\ taken = <<>> /\ part = <<>> /\ delim = <<>>
      /\ pc = "idle" /\ limit = 0 /\ result.kind = "none"
  BY DEF Init, NoResult
<1>3. <<>> \in Seq(Bytes) /\ 0 \in Int
  OBVIOUS
<1>4. Joined(<<>>, <<>>, input) = input
  BY <1>1, <1>3, ConcatEmptySeq DEF Joined
<1>5. TypeOK /\ Types /\ Whole
  BY <1>1, <1>2, <1>3, <1>4 DEF TypeOK, Types, Whole
<1>6. QED
  BY <1>2, <1>5 DEF IInv, Searching, Drained, Gathering, WaitsForReason,
     ShortestPrefix, ExactIsExact

LEMMA StepKeeps == IInv /\ [Next]_vars => IInv'
<1> SUFFICES ASSUME IInv, [Next]_vars PROVE IInv'
  OBVIOUS
<1>1. Sizes \cup {-1} \subseteq Int /\ Sizes \cup {0} \subseteq Nat
  BY SizesAssumption
<1>2. ASSUME NEW d \in Delimiters, NEW m \in Limits, UntilCall(d, m)
      PROVE  IInv'
  BY <1>2, UntilCallKeeps
<1>3. ASSUME NEW m \in Sizes \cup {-1}, ReadCall(m)
      PROVE  IInv'
  <2>1. m \in Int
    BY <1>1
  <2>2. QED
    BY <1>3, <2>1, ReadCallKeeps
<1>4. ASSUME NEW n \in Sizes \cup {0}, ExactCall(n)
      PROVE  IInv'
  <2>1. n \in Nat
    BY <1>1
  <2>2. QED
    BY <1>4, <2>1, ExactCallKeeps
<1>5. ASSUME NEW n, UntilMore(n) \/ ReadMore(n) \/ ExactMore(n)
      PROVE  IInv'
  BY <1>5, UntilMoreKeeps, ReadMoreKeeps, ExactMoreKeeps
<1>6. CASE UntilEof \/ ReadEof \/ ExactEof \/ Cancel
  <2>1. PICK kind \in {"eof", "cancelled"} : Idle(kind, <<>>)
    BY <1>6 DEF UntilEof, ReadEof, ExactEof, Cancel
  <2>2. UNCHANGED <<input, src, data, taken, limit, delim>>
    BY <1>6 DEF UntilEof, ReadEof, ExactEof, Cancel
  <2>3. delim' \in Seq(Bytes) /\ limit' \in Int /\ kind \notin {"until", "exact"}
    BY <2>2 DEF IInv, Types
  <2>4. QED
    BY <2>1, <2>2, <2>3, Raises
<1>7. CASE UNCHANGED vars
  BY <1>7 DEF vars, IInv, TypeOK, Types, Whole, Searching, Drained, Gathering,
     WaitsForReason, ShortestPrefix, ExactIsExact
<1>8. QED
  BY <1>2, <1>3, <1>4, <1>5, <1>6, <1>7 DEF Next, Call, Progress

(* Whatever mixture of calls, pieces and cancellations, for any alphabet,  *)
(* stream, delimiters and sizes.                                           *)
THEOREM ReadUntilInvariance == Spec => []IInv
<1>1. QED
  BY Starts, StepKeeps, PTL DEF Spec

(* No byte is lost, doubled or reordered between the socket, _data and the *)
(* callers of the ReadUntilTransformer.                                    *)
THEOREM NoByteLost == Spec => []Conservation
<1>1. IInv => Conservation
  BY DEF IInv, Conservation, Whole, Joined
<1>2. QED
  BY <1>1, ReadUntilInvariance, PTL

(* What read_until returns ends with the first delimiter there is, though  *)
(* the turns of its loop do not search _data from the start.               *)
THEOREM ShortestAlways == Spec => []ShortestPrefix
<1>1. IInv => ShortestPrefix
  BY DEF IInv
<1>2. QED
  BY <1>1, ReadUntilInvariance, PTL

(* read_until never waits for what it has, nor with more than max_bytes.   *)
THEOREM WaitsAlways == Spec => []WaitsForReason
<1>1. IInv => WaitsForReason
  BY DEF IInv
<1>2. QED
  BY <1>1, ReadUntilInvariance, PTL

(* read_exactly returns the very bytes that are next in the stream, as     *)
(* many as were asked for, in however many pieces they came.               *)
THEOREM ExactAlways == Spec => []ExactIsExact
<1>1. IInv => ExactIsExact
  BY DEF IInv
<1>2. QED
  BY <1>1, ReadUntilInvariance, PTL

-----------------------------------------------------------------------------
(***************************************************************************)
(* Messages: what a stream is made of.  s is all the symbols ever sent, ms *)
(* the marks, lg the log and sp the state of the sender.                   *)
(***************************************************************************)
Coding == {"chunked", "gzip"}
Headers == {h \in [{Http!CL, Http!TE} -> Seq(Nat) \cup Seq(Coding)] :
              h[Http!CL] \in Seq(Nat) /\ h[Http!TE] \in Seq(Coding)}
Octet == Others \cup {CR, LF}
Symbol == Octet \cup Http!HeadSymbol \cup Http!HexSymbol
Entry == [kind : {"plain", "head", "chunked"}, hdr : Headers, body : Seq(Octet),
          end : Nat]

(* Chunk m of message m.i begins after position m.o of the stream, and m.d *)
(* of the body come before it.                                             *)
Mark == [o : Nat, i : Nat, d : Nat]
M(o, i, d) == [o |-> o, i |-> i, d |-> d]

(* Message i begins after this position.                                   *)
Begin(lg, i) == IF i = 1 THEN 0 ELSE lg[i - 1].end

(* A head, or a chunk without data: symbol x and two line ends.            *)
HeadAt(s, o, x) == /\ o + 5 <= Len(s) /\ s[o + 1] = x
                   /\ s[o + 2] = CR /\ s[o + 3] = LF /\ s[o + 4] = CR /\ s[o + 5] = LF

Plain(s, e, o) ==
  /\ ~Http!ChunkEncoding(e.hdr) /\ Http!ContentLength(e.hdr) = Len(e.body)
  /\ e.end = o + 5 + Len(e.body) /\ e.end <= Len(s)
  /\ \A j \in 1..Len(e.body) : s[o + 5 + j] = e.body[j]

(* Entry e, the message i, stands after o as encode() made it; its chunks  *)
(* are what the marks say.                                                 *)
Message(s, ms, e, i, o) ==
  /\ HeadAt(s, o, [head |-> e.hdr])
  /\ \/ e.kind = "plain" /\ Plain(s, e, o)
     \/ e.kind = "head" /\ e.end = o + 5 /\ e.body = <<>>
     \/ e.kind = "chunked" /\ Http!ChunkEncoding(e.hdr) /\ M(o + 5, i, 0) \in ms

(* A status line that is none.                                             *)
Garbled(s, e, o) ==
  /\ e.kind = "plain" /\ e.end = 0
  /\ \E x \in Others : HeadAt(s, o, x)

(* What stands at a mark: a chunk of n bytes and the next mark after it,   *)
(* the empty chunk, nothing yet, or what a peer breaks the framing with.   *)
FullChunk(s, ms, e, m, n) ==
  /\ n > 0 /\ m.o + 5 + n <= Len(s) /\ m.d + n <= Len(e.body)
  /\ s[m.o + 1] = [hex |-> n] /\ s[m.o + 2] = CR /\ s[m.o + 3] = LF
  /\ \A j \in 1..n : s[m.o + 3 + j] = e.body[m.d + j]
  /\ s[m.o + 4 + n] = CR /\ s[m.o + 5 + n] = LF
  /\ M(m.o + 5 + n, m.i, m.d + n) \in ms

LastChunk(s, e, m) ==
  HeadAt(s, m.o, [hex |-> 0]) /\ e.end = m.o + 5 /\ m.d = Len(e.body)

NoChunk(s, e, m) == e.end = 0 /\ m.o = Len(s) /\ m.d = Len(e.body)

BadChunk(s, e, m) ==
  /\ e.end = 0
  /\ \/ Len(s) = m.o + 4 /\ s[m.o + 1] = CR /\ s[m.o + 2] = LF
     \/ /\ Len(s) = m.o + 7 /\ s[m.o + 1] = [hex |-> 1] /\ s[m.o + 2] = CR
        /\ s[m.o + 3] = LF /\ s[m.o + 4] \in Others /\ s[m.o + 5] \in Others

ChunkAt(s, ms, e, m, l, sp) ==
  /\ e.kind = "chunked" /\ m.d <= Len(e.body) /\ m.o <= Len(s)
  /\ \/ \E n \in Nat : FullChunk(s, ms, e, m, n)
     \/ LastChunk(s, e, m)
     \/ m.i = l /\ NoChunk(s, e, m)
     \/ m.i = l /\ sp = "closed" /\ BadChunk(s, e, m)

Typed(s, ms, lg) == s \in Seq(Symbol) /\ ms \subseteq Mark /\ lg \in Seq(Entry)

Messages(s, ms, lg, sp) ==
  \A i \in 1..Len(lg) :
    \/ Message(s, ms, lg[i], i, Begin(lg, i))
    \/ i = Len(lg) /\ sp = "closed" /\ Garbled(s, lg[i], Begin(lg, i))

Chunks(s, ms, lg, sp) ==
  \A m \in ms : /\ m.i \in 1..Len(lg)
                /\ ChunkAt(s, ms, lg[m.i], m, Len(lg), sp)

(* Where the sender is.                                                    *)
Tip(s, ms, lg, sp) ==
  /\ \A i \in 1..Len(lg) - 1 : lg[i].end > 0
  /\ sp \in {"idle", "chunks", "closed"}
  /\ sp = "idle" => /\ Len(s) = Begin(lg, Len(lg) + 1)
                    /\ Len(lg) > 0 => lg[Len(lg)].end > 0
  /\ sp # "idle" => Len(lg) > 0 /\ lg[Len(lg)].end = 0
  /\ sp = "chunks" => /\ lg[Len(lg)].kind = "chunked"
                      /\ M(Len(s), Len(lg), Len(lg[Len(lg)].body)) \in ms

(* All of it.                                                              *)
Sent(s, ms, lg, sp) == /\ Typed(s, ms, lg) /\ Messages(s, ms, lg, sp)
                       /\ Chunks(s, ms, lg, sp) /\ Tip(s, ms, lg, sp)

(* w is what is left of the stream s after p.                              *)
Left(s, w, p) == /\ w \in Seq(Symbol) /\ p \in Nat /\ Len(s) = p + Len(w)
                 /\ \A j \in 1..Len(w) : w[j] = s[p + j]

(* The receiver has the first d of the body of entry e.                    *)
Held(e, d) ==
  /\ Len(in.body) + Len(tbuf) = d /\ d <= Len(e.body)
  /\ \A j \in 1..Len(in.body) : in.body[j] = e.body[j]
  /\ \A j \in 1..Len(tbuf) : tbuf[j] = e.body[Len(in.body) + j]

(* What the receiver has done, by where it is, with entry e.               *)
InHead(e, o) ==
  /\ pos = o /\ in.hdr = Http!NoHeaders /\ in.body = <<>>
  /\ in.empty <=> e.kind = "head" \/ via = "transformer"
  /\ via = "transformer" => e.kind = "chunked"

InBody(e, o) == e.kind = "plain" /\ e.end > 0 /\ pos = o + 5 /\ in.hdr = e.hdr

AtMark(ms, e, i) ==
  in.hdr = e.hdr /\ \E m \in ms : m.i = i /\ m.o = pos /\ Held(e, m.d)

InChunk(s, ms, e, i) ==
  /\ in.hdr = e.hdr /\ clen > 0 /\ pos <= Len(s)
  /\ \E m \in ms : /\ m.i = i /\ m.o + 3 = pos /\ s[m.o + 1] = [hex |-> clen]
                   /\ Held(e, m.d)

AfterChunk(s, ms, e, i) ==
  /\ in.hdr = e.hdr /\ pos <= Len(s)
  /\ \E m \in ms : /\ m.i = i /\ m.o + 3 + clen = pos /\ s[m.o + 1] = [hex |-> clen]
                   /\ clen = 0 => tbuf = <<>>
                   /\ \/ Held(e, m.d + clen)
                      \/ pos < Len(s) /\ s[pos + 1] \in Others

Current(s, ms, e, i, o) ==
  /\ rpc = "idle" => pos = o /\ ahead = 0
  /\ rpc = "head" => InHead(e, o)
  /\ rpc = "body" => InBody(e, o)
  /\ rpc \in {"line", "reading"} => AtMark(ms, e, i)
  /\ rpc = "data" => InChunk(s, ms, e, i)
  /\ rpc = "eol" => AfterChunk(s, ms, e, i)

(* The messages received are the first of those sent.                      *)
Kept(lg) == /\ Len(got) <= Len(lg)
            /\ rpc \notin {"idle", "failed"} => Len(got) < Len(lg)
            /\ \A i \in 1..Len(got) : /\ lg[i].end > 0
                                      /\ got[i].hdr = lg[i].hdr /\ got[i].body = lg[i].body

SenderTypes ==
  /\ out \in [hdr : Headers, body : Seq(Octet), empty : BOOLEAN]
  /\ edits \in 0..MaxEdits /\ chunks \in 0..MaxChunks /\ Len(log) <= MaxMessages

ReceiverTypes ==
  /\ in \in [hdr : Headers, body : Seq(Octet), empty : BOOLEAN]
  /\ rpc \in {"idle", "head", "body", "line", "data", "eol", "reading", "failed"}
  /\ via \in {"decode", "transformer"} /\ layered \in BOOLEAN /\ clen \in Nat
  /\ ahead \in 0..Len(wire) /\ (layered => ahead = 0)
  /\ tbuf \in Seq(Octet)
  /\ tbuf # <<>> => via = "transformer" /\ rpc \in {"eol", "reading", "failed"}
  /\ got \in Seq([hdr : Headers, body : Seq(Octet)])

(* The invariant.                                                          *)
Inv(s, ms) ==
  /\ Sent(s, ms, log, spc) /\ Left(s, wire, pos)
  /\ Current(s, ms, log[Len(got) + 1], Len(got) + 1, Begin(log, Len(got) + 1))

HttpInv == SenderTypes /\ ReceiverTypes /\ Kept(log) /\ \E s, ms : Inv(s, ms)
-----------------------------------------------------------------------------
LEMMA Symbols ==
  /\ CR # LF /\ CR \notin Others /\ LF \notin Others
  /\ \A x \in Octet : x \notin Http!HeadSymbol /\ x \notin Http!HexSymbol
  BY HttpAssumption DEF Http!Assumed, Octet

LEMMA HeadIs ==
  ASSUME NEW h \in Headers
  PROVE  /\ [head |-> h] \in Http!HeadSymbol /\ [head |-> h] \in Symbol
         /\ [head |-> h] \notin Octet
<1>1. [head |-> h] \in Http!HeadSymbol
  BY DEF Headers, Coding, Http!HeadSymbol
<1>2. QED
  BY <1>1, Symbols DEF Symbol

LEMMA HexIs ==
  ASSUME NEW n \in Nat
  PROVE  /\ [hex |-> n] \in Http!HexSymbol /\ [hex |-> n] \in Symbol
         /\ [hex |-> n] \notin Octet
<1>1. [hex |-> n] \in Http!HexSymbol
  BY DEF Http!HexSymbol
<1>2. QED
  BY <1>1, Symbols DEF Symbol

LEMMA SameHex ==
  ASSUME NEW n \in Nat, NEW k \in Nat, [hex |-> n] = [hex |-> k]
  PROVE  n = k
<1>1. [hex |-> n].hex = n /\ [hex |-> k].hex = k
  OBVIOUS
<1>2. QED
  BY <1>1

(***************************************************************************)
(* What the sender adds.                                                   *)
(***************************************************************************)
Extends(s, s2) == Len(s) <= Len(s2) /\ \A j \in 1..Len(s) : s2[j] = s[j]

Added(s, t, s2) == /\ s2 \in Seq(Symbol) /\ Len(s2) = Len(s) + Len(t)
                   /\ Extends(s, s2)
                   /\ \A j \in 1..Len(t) : s2[Len(s) + j] = t[j]

LEMMA AddedIs ==
  ASSUME NEW s \in Seq(Symbol), NEW t \in Seq(Symbol)
  PROVE  Added(s, t, s \o t)
<1>1. s \o t \in Seq(Symbol) /\ Len(s \o t) = Len(s) + Len(t)
  OBVIOUS
<1>2. \A j \in 1..Len(s) : (s \o t)[j] = s[j]
  OBVIOUS
<1>3. \A j \in 1..Len(t) : (s \o t)[Len(s) + j] = t[j]
  OBVIOUS
<1>4. QED
  BY <1>1, <1>2, <1>3 DEF Added, Extends

(* Octets put together.                                                    *)
Adjoined(b, t, u) == /\ u \in Seq(Octet) /\ Len(u) = Len(b) + Len(t)
                     /\ \A j \in 1..Len(b) : u[j] = b[j]
                     /\ \A j \in 1..Len(t) : u[Len(b) + j] = t[j]

LEMMA JoinIs ==
  ASSUME NEW b, b \in Seq(Octet), NEW t, t \in Seq(Octet)
  PROVE  Adjoined(b, t, b \o t)
BY DEF Adjoined

LEMMA ExtendsTwice ==
  ASSUME NEW s \in Seq(Symbol), NEW t \in Seq(Symbol), NEW u \in Seq(Symbol),
         Extends(s, t), Extends(t, u)
  PROVE  Extends(s, u)
  BY DEF Extends

LEMMA LeftGrows ==
  ASSUME NEW s \in Seq(Symbol), NEW t \in Seq(Symbol), NEW w, NEW p, Left(s, w, p)
  PROVE  Left(s \o t, w \o t, p)
<1> USE DEF Left
<1>1. Added(s, t, s \o t) /\ Added(w, t, w \o t)
  BY AddedIs
<1>2. Len(w \o t) = Len(w) + Len(t) /\ Len(s \o t) = p + Len(w \o t)
  BY <1>1 DEF Added
<1>3. ASSUME NEW j \in 1..Len(w \o t)
      PROVE  (w \o t)[j] = (s \o t)[p + j]
  <2>1. CASE j \in 1..Len(w)
    <3>1. (w \o t)[j] = w[j] /\ w[j] = s[p + j] /\ p + j \in 1..Len(s)
      BY <1>1, <2>1 DEF Added, Extends
    <3>2. QED
      BY <1>1, <3>1 DEF Added, Extends
  <2>2. CASE j - Len(w) \in 1..Len(t)
    <3> DEFINE k == j - Len(w)
    <3>1. (w \o t)[Len(w) + k] = t[k] /\ (s \o t)[Len(s) + k] = t[k]
      BY <1>1, <2>2 DEF Added
    <3>2. Len(w) + k = j /\ Len(s) + k = p + j
      OBVIOUS
    <3>3. QED
      BY <3>1, <3>2
  <2>3. QED
    BY <1>2, <2>1, <2>2
<1>4. QED
  BY <1>1, <1>2, <1>3 DEF Added

LEMMA LeftBehind ==
  ASSUME NEW s \in Seq(Symbol), NEW w, NEW p, Left(s, w, p), NEW n \in 0..Len(w)
  PROVE  Left(s, SubSeq(w, n + 1, Len(w)), p + n)
<1> USE DEF Left
<1> DEFINE r == SubSeq(w, n + 1, Len(w))
<1>0. p \in Nat /\ Len(w) \in Nat /\ Len(s) = p + Len(w)
  OBVIOUS
<1>1. r \in Seq(Symbol) /\ Len(r) = Len(w) - n
  OBVIOUS
<1>2. ASSUME NEW j \in 1..Len(r)
      PROVE  r[j] = s[(p + n) + j]
  <2>1. r[j] = w[n + j] /\ n + j \in 1..Len(w)
    BY <1>1
  <2>2. w[n + j] = s[p + (n + j)]
    BY <2>1
  <2>3. p + (n + j) = (p + n) + j
    BY <1>1
  <2>4. QED
    BY <2>1, <2>2, <2>3
<1> HIDE DEF Left, r
<1>3. p + n \in Nat /\ Len(s) = (p + n) + Len(r)
  BY <1>0, <1>1
<1>4. QED
  BY <1>1, <1>2, <1>3 DEF Left, r

(* Five symbols: a head, or the last chunk.                                *)
Five(x) == <<x, CR, LF, CR, LF>>

LEMMA FiveIs ==
  ASSUME NEW x \in Symbol
  PROVE  /\ Five(x) \in Seq(Symbol) /\ Len(Five(x)) = 5 /\ Five(x)[1] = x
         /\ Five(x)[2] = CR /\ Five(x)[3] = LF /\ Five(x)[4] = CR /\ Five(x)[5] = LF
<1>1. CR \in Symbol /\ LF \in Symbol
  BY DEF Symbol, Octet
<1>2. QED
  BY <1>1 DEF Five

LEMMA HeadAdded ==
  ASSUME NEW s \in Seq(Symbol), NEW x \in Symbol
  PROVE  /\ s \o Five(x) \in Seq(Symbol) /\ Len(s \o Five(x)) = Len(s) + 5
         /\ Extends(s, s \o Five(x))
         /\ HeadAt(s \o Five(x), Len(s), x)
<1>1. Added(s, Five(x), s \o Five(x))
  BY FiveIs, AddedIs
<1>2. \A j \in 1..5 : (s \o Five(x))[Len(s) + j] = Five(x)[j]
  BY <1>1, FiveIs DEF Added
<1>3. /\ (s \o Five(x))[Len(s) + 1] = x
      /\ (s \o Five(x))[Len(s) + 2] = CR /\ (s \o Five(x))[Len(s) + 3] = LF
      /\ (s \o Five(x))[Len(s) + 4] = CR /\ (s \o Five(x))[Len(s) + 5] = LF
  BY <1>2, FiveIs
<1>4. Len(s \o Five(x)) = Len(s) + 5
  BY <1>1, FiveIs DEF Added
<1>5. HeadAt(s \o Five(x), Len(s), x)
  BY <1>3, <1>4 DEF HeadAt
<1>6. QED
  BY <1>1, <1>4, <1>5 DEF Added

LEMMA HeadStays ==
  ASSUME NEW s \in Seq(Symbol), NEW s2 \in Seq(Symbol), Extends(s, s2),
         NEW o \in Nat, NEW x, HeadAt(s, o, x)
  PROVE  HeadAt(s2, o, x)
  BY DEF HeadAt, Extends

(* A message of the log later on: only an open one changes, and grows.     *)
Later(e, e2) == /\ e2.kind = e.kind /\ e2.hdr = e.hdr
                /\ e.end > 0 \/ e.kind # "chunked" => e2 = e
                /\ Len(e.body) <= Len(e2.body)
                /\ \A j \in 1..Len(e.body) : e2.body[j] = e.body[j]

Grown(lg, lg2) == Len(lg) <= Len(lg2) /\ \A i \in 1..Len(lg) : Later(lg[i], lg2[i])

LEMMA LaterSame ==
  ASSUME NEW e \in Entry
  PROVE  Later(e, e)
  BY DEF Later, Entry

LEMMA MarkIs ==
  ASSUME NEW o \in Nat, NEW i \in Nat, NEW d \in Nat
  PROVE  M(o, i, d) \in Mark /\ M(o, i, d).o = o /\ M(o, i, d).i = i /\ M(o, i, d).d = d
  BY DEF M, Mark

LEMMA MessageStays ==
  ASSUME NEW s \in Seq(Symbol), NEW s2 \in Seq(Symbol), Extends(s, s2),
         NEW ms, NEW ms2, ms \subseteq ms2,
         NEW e \in Entry, NEW e2 \in Entry, Later(e, e2),
         NEW i \in Nat, NEW o \in Nat, Message(s, ms, e, i, o)
  PROVE  Message(s2, ms2, e2, i, o)
<1>1. HeadAt(s2, o, [head |-> e2.hdr])
  BY HeadStays DEF Message, Later
<1>2. CASE e.kind = "plain" /\ Plain(s, e, o)
  <2>1. e2 = e
    BY <1>2 DEF Later
  <2>2. e.body \in Seq(Octet)
    BY DEF Entry
  <2>3. \A j \in 1..Len(e.body) : s2[o + 5 + j] = s[o + 5 + j]
    <3> DEFINE k == Len(e.body)
    <3>1. k \in Nat
      BY <2>2
    <3>2. e.end = o + 5 + k /\ e.end <= Len(s)
      BY <1>2 DEF Plain
    <3> HIDE DEF k
    <3>3. \A j \in 1..k : o + 5 + j \in 1..Len(s)
      BY <3>1, <3>2
    <3>4. QED
      BY <3>3 DEF Extends, k
  <2>4. e.end <= Len(s2)
    BY <1>2 DEF Plain, Extends, Entry
  <2>5. Plain(s2, e, o)
    BY <1>2, <2>3, <2>4 DEF Plain
  <2>6. QED
    BY <1>1, <1>2, <2>1, <2>5 DEF Message
<1>3. CASE e.kind = "head" /\ e.end = o + 5 /\ e.body = <<>>
  BY <1>1, <1>3 DEF Message, Later
<1>4. CASE e.kind = "chunked" /\ Http!ChunkEncoding(e.hdr) /\ M(o + 5, i, 0) \in ms
  <2>1. e2.kind = "chunked" /\ e2.hdr = e.hdr
    BY <1>4 DEF Later
  <2>2. QED
    BY <1>1, <1>4, <2>1 DEF Message
<1>5. QED
  BY <1>2, <1>3, <1>4 DEF Message

LEMMA FullChunkStays ==
  ASSUME NEW s \in Seq(Symbol), NEW s2 \in Seq(Symbol), Extends(s, s2),
         NEW ms, NEW ms2, ms \subseteq ms2,
         NEW e \in Entry, NEW e2 \in Entry, Later(e, e2),
         NEW m \in Mark, NEW n \in Nat, FullChunk(s, ms, e, m, n)
  PROVE  FullChunk(s2, ms2, e2, m, n)
<1> DEFINE o == m.o
           b == m.d
           l == Len(s)
           k == Len(e.body)
<1>1. e.body \in Seq(Octet) /\ e2.body \in Seq(Octet)
  BY DEF Entry
<1>2. o \in Nat /\ b \in Nat /\ l \in Nat /\ k \in Nat
  BY <1>1 DEF Mark
<1>3. n > 0 /\ o + 5 + n <= l /\ b + n <= k
  BY DEF FullChunk
<1>4. l <= Len(s2) /\ \A j \in 1..l : s2[j] = s[j]
  BY DEF Extends
<1>5. k <= Len(e2.body) /\ \A j \in 1..k : e2.body[j] = e.body[j]
  BY DEF Later
<1> HIDE DEF o, b, l, k
<1>6. /\ o + 1 \in 1..l /\ o + 2 \in 1..l /\ o + 3 \in 1..l
      /\ o + 4 + n \in 1..l /\ o + 5 + n \in 1..l
      /\ \A j \in 1..n : o + 3 + j \in 1..l /\ b + j \in 1..k
  BY <1>2, <1>3
<1>7. o + 5 + n <= Len(s2) /\ b + n <= Len(e2.body)
  BY <1>1, <1>2, <1>3, <1>4, <1>5
<1>8. /\ s2[o + 1] = s[o + 1] /\ s2[o + 2] = s[o + 2] /\ s2[o + 3] = s[o + 3]
      /\ s2[o + 4 + n] = s[o + 4 + n] /\ s2[o + 5 + n] = s[o + 5 + n]
  BY <1>4, <1>6
<1>9. ASSUME NEW j \in 1..n
      PROVE  s2[o + 3 + j] = e2.body[b + j]
  <2>1. s[o + 3 + j] = e.body[b + j]
    BY DEF FullChunk, o, b
  <2>2. QED
    BY <1>4, <1>5, <1>6, <2>1
<1>10. QED
  BY <1>3, <1>7, <1>8, <1>9 DEF FullChunk, o, b

LEMMA LastChunkStays ==
  ASSUME NEW s \in Seq(Symbol), NEW s2 \in Seq(Symbol), Extends(s, s2),
         NEW e \in Entry, NEW e2 \in Entry, Later(e, e2),
         NEW m \in Mark, LastChunk(s, e, m)
  PROVE  LastChunk(s2, e2, m)
<1>1. m.o \in Nat
  BY DEF Mark
<1>2. e2 = e
  BY <1>1 DEF LastChunk, Later
<1>3. HeadAt(s2, m.o, [hex |-> 0])
  BY <1>1, HeadStays DEF LastChunk
<1>4. QED
  BY <1>2, <1>3 DEF LastChunk

LEMMA BeginIs ==
  ASSUME NEW lg \in Seq(Entry), NEW i \in 1..Len(lg) + 1
  PROVE  Begin(lg, i) \in Nat
<1>1. CASE i = 1
  BY <1>1 DEF Begin
<1>2. CASE i # 1
  <2>1. lg[i - 1] \in Entry
    BY <1>2
  <2>2. QED
    BY <1>2, <2>1 DEF Begin, Entry
<1>3. QED
  BY <1>1, <1>2

(* What precedes a message does not move.                                  *)
LEMMA BeginStays ==
  ASSUME NEW lg \in Seq(Entry), NEW lg2 \in Seq(Entry), Grown(lg, lg2),
         NEW i \in 1..Len(lg) + 1, i = 1 \/ lg[i - 1].end > 0
  PROVE  Begin(lg2, i) = Begin(lg, i)
<1>1. CASE i = 1
  BY <1>1 DEF Begin
<1>2. CASE i # 1
  <2>1. i - 1 \in 1..Len(lg)
    BY <1>2
  <2>2. lg2[i - 1] = lg[i - 1]
    BY <1>2, <2>1 DEF Grown, Later
  <2>3. QED
    BY <1>2, <2>2 DEF Begin
<1>3. QED
  BY <1>1, <1>2

LEMMA ChunkStays ==
  ASSUME NEW s \in Seq(Symbol), NEW s2 \in Seq(Symbol), Extends(s, s2),
         NEW ms, NEW ms2, ms \subseteq ms2,
         NEW e \in Entry, NEW e2 \in Entry, Later(e, e2),
         NEW m \in Mark, NEW l, NEW l2, NEW sp, NEW sp2,
         sp # "closed", ChunkAt(s, ms, e, m, l, sp), ~(m.i = l /\ NoChunk(s, e, m))
  PROVE  ChunkAt(s2, ms2, e2, m, l2, sp2)
<1>1. e.body \in Seq(Octet) /\ e2.body \in Seq(Octet) /\ m.o \in Nat /\ m.d \in Nat
  BY DEF Entry, Mark
<1>2. e2.kind = "chunked" /\ m.d <= Len(e2.body) /\ m.o <= Len(s2)
  <2>1. e2.kind = "chunked"
    BY DEF ChunkAt, Later
  <2>2. m.d <= Len(e.body) /\ Len(e.body) <= Len(e2.body)
    BY DEF ChunkAt, Later
  <2>3. m.o <= Len(s) /\ Len(s) <= Len(s2)
    BY DEF ChunkAt, Extends
  <2>4. QED
    BY <1>1, <2>1, <2>2, <2>3
<1>3. CASE \E n \in Nat : FullChunk(s, ms, e, m, n)
  BY <1>2, <1>3, FullChunkStays DEF ChunkAt
<1>4. CASE LastChunk(s, e, m)
  BY <1>2, <1>4, LastChunkStays DEF ChunkAt
<1>5. QED
  BY <1>3, <1>4 DEF ChunkAt

(* A step of the sender: the messages it begins and the chunks it marks    *)
(* are as they should be, and so is what follows the last chunk so far.    *)
LEMMA SentGrows ==
  ASSUME NEW s, NEW ms, NEW lg, NEW sp, Sent(s, ms, lg, sp), sp # "closed",
         NEW s2, NEW ms2, NEW lg2, NEW sp2, Typed(s2, ms2, lg2),
         Extends(s, s2), ms \subseteq ms2, Grown(lg, lg2),
         \A i \in Len(lg) + 1..Len(lg2) :
           \/ Message(s2, ms2, lg2[i], i, Begin(lg2, i))
           \/ i = Len(lg2) /\ sp2 = "closed" /\ Garbled(s2, lg2[i], Begin(lg2, i)),
         \A m \in ms2 : (m \in ms => m.i = Len(lg) /\ NoChunk(s, lg[m.i], m)) =>
           m.i \in 1..Len(lg2) /\ ChunkAt(s2, ms2, lg2[m.i], m, Len(lg2), sp2),
         Tip(s2, ms2, lg2, sp2)
  PROVE  Sent(s2, ms2, lg2, sp2)
<1>1. /\ s \in Seq(Symbol) /\ ms \subseteq Mark /\ lg \in Seq(Entry)
      /\ s2 \in Seq(Symbol) /\ ms2 \subseteq Mark /\ lg2 \in Seq(Entry)
  BY DEF Sent, Typed
<1>2. Len(lg) \in Nat /\ Len(lg2) \in Nat /\ Len(lg) <= Len(lg2)
  BY <1>1 DEF Grown
<1>3. Messages(s2, ms2, lg2, sp2)
  <2>1. ASSUME NEW i \in 1..Len(lg)
        PROVE  Message(s2, ms2, lg2[i], i, Begin(lg2, i))
    <3>1. Message(s, ms, lg[i], i, Begin(lg, i))
      BY DEF Sent, Messages
    <3>2. i = 1 \/ lg[i - 1].end > 0
      <4>1. i = 1 \/ i - 1 \in 1..Len(lg) - 1
        BY <1>2
      <4>2. QED
        BY <4>1 DEF Sent, Tip
    <3>3. i \in 1..Len(lg) + 1 /\ i \in Nat /\ i \in 1..Len(lg2)
      BY <1>2
    <3>4. Begin(lg2, i) = Begin(lg, i) /\ Begin(lg, i) \in Nat
      BY <1>1, <3>2, <3>3, BeginStays, BeginIs
    <3>5. Later(lg[i], lg2[i]) /\ lg[i] \in Entry /\ lg2[i] \in Entry
      BY <1>1, <3>3 DEF Grown
    <3>6. QED
      BY <1>1, <3>1, <3>3, <3>4, <3>5, MessageStays
  <2>2. \A i \in 1..Len(lg2) : i \in 1..Len(lg) \/ i \in Len(lg) + 1..Len(lg2)
    BY <1>2
  <2>3. QED
    BY <2>1, <2>2 DEF Messages
<1>4. Chunks(s2, ms2, lg2, sp2)
  <2>1. ASSUME NEW m \in ms2
        PROVE  m.i \in 1..Len(lg2)
               /\ ChunkAt(s2, ms2, lg2[m.i], m, Len(lg2), sp2)
    <3>1. CASE m \in ms => m.i = Len(lg) /\ NoChunk(s, lg[m.i], m)
      BY <3>1
    <3>2. CASE m \in ms /\ ~(m.i = Len(lg) /\ NoChunk(s, lg[m.i], m))
      <4>1. m.i \in 1..Len(lg) /\ ChunkAt(s, ms, lg[m.i], m, Len(lg), sp)
        BY <3>2 DEF Sent, Chunks
      <4>2. m \in Mark /\ m.i \in 1..Len(lg2)
        BY <1>1, <1>2, <4>1
      <4>3. Later(lg[m.i], lg2[m.i]) /\ lg[m.i] \in Entry /\ lg2[m.i] \in Entry
        BY <1>1, <4>1, <4>2 DEF Grown
      <4>4. ChunkAt(s2, ms2, lg2[m.i], m, Len(lg2), sp2)
        BY <1>1, <3>2, <4>1, <4>2, <4>3, ChunkStays
      <4>5. QED
        BY <4>2, <4>4
    <3>3. QED
      BY <3>1, <3>2
  <2>2. QED
    BY <2>1 DEF Chunks
<1>5. QED
  BY <1>3, <1>4 DEF Sent
-----------------------------------------------------------------------------
LEMMA HeldStays ==
  ASSUME NEW e \in Entry, NEW e2 \in Entry, Later(e, e2), NEW d,
         in.body \in Seq(Octet), tbuf \in Seq(Octet), Held(e, d)
  PROVE  Held(e2, d)
<1> DEFINE a == Len(in.body)
           b == Len(tbuf)
           k == Len(e.body)
<1>1. a \in Nat /\ b \in Nat /\ k \in Nat /\ Len(e2.body) \in Nat
  BY DEF Entry
<1>2. a + b = d /\ d <= k
  BY DEF Held
<1>3. k <= Len(e2.body) /\ \A j \in 1..k : e2.body[j] = e.body[j]
  BY DEF Later
<1>4. (\A j \in 1..a : in.body[j] = e.body[j]) /\ \A j \in 1..b : tbuf[j] = e.body[a + j]
  BY DEF Held
<1> HIDE DEF a, b, k
<1>5. (\A j \in 1..a : j \in 1..k) /\ \A j \in 1..b : a + j \in 1..k
  BY <1>1, <1>2
<1>6. (\A j \in 1..a : in.body[j] = e2.body[j]) /\ \A j \in 1..b : tbuf[j] = e2.body[a + j]
  BY <1>3, <1>4, <1>5
<1>7. d <= Len(e2.body)
  BY <1>1, <1>2, <1>3
<1>8. QED
  BY <1>2, <1>6, <1>7 DEF Held, a, b

LEMMA CurrentGrows ==
  ASSUME NEW s \in Seq(Symbol), NEW s2 \in Seq(Symbol), Extends(s, s2),
         NEW ms, NEW ms2, ms \subseteq ms2, ms \subseteq Mark,
         NEW e, NEW e2,
         rpc \in {"idle", "failed"} \/ (e \in Entry /\ e2 \in Entry /\ Later(e, e2)),
         ReceiverTypes, pos \in Nat,
         NEW i, NEW o, Current(s, ms, e, i, o)
  PROVE  Current(s2, ms2, e2, i, o)
<1>1. CASE rpc \in {"idle", "failed"}
  BY <1>1 DEF Current
<1>2. CASE e \in Entry /\ e2 \in Entry /\ Later(e, e2)
  <2>1. in.body \in Seq(Octet) /\ tbuf \in Seq(Octet) /\ clen \in Nat
    BY DEF ReceiverTypes
  <2>2. Len(s) \in Nat /\ Len(s2) \in Nat /\ Len(s) <= Len(s2)
    BY DEF Extends
  <2>3. \A d : Held(e, d) => Held(e2, d)
    BY <1>2, <2>1, HeldStays
  <2>4. e2.hdr = e.hdr /\ e2.kind = e.kind
    BY <1>2 DEF Later
  <2>5. InHead(e, o) => InHead(e2, o)
    BY <2>4 DEF InHead
  <2>6. InBody(e, o) => InBody(e2, o)
    BY <1>2 DEF InBody, Later
  <2>7. AtMark(ms, e, i) => AtMark(ms2, e2, i)
    BY <2>3, <2>4 DEF AtMark
  <2>8. ASSUME NEW k \in Nat, k + 3 <= Len(s)
        PROVE  s2[k + 1] = s[k + 1]
    BY <2>2, <2>8 DEF Extends
  <2>9. ASSUME InChunk(s, ms, e, i)
        PROVE  InChunk(s2, ms2, e2, i)
    <3>1. PICK m \in ms : /\ m.i = i /\ m.o + 3 = pos /\ s[m.o + 1] = [hex |-> clen]
                          /\ Held(e, m.d)
      BY <2>9 DEF InChunk
    <3>2. pos <= Len(s) /\ clen > 0 /\ in.hdr = e.hdr
      BY <2>9 DEF InChunk
    <3>3. m.o \in Nat
      BY DEF Mark
    <3>4. s2[m.o + 1] = [hex |-> clen]
      BY <2>8, <3>1, <3>2, <3>3
    <3>5. pos <= Len(s2)
      BY <2>2, <3>2
    <3>6. QED
      BY <2>3, <2>4, <3>1, <3>2, <3>4, <3>5 DEF InChunk
  <2>10. ASSUME AfterChunk(s, ms, e, i)
         PROVE  AfterChunk(s2, ms2, e2, i)
    <3>1. PICK m \in ms : /\ m.i = i /\ m.o + 3 + clen = pos /\ s[m.o + 1] = [hex |-> clen]
                          /\ clen = 0 => tbuf = <<>>
                          /\ \/ Held(e, m.d + clen)
                             \/ pos < Len(s) /\ s[pos + 1] \in Others
      BY <2>10 DEF AfterChunk
    <3>2. pos <= Len(s) /\ in.hdr = e.hdr
      BY <2>10 DEF AfterChunk
    <3>3. m.o \in Nat
      BY DEF Mark
    <3>4. m.o + 3 <= Len(s)
      BY <2>1, <2>2, <3>1, <3>2, <3>3
    <3>5. s2[m.o + 1] = [hex |-> clen]
      BY <2>8, <3>1, <3>3, <3>4
    <3>6. pos <= Len(s2)
      BY <2>2, <3>2
    <3>7. \/ Held(e2, m.d + clen)
          \/ pos < Len(s2) /\ s2[pos + 1] \in Others
      <4>1. CASE Held(e, m.d + clen)
        BY <2>3, <4>1
      <4>2. CASE pos < Len(s) /\ s[pos + 1] \in Others
        <5>1. pos + 1 \in 1..Len(s) /\ pos < Len(s2)
          BY <2>2, <4>2
        <5>2. s2[pos + 1] = s[pos + 1]
          BY <5>1 DEF Extends
        <5>3. QED
          BY <4>2, <5>1, <5>2
      <4>3. QED
        BY <3>1, <4>1, <4>2
    <3>8. QED
      BY <2>4, <3>1, <3>2, <3>5, <3>6, <3>7 DEF AfterChunk
  <2>11. QED
    BY <2>5, <2>6, <2>7, <2>9, <2>10 DEF Current
<1>3. QED
  BY <1>1, <1>2

(* What was received stays what was sent.                                  *)
LEMMA KeptStays ==
  ASSUME NEW lg \in Seq(Entry), NEW lg2 \in Seq(Entry), Grown(lg, lg2),
         ReceiverTypes, Kept(lg)
  PROVE  Kept(lg2)
<1>1. Len(got) \in Nat /\ Len(lg) \in Nat /\ Len(lg2) \in Nat
  BY DEF ReceiverTypes
<1>2. Len(got) <= Len(lg) /\ Len(lg) <= Len(lg2)
  BY DEF Kept, Grown
<1>3. ASSUME NEW i \in 1..Len(got)
      PROVE  lg2[i].end > 0 /\ got[i].hdr = lg2[i].hdr /\ got[i].body = lg2[i].body
  <2>1. lg[i].end > 0 /\ got[i].hdr = lg[i].hdr /\ got[i].body = lg[i].body
    BY DEF Kept
  <2>2. i \in 1..Len(lg)
    BY <1>1, <1>2
  <2>3. lg2[i] = lg[i]
    BY <2>1, <2>2 DEF Grown, Later
  <2>4. QED
    BY <2>1, <2>3
<1>4. rpc \notin {"idle", "failed"} => Len(got) < Len(lg2)
  BY <1>1, <1>2 DEF Kept
<1>5. Len(got) <= Len(lg2)
  BY <1>1, <1>2
<1>6. QED
  BY <1>3, <1>4, <1>5 DEF Kept

(* The sender takes a step, and the receiver rests.                        *)
Rests == UNCHANGED <<layered, ahead, Http!receiver>>

LEMMA SenderStep ==
  ASSUME ReceiverTypes, Kept(log), Rests, NEW s, NEW ms, Inv(s, ms),
         NEW s2, NEW ms2, Extends(s, s2), ms \subseteq ms2, Grown(log, log'),
         Sent(s2, ms2, log', spc'), Left(s2, wire', pos), SenderTypes'
  PROVE  HttpInv'
<1>1. /\ s \in Seq(Symbol) /\ ms \subseteq Mark /\ log \in Seq(Entry)
      /\ s2 \in Seq(Symbol) /\ ms2 \subseteq Mark /\ log' \in Seq(Entry)
  BY DEF Inv, Sent, Typed
<1>2. /\ layered' = layered /\ ahead' = ahead /\ rpc' = rpc /\ in' = in /\ via' = via
      /\ clen' = clen /\ tbuf' = tbuf /\ pos' = pos /\ got' = got
  BY DEF Rests, Http!receiver
<1>3. /\ wire \in Seq(Symbol) /\ wire' \in Seq(Symbol) /\ pos \in Nat
      /\ Len(s) = pos + Len(wire) /\ Len(s2) = pos + Len(wire') /\ Len(s) <= Len(s2)
  BY DEF Inv, Left, Extends
<1>4. ReceiverTypes'
  <2>1. Len(wire) \in Nat /\ Len(wire') \in Nat /\ Len(wire) <= Len(wire')
    BY <1>3
  <2>2. ahead \in 0..Len(wire')
    BY <2>1 DEF ReceiverTypes
  <2>3. QED
    BY <1>2, <2>2 DEF ReceiverTypes
<1>5. Kept(log')
  BY <1>1, KeptStays
<1>6. Kept(log)'
  BY <1>2, <1>5 DEF Kept
<1> DEFINE i == Len(got) + 1
<1>7. i \in 1..Len(log) + 1 /\ (i = 1 \/ log[i - 1].end > 0)
  <2>1. Len(got) \in Nat /\ Len(got) <= Len(log) /\ Len(log) \in Nat
    BY <1>1 DEF ReceiverTypes, Kept
  <2>2. i = 1 \/ i - 1 \in 1..Len(got)
    BY <2>1
  <2>3. QED
    BY <2>1, <2>2 DEF Kept
<1>8. Begin(log', i) = Begin(log, i)
  BY <1>1, <1>7, BeginStays
<1>9. rpc \in {"idle", "failed"}
      \/ (log[i] \in Entry /\ log'[i] \in Entry /\ Later(log[i], log'[i]))
  <2>1. CASE rpc \notin {"idle", "failed"}
    <3>1. Len(got) \in Nat /\ Len(got) < Len(log) /\ Len(log) <= Len(log')
          /\ Len(log) \in Nat /\ Len(log') \in Nat
      BY <1>1, <2>1 DEF ReceiverTypes, Kept, Grown
    <3>2. i \in 1..Len(log) /\ i \in 1..Len(log')
      BY <3>1
    <3>3. QED
      BY <1>1, <3>2 DEF Grown
  <2>2. QED
    BY <2>1
<1>10. Current(s, ms, log[i], i, Begin(log, i))
  BY DEF Inv
<1>11. Current(s2, ms2, log'[i], i, Begin(log', i))
  <2> HIDE DEF i
  <2>1. QED
    BY <1>1, <1>3, <1>8, <1>9, <1>10, CurrentGrows
<1>12. PICK k, e, o : k = i /\ e = log'[k] /\ o = Begin(log', k)
  OBVIOUS
<1>13. Current(s2, ms2, e, k, o)
  BY <1>11, <1>12
<1>14. Current(s2, ms2, e, k, o)'
  BY <1>2, <1>13 DEF Current, InHead, InBody, AtMark, InChunk, AfterChunk, Held
<1>15. k = (Len(got) + 1)' /\ e = (log[Len(got) + 1])' /\ o = (Begin(log, Len(got) + 1))'
  <2>1. k = (Len(got) + 1)'
    BY <1>2, <1>12
  <2>2. (Begin(log, Len(got) + 1))' = Begin(log', k)
    BY <2>1 DEF Begin
  <2>3. QED
    BY <1>12, <2>1, <2>2
<1>16. Current(s2, ms2, log[Len(got) + 1], Len(got) + 1, Begin(log, Len(got) + 1))'
  BY <1>14, <1>15 DEF Current, InHead, InBody, AtMark, InChunk, AfterChunk, Held
<1>17. Inv(s2, ms2)'
  <2>1. Sent(s2, ms2, log, spc)' /\ Left(s2, wire, pos)'
    BY <1>2
  <2>2. QED
    BY <1>16, <2>1 DEF Inv
<1>18. QED
  BY <1>4, <1>6, <1>17 DEF HttpInv

(* Where the sender is after it has added e, as message n.                 *)
Closing(s, ms, e, n, sp) ==
  /\ sp \in {"idle", "chunks", "closed"}
  /\ sp = "idle" => e.end = Len(s) /\ e.end > 0
  /\ sp # "idle" => e.end = 0
  /\ sp = "chunks" => e.kind = "chunked" /\ M(Len(s), n, Len(e.body)) \in ms

LEMMA TipIs ==
  ASSUME NEW s, NEW ms, NEW lg \in Seq(Entry), NEW sp, NEW n \in Nat \ {0}, Len(lg) = n,
         \A i \in 1..n - 1 : lg[i].end > 0,
         Closing(s, ms, lg[n], n, sp)
  PROVE  Tip(s, ms, lg, sp)
<1>1. Begin(lg, n + 1) = lg[n].end
  BY DEF Begin
<1>2. QED
  BY <1>1 DEF Tip, Closing

LEMMA NewMessage ==
  ASSUME NEW s, NEW ms, NEW lg, Sent(s, ms, lg, "idle"),
         NEW s2 \in Seq(Symbol), Extends(s, s2),
         NEW ms2, ms \subseteq ms2, ms2 \subseteq Mark,
         NEW e \in Entry, NEW n, n = Len(lg) + 1, NEW sp2,
         \/ Message(s2, ms2, e, n, Len(s))
         \/ sp2 = "closed" /\ Garbled(s2, e, Len(s)),
         \A m \in ms2 : m \in ms \/ (m.i = n /\ ChunkAt(s2, ms2, e, m, n, sp2)),
         Closing(s2, ms2, e, n, sp2)
  PROVE  Sent(s2, ms2, Append(lg, e), sp2) /\ Grown(lg, Append(lg, e))
<1>1. s \in Seq(Symbol) /\ ms \subseteq Mark /\ lg \in Seq(Entry)
  BY DEF Sent, Typed
<1>2. PICK lg2 : lg2 = Append(lg, e)
  OBVIOUS
<1>3. /\ lg2 \in Seq(Entry) /\ Len(lg2) = n /\ lg2[n] = e /\ n \in Nat \ {0}
      /\ \A i \in 1..Len(lg) : lg2[i] = lg[i]
  BY <1>1, <1>2
<1>4. Grown(lg, lg2)
  <2>1. \A i \in 1..Len(lg) : Later(lg[i], lg2[i])
    BY <1>1, <1>3, LaterSame
  <2>2. Len(lg) <= Len(lg2)
    BY <1>1, <1>3
  <2>3. QED
    BY <2>1, <2>2 DEF Grown
<1>5. \A i \in 1..Len(lg) : lg[i].end > 0
  <2>1. \A i \in 1..Len(lg) : i \in 1..Len(lg) - 1 \/ (i = Len(lg) /\ Len(lg) > 0)
    BY <1>1
  <2>2. QED
    BY <2>1 DEF Sent, Tip
<1>6. Begin(lg2, n) = Len(s)
  <2>1. Begin(lg, n) = Len(s)
    BY DEF Sent, Tip
  <2>2. n \in 1..Len(lg) + 1 /\ (n = 1 \/ n - 1 \in 1..Len(lg))
    BY <1>1, <1>3
  <2>3. QED
    BY <1>1, <1>3, <1>4, <1>5, <2>1, <2>2, BeginStays
<1>7. Tip(s2, ms2, lg2, sp2)
  <2>1. \A i \in 1..n - 1 : lg2[i].end > 0
    <3>1. \A i \in 1..n - 1 : i \in 1..Len(lg)
      BY <1>1
    <3>2. QED
      BY <1>3, <1>5, <3>1
  <2>2. QED
    BY <1>3, <2>1, TipIs
<1>8. \A i \in Len(lg) + 1..Len(lg2) :
        \/ Message(s2, ms2, lg2[i], i, Begin(lg2, i))
        \/ i = Len(lg2) /\ sp2 = "closed" /\ Garbled(s2, lg2[i], Begin(lg2, i))
  <2>1. \A i \in Len(lg) + 1..Len(lg2) : i = n
    BY <1>1, <1>3
  <2>2. QED
    BY <1>3, <1>6, <2>1
<1>9. \A m \in ms2 : (m \in ms => m.i = Len(lg) /\ NoChunk(s, lg[m.i], m)) =>
        m.i \in 1..Len(lg2) /\ ChunkAt(s2, ms2, lg2[m.i], m, Len(lg2), sp2)
  <2>1. ASSUME NEW m \in ms2, m \in ms, m.i = Len(lg), NoChunk(s, lg[m.i], m)
        PROVE  FALSE
    <3>1. m.i \in 1..Len(lg)
      BY <2>1 DEF Sent, Chunks
    <3>2. QED
      BY <1>5, <2>1, <3>1 DEF NoChunk
  <2>2. ASSUME NEW m \in ms2, m \notin ms
        PROVE  m.i \in 1..Len(lg2) /\ ChunkAt(s2, ms2, lg2[m.i], m, Len(lg2), sp2)
    <3>1. m.i = n /\ ChunkAt(s2, ms2, e, m, n, sp2)
      BY <2>2
    <3>2. n \in 1..n
      BY <1>3
    <3>3. QED
      BY <1>3, <3>1, <3>2
  <2>3. QED
    BY <2>1, <2>2
<1>10. Typed(s2, ms2, lg2)
  BY <1>3 DEF Typed
<1>11. Sent(s2, ms2, lg2, sp2)
  <2>1. "idle" # "closed"
    OBVIOUS
  <2>2. QED
    BY <1>4, <1>7, <1>8, <1>9, <1>10, <2>1, SentGrows
<1>12. QED
  BY <1>2, <1>4, <1>11

LEMMA OpenMessage ==
  ASSUME NEW s, NEW ms, NEW lg, Sent(s, ms, lg, "chunks"),
         NEW s2 \in Seq(Symbol), Extends(s, s2),
         NEW ms2, ms \subseteq ms2, ms2 \subseteq Mark,
         NEW n, n = Len(lg), NEW e2 \in Entry, Later(lg[n], e2), NEW sp2,
         \A m \in ms2 : (m \in ms => m.i = n /\ NoChunk(s, lg[n], m)) =>
           m.i = n /\ ChunkAt(s2, ms2, e2, m, n, sp2),
         Closing(s2, ms2, e2, n, sp2)
  PROVE  /\ Sent(s2, ms2, [lg EXCEPT ![n] = e2], sp2)
         /\ Grown(lg, [lg EXCEPT ![n] = e2])
<1>1. s \in Seq(Symbol) /\ ms \subseteq Mark /\ lg \in Seq(Entry)
  BY DEF Sent, Typed
<1>2. PICK lg2 : lg2 = [lg EXCEPT ![n] = e2]
  OBVIOUS
<1>3. n \in Nat \ {0} /\ n \in 1..Len(lg)
  <2>1. Len(lg) > 0 /\ Len(lg) \in Nat
    BY <1>1 DEF Sent, Tip
  <2>2. QED
    BY <2>1
<1>4. /\ lg2 \in Seq(Entry) /\ Len(lg2) = n /\ lg2[n] = e2
      /\ \A i \in 1..n : i # n => lg2[i] = lg[i]
  BY <1>1, <1>2, <1>3
<1>5. Grown(lg, lg2)
  <2>1. \A i \in 1..Len(lg) : Later(lg[i], lg2[i])
    BY <1>1, <1>4, LaterSame
  <2>2. Len(lg) <= Len(lg2)
    BY <1>3, <1>4
  <2>3. QED
    BY <2>1, <2>2 DEF Grown
<1>6. Tip(s2, ms2, lg2, sp2)
  <2>1. \A i \in 1..n - 1 : lg[i].end > 0
    BY DEF Sent, Tip
  <2>2. \A i \in 1..n - 1 : i \in 1..n /\ i # n
    BY <1>3
  <2>3. \A i \in 1..n - 1 : lg2[i].end > 0
    BY <1>4, <2>1, <2>2
  <2>4. QED
    BY <1>3, <1>4, <2>3, TipIs
<1>7. \A i \in Len(lg) + 1..Len(lg2) :
        \/ Message(s2, ms2, lg2[i], i, Begin(lg2, i))
        \/ i = Len(lg2) /\ sp2 = "closed" /\ Garbled(s2, lg2[i], Begin(lg2, i))
  <2>1. \A i \in Len(lg) + 1..Len(lg2) : FALSE
    BY <1>3, <1>4
  <2>2. QED
    BY <2>1
<1>8. \A m \in ms2 : (m \in ms => m.i = Len(lg) /\ NoChunk(s, lg[m.i], m)) =>
        m.i \in 1..Len(lg2) /\ ChunkAt(s2, ms2, lg2[m.i], m, Len(lg2), sp2)
  <2>1. ASSUME NEW m \in ms2, m \in ms => m.i = Len(lg) /\ NoChunk(s, lg[m.i], m)
        PROVE  m.i \in 1..Len(lg2) /\ ChunkAt(s2, ms2, lg2[m.i], m, Len(lg2), sp2)
    <3>1. m \in ms => m.i = n /\ NoChunk(s, lg[n], m)
      BY <2>1
    <3>2. m.i = n /\ ChunkAt(s2, ms2, e2, m, n, sp2)
      BY <3>1
    <3>3. QED
      BY <1>3, <1>4, <3>2
  <2>2. QED
    BY <2>1
<1>9. Typed(s2, ms2, lg2)
  BY <1>4 DEF Typed
<1>10. Sent(s2, ms2, lg2, sp2)
  <2>1. "chunks" # "closed"
    OBVIOUS
  <2>2. QED
    BY <1>5, <1>6, <1>7, <1>8, <1>9, <2>1, SentGrows
<1>11. QED
  BY <1>2, <1>5, <1>10

(***************************************************************************)
(* The steps of the sender.                                                *)
(***************************************************************************)
Draft == [hdr : Headers, body : Seq(Octet), empty : BOOLEAN]

LEMMA HeadersIs ==
  ASSUME NEW h \in Headers
  PROVE  /\ h[Http!CL] \in Seq(Nat) /\ h[Http!TE] \in Seq(Coding)
         /\ DOMAIN h = {Http!CL, Http!TE} /\ Http!CL # Http!TE
         /\ \A v \in Seq(Nat) : [h EXCEPT ![Http!CL] = v] \in Headers
         /\ \A v \in Seq(Coding) : [h EXCEPT ![Http!TE] = v] \in Headers
  BY DEF Headers, Http!CL, Http!TE

LEMMA BodyHeadersIs ==
  ASSUME NEW h \in Headers, NEW n \in Nat
  PROVE  /\ Http!BodyHeaders(h, n) \in Headers
         /\ Http!ContentLength(Http!BodyHeaders(h, n)) = n
         /\ ~Http!ChunkEncoding(Http!BodyHeaders(h, n))
<1> DEFINE te == IF Http!ChunkEncoding(h) THEN <<>> ELSE h[Http!TE]
           h1 == [h EXCEPT ![Http!CL] = <<n>>]
           h2 == [h1 EXCEPT ![Http!TE] = te]
<1>1. te \in Seq(Coding)
  BY HeadersIs
<1>2. h1 \in Headers /\ h1[Http!CL] = <<n>> /\ h1[Http!TE] = h[Http!TE]
  <2>1. <<n>> \in Seq(Nat)
    OBVIOUS
  <2>2. QED
    BY <2>1, HeadersIs
<1>3. h2 \in Headers /\ h2[Http!CL] = <<n>> /\ h2[Http!TE] = te
  <2> HIDE DEF te, h1
  <2>1. QED
    BY <1>1, <1>2, HeadersIs
<1>4. Http!BodyHeaders(h, n) = h2
  BY <1>2 DEF Http!BodyHeaders
<1> HIDE DEF h1, h2
<1>5. Http!ContentLength(h2) = n
  BY <1>3 DEF Http!ContentLength
<1>6. ~Http!ChunkEncoding(h2)
  <2>1. CASE Http!ChunkEncoding(h)
    <3>1. h2[Http!TE] = <<>>
      BY <1>3, <2>1
    <3>2. QED
      BY <3>1 DEF Http!ChunkEncoding, Http!Range
  <2>2. CASE ~Http!ChunkEncoding(h)
    <3>1. h2[Http!TE] = h[Http!TE]
      BY <1>3, <2>2
    <3>2. QED
      BY <2>2, <3>1 DEF Http!ChunkEncoding
  <2>3. QED
    BY <2>1, <2>2
<1>7. QED
  BY <1>3, <1>4, <1>5, <1>6

(* What the caller sets.                                                   *)
LEMMA EditStep ==
  ASSUME HttpInv, NEW m \in Draft, Http!Edit(m)
  PROVE  HttpInv'
<1>1. PICK s, ms : Inv(s, ms)
  BY DEF HttpInv
<1>2. log' = log /\ wire' = wire /\ spc' = spc /\ Rests /\ SenderTypes'
  <2>1. edits \in 0..MaxEdits /\ MaxEdits \in Nat /\ edits < MaxEdits /\ edits' = edits + 1
    BY HttpAssumption DEF HttpInv, SenderTypes, Http!Assumed, Http!Edit
  <2>2. edits' \in 0..MaxEdits
    BY <2>1
  <2>3. QED
    BY <2>2 DEF Http!Edit, Rests, HttpInv, SenderTypes, Draft
<1>3. s \in Seq(Symbol) /\ log \in Seq(Entry)
  BY <1>1 DEF Inv, Sent, Typed
<1>4. Extends(s, s) /\ Grown(log, log)
  BY <1>3, LaterSame DEF Extends, Grown
<1>5. ReceiverTypes /\ Kept(log) /\ ms \subseteq ms
  BY DEF HttpInv
<1>6. Sent(s, ms, log', spc') /\ Left(s, wire', pos) /\ Grown(log, log')
  BY <1>1, <1>2, <1>4 DEF Inv
<1>7. QED
  BY <1>1, <1>2, <1>4, <1>5, <1>6, SenderStep

LEMMA EditsStep ==
  ASSUME HttpInv,
         \/ \E k \in {Http!CL, Http!TE} :
              \/ Http!DelHeader(k)
              \/ \E v \in Http!HeaderValues[k] :
                   Http!AddHeader(k, v) \/ \E ow \in BOOLEAN : Http!SetHeader(k, v, ow)
         \/ \E b \in Bodies : Http!SetBody(b)
         \/ \E e \in BOOLEAN : Http!SetEmptyBody(e)
  PROVE  HttpInv'
<1>1. out \in Draft /\ out.hdr \in Headers
  BY DEF HttpInv, SenderTypes, Draft
<1>2. \A h \in Headers : [out EXCEPT !.hdr = h] \in Draft
  BY <1>1 DEF Draft
<1>3. ASSUME NEW k \in {Http!CL, Http!TE}
      PROVE  /\ [out EXCEPT !.hdr[k] = <<>>] \in Draft
             /\ \A v \in Http!HeaderValues[k] :
                  /\ [out EXCEPT !.hdr[k] = <<v>>] \in Draft
                  /\ [out EXCEPT !.hdr[k] = Append(@, v)] \in Draft
  <2>1. CASE k = Http!CL
    <3>1. Http!HeaderValues[k] \subseteq Nat
      BY <2>1, HttpAssumption DEF Http!HeaderValues, Http!Assumed
    <3>2. /\ <<>> \in Seq(Nat)
          /\ \A v \in Nat : <<v>> \in Seq(Nat) /\ Append(out.hdr[k], v) \in Seq(Nat)
      BY <1>1, <2>1, HeadersIs
    <3>3. \A t \in Seq(Nat) : [out EXCEPT !.hdr[k] = t] \in Draft
      BY <1>1, <1>2, <2>1, HeadersIs
    <3>4. QED
      BY <3>1, <3>2, <3>3
  <2>2. CASE k = Http!TE
    <3>1. Http!HeaderValues[k] \subseteq Coding
      BY <2>2 DEF Http!HeaderValues, Coding, Http!CL, Http!TE
    <3>2. /\ <<>> \in Seq(Coding)
          /\ \A v \in Coding : /\ <<v>> \in Seq(Coding)
                              /\ Append(out.hdr[k], v) \in Seq(Coding)
      BY <1>1, <2>2, HeadersIs
    <3>3. \A t \in Seq(Coding) : [out EXCEPT !.hdr[k] = t] \in Draft
      BY <1>1, <1>2, <2>2, HeadersIs
    <3>4. QED
      BY <3>1, <3>2, <3>3
  <2>3. QED
    BY <2>1, <2>2
<1>4. Bodies \subseteq Seq(Octet)
  BY HttpAssumption DEF Http!Assumed, Octet
<1>5. /\ \A b \in Bodies : [out EXCEPT !.body = b] \in Draft
      /\ \A e \in BOOLEAN : [out EXCEPT !.empty = e] \in Draft
  BY <1>1, <1>4 DEF Draft
<1>6. PICK m \in Draft : Http!Edit(m)
  <2>1. CASE \E k \in {Http!CL, Http!TE} :
               \/ Http!DelHeader(k)
               \/ \E v \in Http!HeaderValues[k] :
                    Http!AddHeader(k, v) \/ \E ow \in BOOLEAN : Http!SetHeader(k, v, ow)
    BY <1>3, <2>1, Zenon DEF Http!DelHeader, Http!AddHeader, Http!SetHeader
  <2>2. CASE \E b \in Bodies : Http!SetBody(b)
    BY <1>5, <2>2 DEF Http!SetBody
  <2>3. CASE \E e \in BOOLEAN : Http!SetEmptyBody(e)
    BY <1>5, <2>3 DEF Http!SetEmptyBody
  <2>4. QED
    BY <2>1, <2>2, <2>3, Zenon
<1>7. QED
  BY <1>6, EditStep

(* What encode() writes, and what it notes.                                *)
Encoded(kind, h, b) ==
  /\ kind \in {"plain", "head", "chunked"} /\ h \in Headers /\ b \in Seq(Octet)
  /\ kind = "plain" => ~Http!ChunkEncoding(h) /\ Http!ContentLength(h) = Len(b)
  /\ kind # "plain" => b = <<>>
  /\ kind = "chunked" => Http!ChunkEncoding(h)
  /\ wire' = (wire \o Five([head |-> h])) \o b
  /\ log' = Append(log, [kind |-> kind, hdr |-> h, body |-> b,
                         end |-> IF kind = "chunked" THEN 0 ELSE pos + Len(wire')])
  /\ spc' = IF kind = "chunked" THEN "chunks" ELSE "idle"

LEMMA EncodeIs ==
  ASSUME HttpInv, NEW kind \in {"plain", "head", "chunked"}, Http!Encode(kind)
  PROVE  /\ \E h, b : Encoded(kind, h, b)
         /\ SenderTypes' /\ Rests /\ spc = "idle"
<1>1. out \in Draft /\ out.hdr \in Headers /\ out.body \in Seq(Octet)
  BY DEF HttpInv, SenderTypes, Draft
<1>2. out.empty <=> kind # "plain"
  BY DEF Http!Encode
<1> DEFINE h == IF out.empty THEN out.hdr ELSE Http!BodyHeaders(out.hdr, Len(out.body))
           b == IF out.empty THEN <<>> ELSE out.body
<1>3. h \in Headers /\ b \in Seq(Octet)
  BY <1>1, BodyHeadersIs
<1>4. kind = "plain" => ~Http!ChunkEncoding(h) /\ Http!ContentLength(h) = Len(b)
  <2>1. CASE kind = "plain"
    <3>1. h = Http!BodyHeaders(out.hdr, Len(out.body)) /\ b = out.body
      BY <1>2, <2>1
    <3>2. Len(out.body) \in Nat
      BY <1>1
    <3> HIDE DEF h, b
    <3>3. QED
      BY <1>1, <3>1, <3>2, BodyHeadersIs
  <2>2. QED
    BY <2>1
<1>5. kind # "plain" => b = <<>>
  BY <1>2
<1>6. /\ kind = "chunked" => Http!ChunkEncoding(h)
      /\ wire' = (wire \o Five([head |-> h])) \o b
      /\ out' = [out EXCEPT !.hdr = h]
      /\ edits' = 0 /\ chunks' = chunks
      /\ log' = Append(log, [kind |-> kind, hdr |-> h, body |-> b,
                             end |-> IF kind = "chunked" THEN 0 ELSE pos + Len(wire')])
      /\ spc' = IF kind = "chunked" THEN "chunks" ELSE "idle"
      /\ spc = "idle" /\ Len(log) < MaxMessages /\ Rests
  BY DEF Http!Encode, Five, Rests
<1> HIDE DEF h, b
<1>7. Encoded(kind, h, b)
  BY <1>3, <1>4, <1>5, <1>6 DEF Encoded
<1>8. SenderTypes'
  <2>1. out' \in [hdr : Headers, body : Seq(Octet), empty : BOOLEAN]
    BY <1>1, <1>3, <1>6 DEF Draft
  <2>2. MaxEdits \in Nat /\ MaxMessages \in Nat
    BY HttpAssumption DEF Http!Assumed
  <2>3. edits' \in 0..MaxEdits /\ chunks' \in 0..MaxChunks
    BY <1>6, <2>2 DEF HttpInv, SenderTypes
  <2>4. Len(log') <= MaxMessages
    <3>1. log \in Seq(Entry)
      BY DEF HttpInv, Inv, Sent, Typed
    <3>2. PICK e : log' = Append(log, e)
      BY <1>6
    <3>3. Len(log') = Len(log) + 1
      BY <3>1, <3>2
    <3>4. QED
      BY <1>6, <2>2, <3>1, <3>3
  <2>5. QED
    BY <2>1, <2>3, <2>4 DEF SenderTypes
<1>9. QED
  BY <1>6, <1>7, <1>8

LEMMA EncodeStep ==
  ASSUME HttpInv, NEW kind \in {"plain", "head", "chunked"}, Http!Encode(kind)
  PROVE  HttpInv'
<1>1. PICK h, b : Encoded(kind, h, b)
  BY EncodeIs
<1>2. SenderTypes' /\ Rests /\ spc = "idle"
  BY EncodeIs
<1>3. PICK s, ms : Inv(s, ms)
  BY DEF HttpInv
<1>4. /\ s \in Seq(Symbol) /\ ms \subseteq Mark /\ log \in Seq(Entry)
      /\ Sent(s, ms, log, "idle") /\ Left(s, wire, pos)
  BY <1>2, <1>3 DEF Inv, Sent, Typed
<1>5. /\ h \in Headers /\ b \in Seq(Octet) /\ b \in Seq(Symbol) /\ [head |-> h] \in Symbol
  <2>1. h \in Headers /\ b \in Seq(Octet)
    BY <1>1 DEF Encoded
  <2>2. Octet \subseteq Symbol
    BY DEF Symbol
  <2>3. QED
    BY <2>1, <2>2, HeadIs
<1>6. PICK s1, s2 : s1 = s \o Five([head |-> h]) /\ s2 = s1 \o b
  OBVIOUS
<1>7. /\ s1 \in Seq(Symbol) /\ Len(s1) = Len(s) + 5 /\ Extends(s, s1)
      /\ HeadAt(s1, Len(s), [head |-> h])
  BY <1>4, <1>5, <1>6, HeadAdded
<1>8. Added(s1, b, s2)
  BY <1>5, <1>6, <1>7, AddedIs
<1>9. /\ s2 \in Seq(Symbol) /\ Len(s2) = Len(s) + 5 + Len(b) /\ Extends(s, s2)
      /\ HeadAt(s2, Len(s), [head |-> h])
      /\ \A j \in 1..Len(b) : s2[Len(s) + 5 + j] = b[j]
  <2>1. s2 \in Seq(Symbol) /\ Extends(s1, s2) /\ Len(s2) = Len(s) + 5 + Len(b)
    BY <1>7, <1>8 DEF Added
  <2>2. Extends(s, s2)
    BY <1>4, <1>7, <2>1, ExtendsTwice
  <2>3. HeadAt(s2, Len(s), [head |-> h])
    BY <1>4, <1>7, <2>1, HeadStays
  <2>4. QED
    BY <1>7, <1>8, <2>1, <2>2, <2>3 DEF Added
<1>10. Left(s2, wire', pos)
  <2>1. Left(s1, wire \o Five([head |-> h]), pos)
    BY <1>4, <1>5, <1>6, FiveIs, LeftGrows
  <2>2. Left(s2, (wire \o Five([head |-> h])) \o b, pos)
    BY <1>5, <1>6, <1>7, <2>1, LeftGrows
  <2>3. QED
    BY <1>1, <2>2 DEF Encoded
<1>11. Len(s2) = pos + Len(wire')
  BY <1>10 DEF Left
<1>12. PICK e, n : /\ e = [kind |-> kind, hdr |-> h, body |-> b,
                           end |-> IF kind = "chunked" THEN 0 ELSE Len(s2)]
                   /\ n = Len(log) + 1
  OBVIOUS
<1>13. log' = Append(log, e)
  BY <1>1, <1>11, <1>12 DEF Encoded
<1>14. /\ e.kind = kind /\ e.hdr = h /\ e.body = b /\ e \in Entry
       /\ e.end = IF kind = "chunked" THEN 0 ELSE Len(s2)
  <2>1. Len(s2) \in Nat
    BY <1>9
  <2>2. QED
    BY <1>5, <1>12, <2>1 DEF Entry
<1>15. n \in Nat /\ n = Len(log) + 1
  BY <1>4, <1>12
<1>16. Len(s) \in Nat /\ Len(b) \in Nat /\ Len(s2) > 0
  BY <1>4, <1>5, <1>9
<1>17. CASE kind = "chunked"
  <2>1. PICK m, ms2 : m = M(Len(s) + 5, n, 0) /\ ms2 = ms \cup {m}
    OBVIOUS
  <2>2. m \in Mark /\ m.o = Len(s) + 5 /\ m.i = n /\ m.d = 0
    BY <1>15, <1>16, <2>1, MarkIs
  <2>3. Len(b) = 0 /\ Len(s2) = Len(s) + 5 /\ spc' = "chunks" /\ Http!ChunkEncoding(h)
    BY <1>1, <1>9, <1>16, <1>17 DEF Encoded
  <2>4. ChunkAt(s2, ms2, e, m, n, "chunks")
    <3>1. NoChunk(s2, e, m)
      BY <1>14, <1>17, <2>2, <2>3 DEF NoChunk
    <3>2. m.d <= Len(e.body) /\ m.o <= Len(s2)
      BY <1>14, <1>16, <2>2, <2>3
    <3>3. QED
      BY <1>14, <1>17, <2>2, <3>1, <3>2 DEF ChunkAt
  <2>5. Closing(s2, ms2, e, n, "chunks")
    <3>1. M(Len(s2), n, Len(e.body)) = m
      BY <1>14, <2>1, <2>3
    <3>2. QED
      BY <1>14, <1>17, <2>1, <3>1 DEF Closing
  <2>6. Message(s2, ms2, e, n, Len(s))
    BY <1>9, <1>14, <1>17, <2>1, <2>3 DEF Message
  <2>7. Sent(s2, ms2, Append(log, e), "chunks") /\ Grown(log, Append(log, e))
    <3>1. ms \subseteq ms2 /\ ms2 \subseteq Mark
      BY <1>4, <2>1, <2>2
    <3>2. \A x \in ms2 : x \in ms \/ (x.i = n /\ ChunkAt(s2, ms2, e, x, n, "chunks"))
      BY <2>1, <2>2, <2>4
    <3>3. QED
      BY <1>4, <1>9, <1>14, <1>15, <2>5, <2>6, <3>1, <3>2, NewMessage
  <2>8. Sent(s2, ms2, log', spc') /\ Grown(log, log') /\ ms \subseteq ms2
    BY <1>13, <2>1, <2>3, <2>7
  <2>9. QED
    BY <1>2, <1>3, <1>9, <1>10, <2>8, SenderStep DEF HttpInv
<1>18. CASE kind # "chunked"
  <2>1. spc' = "idle" /\ e.end = Len(s2)
    BY <1>1, <1>14, <1>18 DEF Encoded
  <2>2. Closing(s2, ms, e, n, "idle")
    BY <1>16, <2>1 DEF Closing
  <2>3. Message(s2, ms, e, n, Len(s))
    <3>1. CASE kind = "plain"
      <4>1. ~Http!ChunkEncoding(h) /\ Http!ContentLength(h) = Len(b)
        BY <1>1, <3>1 DEF Encoded
      <4>2. e.end = Len(s) + 5 + Len(b) /\ e.end <= Len(s2)
        BY <1>9, <1>16, <2>1
      <4>3. Plain(s2, e, Len(s))
        BY <1>9, <1>14, <4>1, <4>2 DEF Plain
      <4>4. QED
        BY <1>9, <1>14, <3>1, <4>3 DEF Message
    <3>2. CASE kind = "head"
      <4>1. b = <<>> /\ Len(b) = 0
        BY <1>1, <3>2 DEF Encoded
      <4>2. e.end = Len(s) + 5
        BY <1>9, <1>16, <2>1, <4>1
      <4>3. QED
        BY <1>9, <1>14, <3>2, <4>1, <4>2 DEF Message
    <3>3. QED
      BY <1>18, <3>1, <3>2
  <2>4. Sent(s2, ms, Append(log, e), "idle") /\ Grown(log, Append(log, e))
    BY <1>4, <1>9, <1>14, <1>15, <2>2, <2>3, NewMessage
  <2>5. Sent(s2, ms, log', spc') /\ Grown(log, log') /\ ms \subseteq ms
    BY <1>13, <2>1, <2>4
  <2>6. QED
    BY <1>2, <1>3, <1>9, <1>10, <2>5, SenderStep DEF HttpInv
<1>19. QED
  BY <1>17, <1>18

(* A chunk b of length n: the line before it, itself, and the line end.    *)
Framed(s, b, n, s1, s2, s3) ==
  /\ n = Len(b)
  /\ s1 = s \o <<[hex |-> n], CR, LF>> /\ s2 = s1 \o b /\ s3 = s2 \o <<CR, LF>>

Laid(s, b, n, s3) ==
  /\ s3 \in Seq(Symbol) /\ Len(s3) = Len(s) + 5 + n /\ Extends(s, s3)
  /\ s3[Len(s) + 1] = [hex |-> n] /\ s3[Len(s) + 2] = CR /\ s3[Len(s) + 3] = LF
  /\ \A j \in 1..n : s3[Len(s) + 3 + j] = b[j]
  /\ s3[Len(s) + 4 + n] = CR /\ s3[Len(s) + 5 + n] = LF

LEMMA ChunkAdded ==
  ASSUME NEW s \in Seq(Symbol), NEW b \in Seq(Symbol), NEW n,
         NEW s1, NEW s2, NEW s3, Framed(s, b, n, s1, s2, s3)
  PROVE  s1 \in Seq(Symbol) /\ s2 \in Seq(Symbol) /\ Laid(s, b, n, s3)
<1>1. PICK t, u : t = <<[hex |-> n], CR, LF>> /\ u = <<CR, LF>>
  OBVIOUS
<1>2. n \in Nat /\ [hex |-> n] \in Symbol /\ CR \in Symbol /\ LF \in Symbol
  <2>1. n \in Nat
    BY DEF Framed
  <2>2. QED
    BY <2>1, HexIs DEF Symbol, Octet
<1>3. /\ t \in Seq(Symbol) /\ Len(t) = 3 /\ t[1] = [hex |-> n] /\ t[2] = CR /\ t[3] = LF
      /\ u \in Seq(Symbol) /\ Len(u) = 2 /\ u[1] = CR /\ u[2] = LF
  BY <1>1, <1>2
<1>4. Added(s, t, s1)
  BY <1>1, <1>3, AddedIs DEF Framed
<1>5. Added(s1, b, s2)
  <2>1. s1 \in Seq(Symbol)
    BY <1>4 DEF Added
  <2>2. QED
    BY <2>1, AddedIs DEF Framed
<1>6. Added(s2, u, s3)
  <2>1. s2 \in Seq(Symbol)
    BY <1>5 DEF Added
  <2>2. QED
    BY <1>1, <1>3, <2>1, AddedIs DEF Framed
<1>7. /\ s1 \in Seq(Symbol) /\ s2 \in Seq(Symbol) /\ s3 \in Seq(Symbol)
      /\ Extends(s, s1) /\ Extends(s1, s2) /\ Extends(s2, s3)
  BY <1>4, <1>5, <1>6 DEF Added
<1>8. Extends(s1, s3) /\ Extends(s, s3)
  BY <1>7, ExtendsTwice
<1> DEFINE l == Len(s)
<1>9. l \in Nat /\ Len(s1) = l + 3 /\ Len(s2) = l + 3 + n /\ Len(s3) = l + 3 + n + 2
  <2>1. l \in Nat /\ Len(s1) = l + Len(t) /\ Len(s2) = Len(s1) + Len(b)
        /\ Len(s3) = Len(s2) + Len(u)
    BY <1>4, <1>5, <1>6 DEF Added
  <2>2. n = Len(b)
    BY DEF Framed
  <2>3. QED
    BY <1>2, <1>3, <2>1, <2>2
<1>10. s1[l + 1] = [hex |-> n] /\ s1[l + 2] = CR /\ s1[l + 3] = LF
  <2>1. s1[l + 1] = t[1] /\ s1[l + 2] = t[2] /\ s1[l + 3] = t[3]
    BY <1>3, <1>4 DEF Added
  <2>2. QED
    BY <1>3, <2>1
<1>11. \A j \in 1..n : s2[l + 3 + j] = b[j]
  BY <1>5, <1>9 DEF Added, Framed
<1>12. s3[l + 3 + n + 1] = CR /\ s3[l + 3 + n + 2] = LF
  <2>1. s3[Len(s2) + 1] = u[1] /\ s3[Len(s2) + 2] = u[2]
    BY <1>3, <1>6 DEF Added
  <2>2. QED
    BY <1>3, <1>9, <2>1
<1> HIDE DEF l
<1>13. s3[l + 1] = s1[l + 1] /\ s3[l + 2] = s1[l + 2] /\ s3[l + 3] = s1[l + 3]
  <2>1. l + 1 \in 1..Len(s1) /\ l + 2 \in 1..Len(s1) /\ l + 3 \in 1..Len(s1)
    BY <1>9
  <2>2. QED
    BY <1>8, <2>1 DEF Extends
<1>14. \A j \in 1..n : s3[l + 3 + j] = b[j]
  <2>1. \A j \in 1..n : l + 3 + j \in 1..Len(s2)
    BY <1>2, <1>9
  <2>2. QED
    BY <1>7, <1>11, <2>1 DEF Extends
<1>15. l + 3 + n + 1 = l + 4 + n /\ l + 3 + n + 2 = l + 5 + n
  BY <1>2, <1>9
<1>16. Len(s3) = l + 5 + n
  BY <1>9, <1>15
<1>17. s3[l + 4 + n] = CR /\ s3[l + 5 + n] = LF
  BY <1>12, <1>15
<1>18. QED
  BY <1>7, <1>8, <1>10, <1>13, <1>14, <1>16, <1>17 DEF l, Laid

(* The message whose chunks are sent.                                      *)
LEMMA OpenIs ==
  ASSUME NEW s, NEW ms, Sent(s, ms, log, "chunks"), NEW n, n = Len(log),
         NEW e, e = log[n]
  PROVE  /\ s \in Seq(Symbol) /\ ms \subseteq Mark /\ log \in Seq(Entry)
         /\ n \in Nat \ {0} /\ n \in 1..Len(log)
         /\ e \in Entry /\ e.kind = "chunked" /\ e.end = 0
         /\ e.body \in Seq(Octet) /\ Len(e.body) \in Nat /\ Len(s) \in Nat
         /\ M(Len(s), n, Len(e.body)) \in ms
         /\ \A m \in Mark : m.i = n /\ NoChunk(s, e, m) => m = M(Len(s), n, Len(e.body))
<1>1. s \in Seq(Symbol) /\ ms \subseteq Mark /\ log \in Seq(Entry)
  BY DEF Sent, Typed
<1>2. Len(log) > 0 /\ e.end = 0 /\ e.kind = "chunked"
      /\ M(Len(s), n, Len(e.body)) \in ms
  BY DEF Sent, Tip
<1>3. n \in Nat \ {0} /\ n \in 1..Len(log)
  BY <1>1, <1>2
<1>4. e \in Entry
  BY <1>1, <1>3
<1>5. e.body \in Seq(Octet) /\ Len(e.body) \in Nat
  BY <1>4 DEF Entry
<1>6. ASSUME NEW m \in Mark, m.i = n, NoChunk(s, e, m)
      PROVE  m = M(Len(s), n, Len(e.body))
  BY <1>6 DEF NoChunk, M, Mark
<1>7. QED
  BY <1>1, <1>2, <1>3, <1>4, <1>5, <1>6

LEMMA WriteStep ==
  ASSUME HttpInv, NEW b \in Bodies, Http!ChunkWrite(b)
  PROVE  HttpInv'
<1>1. PICK s, ms : Inv(s, ms)
  BY DEF HttpInv
<1>2. /\ spc = "chunks" /\ spc' = "chunks" /\ Rests
      /\ wire' = ((wire \o <<[hex |-> Len(b)], CR, LF>>) \o b) \o <<CR, LF>>
      /\ log' = [log EXCEPT ![Len(log)].body = @ \o b]
      /\ b # <<>> /\ chunks < MaxChunks /\ chunks' = chunks + 1
      /\ out' = out /\ edits' = edits
  BY DEF Http!ChunkWrite, Rests
<1>3. Sent(s, ms, log, "chunks") /\ Left(s, wire, pos)
  BY <1>1, <1>2 DEF Inv
<1>4. PICK k, e, n : k = Len(log) /\ e = log[k] /\ n = Len(b)
  OBVIOUS
<1>5. /\ s \in Seq(Symbol) /\ ms \subseteq Mark /\ log \in Seq(Entry)
      /\ k \in Nat /\ k \in 1..Len(log)
      /\ e \in Entry /\ e.kind = "chunked" /\ e.end = 0
      /\ e.body \in Seq(Octet) /\ Len(e.body) \in Nat /\ Len(s) \in Nat
      /\ \A m \in Mark : m.i = k /\ NoChunk(s, e, m) => m = M(Len(s), k, Len(e.body))
  BY <1>3, <1>4, OpenIs
<1>6. b \in Seq(Octet) /\ b \in Seq(Symbol) /\ n \in Nat /\ n > 0
  <2>1. b \in Seq(Octet)
    BY HttpAssumption DEF Http!Assumed, Octet
  <2>2. Octet \subseteq Symbol
    BY DEF Symbol
  <2>3. QED
    BY <1>2, <1>4, <2>1, <2>2
<1>7. PICK s1, s2, s3 : /\ s1 = s \o <<[hex |-> n], CR, LF>> /\ s2 = s1 \o b
                        /\ s3 = s2 \o <<CR, LF>>
  OBVIOUS
<1>8. /\ s1 \in Seq(Symbol) /\ s2 \in Seq(Symbol)
      /\ s3 \in Seq(Symbol) /\ Len(s3) = Len(s) + 5 + n /\ Extends(s, s3)
      /\ s3[Len(s) + 1] = [hex |-> n]
      /\ s3[Len(s) + 2] = CR /\ s3[Len(s) + 3] = LF
      /\ \A j \in 1..n : s3[Len(s) + 3 + j] = b[j]
      /\ s3[Len(s) + 4 + n] = CR /\ s3[Len(s) + 5 + n] = LF
  <2>1. s \in Seq(Symbol) /\ b \in Seq(Symbol)
    BY <1>5, <1>6
  <2>2. Framed(s, b, n, s1, s2, s3)
    BY <1>4, <1>7 DEF Framed
  <2>3. s1 \in Seq(Symbol) /\ s2 \in Seq(Symbol) /\ Laid(s, b, n, s3)
    BY <2>1, <2>2, ChunkAdded
  <2>4. QED
    BY <2>3 DEF Laid
<1>9. Left(s3, wire', pos)
  <2>1. CR \in Symbol /\ LF \in Symbol /\ [hex |-> n] \in Symbol
    BY <1>6, HexIs DEF Symbol, Octet
  <2>2. <<[hex |-> n], CR, LF>> \in Seq(Symbol) /\ <<CR, LF>> \in Seq(Symbol)
    BY <2>1
  <2>3. Left(s1, wire \o <<[hex |-> n], CR, LF>>, pos)
    BY <1>3, <1>5, <1>7, <2>2, LeftGrows
  <2>4. Left(s2, (wire \o <<[hex |-> n], CR, LF>>) \o b, pos)
    BY <1>6, <1>7, <1>8, <2>3, LeftGrows
  <2>5. Left(s3, ((wire \o <<[hex |-> n], CR, LF>>) \o b) \o <<CR, LF>>, pos)
    BY <1>7, <1>8, <2>2, <2>4, LeftGrows
  <2>6. QED
    BY <1>2, <1>4, <2>5
<1>10. PICK e2 : e2 = [e EXCEPT !.body = @ \o b]
  OBVIOUS
<1>11. log' = [log EXCEPT ![k] = e2]
  BY <1>2, <1>4, <1>5, <1>10
<1> DEFINE l == Len(e.body)
<1>12. /\ e2 \in Entry /\ e2.kind = "chunked" /\ e2.hdr = e.hdr /\ e2.end = 0
       /\ e2.body = e.body \o b
  <2>1. e.body \o b \in Seq(Octet)
    BY <1>5, <1>6
  <2>2. PICK t : t = e.body \o b
    OBVIOUS
  <2>3. e2 = [e EXCEPT !.body = t] /\ t \in Seq(Octet)
    BY <1>10, <2>1, <2>2
  <2>4. QED
    BY <1>5, <2>2, <2>3 DEF Entry
<1>13. /\ e2.body \in Seq(Octet) /\ Len(e2.body) = l + n
       /\ \A j \in 1..l : e2.body[j] = e.body[j]
       /\ \A j \in 1..n : e2.body[l + j] = b[j]
  <2>1. Adjoined(e.body, b, e2.body)
    BY <1>5, <1>6, <1>12, JoinIs
  <2>2. Len(b) = n
    BY <1>4
  <2>3. QED
    BY <2>1, <2>2 DEF Adjoined
<1>14. l \in Nat /\ l <= l + n
  BY <1>5, <1>6
<1> HIDE DEF l
<1>15. Later(e, e2)
  BY <1>5, <1>12, <1>13, <1>14 DEF Later, l
<1>16. PICK m, m2, ms2 : /\ m = M(Len(s), k, l) /\ m2 = M(Len(s) + 5 + n, k, l + n)
                         /\ ms2 = ms \cup {m2}
  OBVIOUS
<1>17. /\ m2 \in Mark /\ m2.o = Len(s3) /\ m2.i = k /\ m2.d = l + n
       /\ m \in Mark /\ m.o = Len(s) /\ m.i = k /\ m.d = l
  <2>1. Len(s) + 5 + n \in Nat /\ l + n \in Nat
    BY <1>5, <1>6, <1>14
  <2>2. PICK o, d : o = Len(s) + 5 + n /\ d = l + n
    OBVIOUS
  <2>3. M(o, k, d) \in Mark /\ M(o, k, d).o = o /\ M(o, k, d).i = k /\ M(o, k, d).d = d
    <3>1. o \in Nat /\ k \in Nat /\ d \in Nat
      BY <1>5, <2>1, <2>2
    <3>2. QED
      BY <3>1, MarkIs
  <2>4. m2 \in Mark /\ m2.o = Len(s3) /\ m2.i = k /\ m2.d = l + n
    BY <1>8, <1>16, <2>2, <2>3
  <2>5. M(Len(s), k, l) \in Mark /\ M(Len(s), k, l).o = Len(s)
        /\ M(Len(s), k, l).i = k /\ M(Len(s), k, l).d = l
    <3>1. Len(s) \in Nat /\ k \in Nat /\ l \in Nat
      BY <1>5, <1>14
    <3>2. QED
      BY <3>1, MarkIs
  <2>6. QED
    BY <1>16, <2>4, <2>5
<1>18. ChunkAt(s3, ms2, e2, m2, k, "chunks")
  <2>1. NoChunk(s3, e2, m2)
    BY <1>12, <1>13, <1>17 DEF NoChunk
  <2>2. m2.d <= Len(e2.body) /\ m2.o <= Len(s3)
    BY <1>5, <1>6, <1>8, <1>13, <1>14, <1>17
  <2>3. QED
    BY <1>12, <1>17, <2>1, <2>2 DEF ChunkAt
<1>19. ChunkAt(s3, ms2, e2, m, k, "chunks")
  <2>1. FullChunk(s3, ms2, e2, m, n)
    <3>1. m.o + 5 + n <= Len(s3) /\ m.d + n <= Len(e2.body)
      BY <1>5, <1>6, <1>8, <1>13, <1>14, <1>17
    <3>2. \A j \in 1..n : s3[m.o + 3 + j] = e2.body[m.d + j]
      BY <1>8, <1>13, <1>17
    <3>3. M(m.o + 5 + n, m.i, m.d + n) \in ms2
      BY <1>16, <1>17
    <3>4. QED
      BY <1>6, <1>8, <1>17, <3>1, <3>2, <3>3 DEF FullChunk
  <2>2. m.d <= Len(e2.body) /\ m.o <= Len(s3)
    BY <1>5, <1>6, <1>8, <1>13, <1>14, <1>17
  <2>3. QED
    BY <1>6, <1>12, <2>1, <2>2 DEF ChunkAt
<1>20. Closing(s3, ms2, e2, k, "chunks")
  <2>1. M(Len(s3), k, Len(e2.body)) \in ms2
    BY <1>8, <1>13, <1>16
  <2>2. QED
    BY <1>12, <2>1 DEF Closing
<1>21. \A x \in ms2 : (x \in ms => x.i = k /\ NoChunk(s, log[k], x)) =>
         x.i = k /\ ChunkAt(s3, ms2, e2, x, k, "chunks")
  <2>1. ASSUME NEW x \in ms2, x \in ms => x.i = k /\ NoChunk(s, log[k], x)
        PROVE  x.i = k /\ ChunkAt(s3, ms2, e2, x, k, "chunks")
    <3>1. CASE x = m2
      BY <1>17, <1>18, <3>1
    <3>2. CASE x \in ms
      <4>1. x = m
        BY <1>4, <1>5, <1>16, <2>1, <3>2 DEF l
      <4>2. QED
        BY <1>17, <1>19, <4>1
    <3>3. QED
      BY <1>16, <3>1, <3>2
  <2>2. QED
    BY <2>1
<1>22. Sent(s3, ms2, log', spc') /\ Grown(log, log') /\ ms \subseteq ms2
  <2>1. ms \subseteq ms2 /\ ms2 \subseteq Mark
    BY <1>5, <1>16, <1>17
  <2>2. Later(log[k], e2)
    BY <1>4, <1>15
  <2>3. Sent(s3, ms2, [log EXCEPT ![k] = e2], "chunks")
        /\ Grown(log, [log EXCEPT ![k] = e2])
    <3>1. s3 \in Seq(Symbol) /\ Extends(s, s3) /\ e2 \in Entry
      BY <1>8, <1>12
    <3>2. QED
      BY <1>3, <1>4, <1>20, <1>21, <2>1, <2>2, <3>1, OpenMessage, Zenon
  <2>4. QED
    BY <1>2, <1>11, <2>1, <2>3
<1>23. SenderTypes'
  <2>1. chunks' \in 0..MaxChunks
    BY <1>2, HttpAssumption DEF HttpInv, SenderTypes, Http!Assumed
  <2>2. Len(log') = Len(log)
    BY <1>5, <1>11
  <2>3. QED
    BY <1>2, <2>1, <2>2 DEF HttpInv, SenderTypes
<1>24. QED
  BY <1>1, <1>2, <1>8, <1>9, <1>22, <1>23, SenderStep DEF HttpInv

LEMMA FlushStep ==
  ASSUME HttpInv, Http!ChunkFlush
  PROVE  HttpInv'
<1>1. PICK s, ms : Inv(s, ms)
  BY DEF HttpInv
<1>2. /\ spc = "chunks" /\ spc' = "idle" /\ Rests
      /\ wire' = wire \o Five([hex |-> 0])
      /\ log' = [log EXCEPT ![Len(log)].end = pos + Len(wire')]
      /\ out' = out /\ edits' = edits /\ chunks' = chunks
  BY DEF Http!ChunkFlush, Rests, Five
<1>3. Sent(s, ms, log, "chunks") /\ Left(s, wire, pos)
  BY <1>1, <1>2 DEF Inv
<1>4. PICK k, e : k = Len(log) /\ e = log[k]
  OBVIOUS
<1>5. /\ s \in Seq(Symbol) /\ ms \subseteq Mark /\ log \in Seq(Entry)
      /\ k \in Nat /\ k \in 1..Len(log)
      /\ e \in Entry /\ e.kind = "chunked" /\ e.end = 0
      /\ e.body \in Seq(Octet) /\ Len(e.body) \in Nat /\ Len(s) \in Nat
      /\ \A m \in Mark : m.i = k /\ NoChunk(s, e, m) => m = M(Len(s), k, Len(e.body))
  BY <1>3, <1>4, OpenIs
<1>6. [hex |-> 0] \in Symbol /\ Five([hex |-> 0]) \in Seq(Symbol)
  BY HexIs, FiveIs
<1>7. PICK s2 : s2 = s \o Five([hex |-> 0])
  OBVIOUS
<1>8. /\ s2 \in Seq(Symbol) /\ Len(s2) = Len(s) + 5 /\ Extends(s, s2)
      /\ HeadAt(s2, Len(s), [hex |-> 0])
  BY <1>5, <1>6, <1>7, HeadAdded
<1>9. Left(s2, wire', pos)
  BY <1>2, <1>3, <1>5, <1>6, <1>7, LeftGrows
<1>10. pos + Len(wire') = Len(s2)
  BY <1>9 DEF Left
<1>11. PICK e2 : e2 = [e EXCEPT !.end = Len(s2)]
  OBVIOUS
<1>12. log' = [log EXCEPT ![k] = e2]
  BY <1>2, <1>4, <1>5, <1>10, <1>11
<1>13. /\ e2 \in Entry /\ e2.kind = "chunked" /\ e2.hdr = e.hdr /\ e2.body = e.body
       /\ e2.end = Len(s2)
  <2>1. Len(s2) \in Nat
    BY <1>8
  <2>2. QED
    BY <1>5, <1>11, <2>1 DEF Entry
<1>14. Later(e, e2)
  BY <1>5, <1>13 DEF Later
<1>15. Len(s2) > 0
  BY <1>5, <1>8
<1>16. Closing(s2, ms, e2, k, "idle")
  BY <1>13, <1>15 DEF Closing
<1>17. \A m \in ms : (m \in ms => m.i = k /\ NoChunk(s, log[k], m)) =>
         m.i = k /\ ChunkAt(s2, ms, e2, m, k, "idle")
  <2>1. ASSUME NEW m \in ms, m.i = k, NoChunk(s, log[k], m)
        PROVE  ChunkAt(s2, ms, e2, m, k, "idle")
    <3>1. m.o = Len(s) /\ m.d = Len(e.body)
      BY <1>4, <2>1 DEF NoChunk
    <3>2. LastChunk(s2, e2, m)
      BY <1>8, <1>13, <3>1 DEF LastChunk
    <3>3. m.d <= Len(e2.body) /\ m.o <= Len(s2)
      BY <1>5, <1>8, <1>13, <3>1
    <3>4. QED
      BY <1>13, <3>2, <3>3 DEF ChunkAt
  <2>2. QED
    BY <2>1
<1>18. Sent(s2, ms, log', spc') /\ Grown(log, log') /\ ms \subseteq ms
  <2>1. Later(log[k], e2) /\ ms \subseteq Mark /\ ms \subseteq ms
    BY <1>4, <1>5, <1>14
  <2>2. s2 \in Seq(Symbol) /\ Extends(s, s2) /\ e2 \in Entry
    BY <1>8, <1>13
  <2>3. Sent(s2, ms, [log EXCEPT ![k] = e2], "idle")
        /\ Grown(log, [log EXCEPT ![k] = e2])
    BY <1>3, <1>4, <1>16, <1>17, <2>1, <2>2, OpenMessage, Zenon
  <2>4. QED
    BY <1>2, <1>12, <2>3
<1>19. SenderTypes'
  <2>1. Len(log') = Len(log)
    BY <1>5, <1>12
  <2>2. QED
    BY <1>2, <2>1 DEF HttpInv, SenderTypes
<1>20. QED
  BY <1>1, <1>2, <1>8, <1>9, <1>18, <1>19, SenderStep DEF HttpInv

(* What a sender that breaks off has sent of a chunk.                      *)
Broken(t) ==
  \/ Len(t) = 0
  \/ Len(t) = 4 /\ t[1] = CR /\ t[2] = LF
  \/ /\ Len(t) = 7 /\ t[1] = [hex |-> 1] /\ t[2] = CR /\ t[3] = LF
     /\ t[4] \in Others /\ t[5] \in Others

LEMMA BreakStep ==
  ASSUME HttpInv, spc = "chunks", NEW t \in Seq(Symbol), Broken(t),
         wire' = wire \o t, spc' = "closed",
         UNCHANGED <<out, edits, chunks, log>>, Rests
  PROVE  HttpInv'
<1>1. PICK s, ms : Inv(s, ms)
  BY DEF HttpInv
<1>2. Sent(s, ms, log, "chunks") /\ Left(s, wire, pos)
  BY <1>1 DEF Inv
<1>3. PICK k, e : k = Len(log) /\ e = log[k]
  OBVIOUS
<1>4. /\ s \in Seq(Symbol) /\ ms \subseteq Mark /\ log \in Seq(Entry)
      /\ k \in Nat /\ k \in 1..Len(log)
      /\ e \in Entry /\ e.kind = "chunked" /\ e.end = 0
      /\ e.body \in Seq(Octet) /\ Len(e.body) \in Nat /\ Len(s) \in Nat
      /\ \A m \in Mark : m.i = k /\ NoChunk(s, e, m) => m = M(Len(s), k, Len(e.body))
  BY <1>2, <1>3, OpenIs
<1>5. PICK s2 : s2 = s \o t
  OBVIOUS
<1>6. Added(s, t, s2)
  BY <1>4, <1>5, AddedIs
<1>7. s2 \in Seq(Symbol) /\ Extends(s, s2) /\ Len(s2) = Len(s) + Len(t)
  BY <1>6 DEF Added
<1>8. Left(s2, wire', pos)
  BY <1>2, <1>4, <1>5, LeftGrows
<1>9. Closing(s2, ms, e, k, "closed")
  BY <1>4 DEF Closing
<1>10. \A m \in ms : (m \in ms => m.i = k /\ NoChunk(s, log[k], m)) =>
         m.i = k /\ ChunkAt(s2, ms, e, m, k, "closed")
  <2>1. ASSUME NEW m \in ms, m.i = k, NoChunk(s, log[k], m)
        PROVE  ChunkAt(s2, ms, e, m, k, "closed")
    <3>1. m.o = Len(s) /\ m.d = Len(e.body)
      BY <1>3, <2>1 DEF NoChunk
    <3>2. m.d <= Len(e.body) /\ m.o <= Len(s2)
      BY <1>4, <1>7, <3>1
    <3>3. CASE Len(t) = 0
      <4>1. NoChunk(s2, e, m)
        BY <1>4, <1>7, <3>1, <3>3 DEF NoChunk
      <4>2. QED
        BY <1>4, <2>1, <3>2, <4>1 DEF ChunkAt
    <3>4. CASE Len(t) = 4 /\ t[1] = CR /\ t[2] = LF
      <4>1. s2[Len(s) + 1] = t[1] /\ s2[Len(s) + 2] = t[2]
        BY <1>6, <3>4 DEF Added
      <4>2. BadChunk(s2, e, m)
        BY <1>4, <1>7, <3>1, <3>4, <4>1 DEF BadChunk
      <4>3. QED
        BY <1>4, <2>1, <3>2, <4>2 DEF ChunkAt
    <3>5. CASE /\ Len(t) = 7 /\ t[1] = [hex |-> 1] /\ t[2] = CR /\ t[3] = LF
               /\ t[4] \in Others /\ t[5] \in Others
      <4>1. /\ s2[Len(s) + 1] = t[1] /\ s2[Len(s) + 2] = t[2] /\ s2[Len(s) + 3] = t[3]
            /\ s2[Len(s) + 4] = t[4] /\ s2[Len(s) + 5] = t[5]
        BY <1>6, <3>5 DEF Added
      <4>2. BadChunk(s2, e, m)
        BY <1>4, <1>7, <3>1, <3>5, <4>1 DEF BadChunk
      <4>3. QED
        BY <1>4, <2>1, <3>2, <4>2 DEF ChunkAt
    <3>6. QED
      BY <3>3, <3>4, <3>5 DEF Broken
  <2>2. QED
    BY <2>1
<1>11. Sent(s2, ms, log', spc') /\ Grown(log, log') /\ ms \subseteq ms
  <2>1. Later(log[k], e) /\ ms \subseteq Mark /\ ms \subseteq ms
    BY <1>3, <1>4, LaterSame
  <2>2. Sent(s2, ms, [log EXCEPT ![k] = e], "closed")
        /\ Grown(log, [log EXCEPT ![k] = e])
    BY <1>2, <1>3, <1>4, <1>7, <1>9, <1>10, <2>1, OpenMessage, Zenon
  <2>3. [log EXCEPT ![k] = e] = log
    BY <1>3, <1>4
  <2>4. QED
    BY <2>2, <2>3
<1>12. SenderTypes'
  BY DEF HttpInv, SenderTypes
<1>13. QED
  BY <1>1, <1>7, <1>8, <1>11, <1>12, SenderStep DEF HttpInv

LEMMA GarbleStep ==
  ASSUME HttpInv, NEW x \in Others, spc = "idle", Len(log) < MaxMessages,
         wire' = wire \o Five(x), spc' = "closed",
         log' = Append(log, [kind |-> "plain", hdr |-> Http!NoHeaders, body |-> <<>>,
                             end |-> 0]),
         UNCHANGED <<out, edits, chunks>>, Rests
  PROVE  HttpInv'
<1>1. PICK s, ms : Inv(s, ms)
  BY DEF HttpInv
<1>2. /\ s \in Seq(Symbol) /\ ms \subseteq Mark /\ log \in Seq(Entry)
      /\ Sent(s, ms, log, "idle") /\ Left(s, wire, pos)
  BY <1>1 DEF Inv, Sent, Typed
<1>3. x \in Symbol /\ Five(x) \in Seq(Symbol)
  BY FiveIs DEF Symbol, Octet
<1>4. PICK s2, n, e : /\ s2 = s \o Five(x) /\ n = Len(log) + 1
                      /\ e = [kind |-> "plain", hdr |-> Http!NoHeaders, body |-> <<>>,
                              end |-> 0]
  OBVIOUS
<1>5. /\ s2 \in Seq(Symbol) /\ Extends(s, s2) /\ HeadAt(s2, Len(s), x)
  BY <1>2, <1>3, <1>4, HeadAdded
<1>6. Left(s2, wire', pos)
  BY <1>2, <1>3, <1>4, LeftGrows
<1>7. e \in Entry /\ e.kind = "plain" /\ e.end = 0
  <2>1. Http!NoHeaders \in Headers
    BY DEF Http!NoHeaders, Headers
  <2>2. QED
    BY <1>4, <2>1 DEF Entry
<1>8. Garbled(s2, e, Len(s)) /\ Closing(s2, ms, e, n, "closed")
  BY <1>5, <1>7 DEF Garbled, Closing
<1>9. Sent(s2, ms, Append(log, e), "closed") /\ Grown(log, Append(log, e))
  <2>1. \A m \in ms : m \in ms \/ (m.i = n /\ ChunkAt(s2, ms, e, m, n, "closed"))
    OBVIOUS
  <2>2. QED
    BY <1>2, <1>4, <1>5, <1>7, <1>8, <2>1, NewMessage
<1>10. Sent(s2, ms, log', spc') /\ Grown(log, log') /\ ms \subseteq ms
  BY <1>4, <1>9
<1>11. SenderTypes'
  <2>1. Len(log') <= MaxMessages
    <3>1. Len(log') = Len(log) + 1 /\ MaxMessages \in Nat /\ Len(log) \in Nat
      BY <1>2, <1>4, HttpAssumption DEF Http!Assumed
    <3>2. QED
      BY <3>1
  <2>2. QED
    BY <2>1 DEF HttpInv, SenderTypes
<1>12. QED
  BY <1>1, <1>5, <1>6, <1>10, <1>11, SenderStep DEF HttpInv

LEMMA SendStep ==
  ASSUME HttpInv, Http!Send
  PROVE  HttpInv'
<1> DEFINE Edits == \/ \E k \in {Http!CL, Http!TE} :
                         \/ Http!DelHeader(k)
                         \/ \E v \in Http!HeaderValues[k] :
                              \/ Http!AddHeader(k, v)
                              \/ \E ow \in BOOLEAN : Http!SetHeader(k, v, ow)
                    \/ \E b \in Bodies : Http!SetBody(b)
                    \/ \E e \in BOOLEAN : Http!SetEmptyBody(e)
<1>1. \/ Edits
      \/ \E b \in Bodies : Http!ChunkWrite(b)
      \/ \E kind \in {"plain", "head", "chunked"} : Http!Encode(kind)
      \/ Http!ChunkFlush \/ Http!CloseWire \/ Http!Garble
  BY Zenon DEF Http!Send
<1>2. ASSUME Edits PROVE HttpInv'
  BY <1>2, EditsStep, Zenon
<1>3. ASSUME Http!CloseWire PROVE HttpInv'
  <2>1. wire \in Seq(Symbol)
    BY DEF HttpInv, Inv, Left
  <2>2. /\ spc = "chunks" /\ spc' = "closed" /\ wire' = wire \o <<>>
        /\ UNCHANGED <<out, edits, chunks, log>> /\ Rests
    BY <1>3, <2>1 DEF Http!CloseWire, Rests
  <2>3. <<>> \in Seq(Symbol) /\ Broken(<<>>)
    BY DEF Broken
  <2>4. QED
    BY <2>2, <2>3, BreakStep
<1>4. ASSUME Http!Garble PROVE HttpInv'
  <2>1. PICK x \in Others :
          /\ \/ /\ spc = "idle" /\ Len(log) < MaxMessages
                /\ wire' = wire \o Five(x)
                /\ log' = Append(log, [kind |-> "plain", hdr |-> Http!NoHeaders,
                                       body |-> <<>>, end |-> 0])
             \/ /\ spc = "chunks"
                /\ \/ wire' = wire \o <<CR, LF, CR, LF>>
                   \/ wire' = wire \o <<[hex |-> 1], CR, LF, x, x, CR, LF>>
                /\ log' = log
          /\ spc' = "closed"
          /\ UNCHANGED <<out, edits, chunks>> /\ Rests
    BY <1>4 DEF Http!Garble, Five, Rests
  <2>2. CR \in Symbol /\ LF \in Symbol /\ x \in Symbol /\ [hex |-> 1] \in Symbol
    BY HexIs DEF Symbol, Octet
  <2>3. CASE spc = "idle"
    BY <2>1, <2>3, GarbleStep
  <2>4. CASE spc = "chunks" /\ wire' = wire \o <<CR, LF, CR, LF>>
    <3>1. <<CR, LF, CR, LF>> \in Seq(Symbol) /\ Broken(<<CR, LF, CR, LF>>)
      BY <2>2 DEF Broken
    <3>2. QED
      BY <2>1, <2>4, <3>1, BreakStep
  <2>5. CASE spc = "chunks" /\ wire' = wire \o <<[hex |-> 1], CR, LF, x, x, CR, LF>>
    <3>1. PICK t : t = <<[hex |-> 1], CR, LF, x, x, CR, LF>>
      OBVIOUS
    <3>2. t \in Seq(Symbol) /\ Broken(t)
      BY <2>2, <3>1 DEF Broken
    <3>3. QED
      BY <2>1, <2>5, <3>1, <3>2, BreakStep
  <2>6. QED
    BY <2>1, <2>3, <2>4, <2>5
<1>5. QED
  BY <1>1, <1>2, <1>3, <1>4, WriteStep, EncodeStep, FlushStep
-----------------------------------------------------------------------------
(***************************************************************************)
(* The steps of the receiver.                                              *)
(***************************************************************************)
LEMMA MinimumIs ==
  ASSUME NEW S \in SUBSET Nat, NEW x \in S, \A y \in S : x <= y
  PROVE  Http!Min(S) = x
<1>1. \A z \in S : (\A y \in S : z <= y) => z = x
  <2>1. ASSUME NEW z \in S, \A y \in S : z <= y
        PROVE  z = x
    <3>1. z <= x /\ x <= z /\ x \in Nat /\ z \in Nat
      BY <2>1
    <3>2. QED
      BY <3>1
  <2>2. QED
    BY <2>1
<1>2. QED
  BY <1>1 DEF Http!Min

(* The first symbols, or those after the first.                            *)
LEMMA WindowIs ==
  ASSUME wire \in Seq(Symbol), NEW k \in {0, 1}, NEW n \in {2, 4}, k + n <= Len(wire),
         NEW d \in Seq(Symbol), Len(d) = n, \A j \in 1..n : wire[k + j] = d[j]
  PROVE  SubSeq(wire, k + 1, k + n) = d
<1> DEFINE t == SubSeq(wire, k + 1, k + n)
<1>1. t \in Seq(Symbol) /\ Len(t) = n /\ \A j \in 1..n : t[j] = wire[k + j]
  OBVIOUS
<1> HIDE DEF t
<1>2. t = d
  BY <1>1, SeqEqual
<1>3. QED
  BY <1>2 DEF t

LEMMA Ends ==
  /\ <<CR, LF, CR, LF>> \in Seq(Symbol) /\ <<CR, LF>> \in Seq(Symbol)
<1>1. CR \in Symbol /\ LF \in Symbol
  BY DEF Symbol, Octet
<1>2. QED
  BY <1>1

(* Where read_until stops, after a head, ...                               *)
LEMMA EndOfHead ==
  ASSUME wire \in Seq(Symbol), 5 <= Len(wire), wire[1] # CR,
         wire[2] = CR, wire[3] = LF, wire[4] = CR, wire[5] = LF
  PROVE  Http!EndOf(<<CR, LF, CR, LF>>) = 5
<1> DEFINE d == <<CR, LF, CR, LF>>
           ends == {i \in Len(d)..Len(wire) : SubSeq(wire, i - Len(d) + 1, i) = d}
<1>1. Len(d) = 4 /\ d[1] = CR /\ Len(wire) \in Nat
  OBVIOUS
<1>2. SubSeq(wire, 2, 5) = d
  <2>1. \A j \in 1..4 : wire[1 + j] = d[j]
    OBVIOUS
  <2>2. d \in Seq(Symbol)
    BY Ends
  <2>3. SubSeq(wire, 1 + 1, 1 + 4) = d
    <3> HIDE DEF d
    <3>1. QED
      BY <1>1, <2>1, <2>2, WindowIs
  <2>4. QED
    BY <2>3
<1>3. SubSeq(wire, 1, 4) # d
  <2>1. SubSeq(wire, 1, 4)[1] = wire[1]
    OBVIOUS
  <2>2. QED
    BY <1>1, <2>1
<1> HIDE DEF d
<1>4. 5 \in ends
  BY <1>1, <1>2
<1>5. \A i \in ends : i \in Nat /\ 5 <= i
  <2>1. ASSUME NEW i \in ends
        PROVE  i \in Nat /\ 5 <= i
    <3>1. i \in 4..Len(wire) /\ SubSeq(wire, i - 4 + 1, i) = d
      BY <1>1
    <3>2. CASE i = 4
      <4>1. i - 4 + 1 = 1
        BY <3>2
      <4>2. SubSeq(wire, 1, 4) = d
        BY <3>1, <3>2, <4>1
      <4>3. QED
        BY <1>3, <4>2
    <3>3. CASE i # 4
      BY <3>1, <3>3
    <3>4. QED
      BY <3>2, <3>3
  <2>2. QED
    BY <2>1
<1>6. Http!EndOf(d) = IF ends = {} THEN 0 ELSE Http!Min(ends)
  BY DEF Http!EndOf
<1> HIDE DEF ends
<1>7. Http!Min(ends) = 5
  BY <1>4, <1>5, MinimumIs
<1>8. QED
  BY <1>4, <1>6, <1>7 DEF d

(* ... after the length of a chunk, ...                                    *)
LEMMA EndOfLine ==
  ASSUME wire \in Seq(Symbol), 3 <= Len(wire), wire[1] # CR, wire[2] = CR, wire[3] = LF
  PROVE  Http!EndOf(<<CR, LF>>) = 3
<1> DEFINE d == <<CR, LF>>
           ends == {i \in Len(d)..Len(wire) : SubSeq(wire, i - Len(d) + 1, i) = d}
<1>1. Len(d) = 2 /\ d[1] = CR /\ Len(wire) \in Nat
  OBVIOUS
<1>2. SubSeq(wire, 2, 3) = d
  <2>1. \A j \in 1..2 : wire[1 + j] = d[j]
    OBVIOUS
  <2>2. d \in Seq(Symbol)
    BY Ends
  <2>3. SubSeq(wire, 1 + 1, 1 + 2) = d
    <3> HIDE DEF d
    <3>1. QED
      BY <1>1, <2>1, <2>2, WindowIs
  <2>4. QED
    BY <2>3
<1>3. SubSeq(wire, 1, 2) # d
  <2>1. SubSeq(wire, 1, 2)[1] = wire[1]
    OBVIOUS
  <2>2. QED
    BY <1>1, <2>1
<1> HIDE DEF d
<1>4. 3 \in ends
  BY <1>1, <1>2
<1>5. \A i \in ends : i \in Nat /\ 3 <= i
  <2>1. ASSUME NEW i \in ends
        PROVE  i \in Nat /\ 3 <= i
    <3>1. i \in 2..Len(wire) /\ SubSeq(wire, i - 2 + 1, i) = d
      BY <1>1
    <3>2. CASE i = 2
      <4>1. i - 2 + 1 = 1
        BY <3>2
      <4>2. SubSeq(wire, 1, 2) = d
        BY <3>1, <3>2, <4>1
      <4>3. QED
        BY <1>3, <4>2
    <3>3. CASE i # 2
      BY <3>1, <3>3
    <3>4. QED
      BY <3>2, <3>3
  <2>2. QED
    BY <2>1
<1>6. Http!EndOf(d) = IF ends = {} THEN 0 ELSE Http!Min(ends)
  BY DEF Http!EndOf
<1> HIDE DEF ends
<1>7. Http!Min(ends) = 3
  BY <1>4, <1>5, MinimumIs
<1>8. QED
  BY <1>4, <1>6, <1>7 DEF d

(* ... at a line that is empty, ...                                        *)
LEMMA EndOfBlank ==
  ASSUME wire \in Seq(Symbol), 2 <= Len(wire), wire[1] = CR, wire[2] = LF
  PROVE  Http!EndOf(<<CR, LF>>) = 2
<1> DEFINE d == <<CR, LF>>
           ends == {i \in Len(d)..Len(wire) : SubSeq(wire, i - Len(d) + 1, i) = d}
<1>1. Len(d) = 2 /\ Len(wire) \in Nat
  OBVIOUS
<1>2. SubSeq(wire, 1, 2) = d
  <2>1. \A j \in 1..2 : wire[0 + j] = d[j]
    OBVIOUS
  <2>2. d \in Seq(Symbol)
    BY Ends
  <2>3. SubSeq(wire, 0 + 1, 0 + 2) = d
    <3> HIDE DEF d
    <3>1. QED
      BY <1>1, <2>1, <2>2, WindowIs
  <2>4. QED
    BY <2>3
<1> HIDE DEF d
<1>3. 2 \in ends
  BY <1>1, <1>2
<1>4. \A i \in ends : i \in Nat /\ 2 <= i
  BY <1>1
<1>5. Http!EndOf(d) = IF ends = {} THEN 0 ELSE Http!Min(ends)
  BY DEF Http!EndOf
<1> HIDE DEF ends
<1>6. Http!Min(ends) = 2
  BY <1>3, <1>4, MinimumIs
<1>7. QED
  BY <1>3, <1>5, <1>6 DEF d

(* ... and when nothing has come.                                          *)
LEMMA EndOfNothing ==
  ASSUME wire \in Seq(Symbol), Len(wire) = 0
  PROVE  Http!EndOf(<<CR, LF>>) = 0
<1> DEFINE d == <<CR, LF>>
           ends == {i \in Len(d)..Len(wire) : SubSeq(wire, i - Len(d) + 1, i) = d}
<1>1. ends = {}
  OBVIOUS
<1>2. Http!EndOf(d) = IF ends = {} THEN 0 ELSE Http!Min(ends)
  BY DEF Http!EndOf
<1>3. QED
  BY <1>1, <1>2

(* What a read of n symbols does.                                          *)
Taken(s, n) ==
  /\ n <= Len(wire) /\ pos' = pos + n /\ Left(s, wire', pos')
  /\ ahead' \in 0..Len(wire') /\ (layered => ahead' = 0)

LEMMA TakeExactlyIs ==
  ASSUME ReceiverTypes, NEW s \in Seq(Symbol), Left(s, wire, pos),
         NEW n \in Nat, Http!TakeExactly(n)
  PROVE  Taken(s, n)
<1>1. wire \in Seq(Symbol) /\ Len(wire) \in Nat /\ n <= Len(wire)
  BY DEF Left, Http!TakeExactly
<1>2. wire' = SubSeq(wire, n + 1, Len(wire)) /\ pos' = pos + n
      /\ ahead' = IF ahead > n THEN ahead - n ELSE 0
  BY DEF Http!TakeExactly
<1>3. Left(s, wire', pos')
  BY <1>1, <1>2, LeftBehind
<1>4. Len(wire') = Len(wire) - n
  BY <1>1, <1>2
<1>5. ahead \in 0..Len(wire) /\ (layered => ahead = 0)
  BY DEF ReceiverTypes
<1>6. ahead' \in 0..Len(wire') /\ (layered => ahead' = 0)
  BY <1>1, <1>2, <1>4, <1>5
<1>7. QED
  BY <1>1, <1>2, <1>3, <1>6 DEF Taken

LEMMA TakeUntilIs ==
  ASSUME ReceiverTypes, NEW s \in Seq(Symbol), Left(s, wire, pos),
         NEW d, NEW n \in Nat, Http!EndOf(d) = n, n <= Len(wire), Http!TakeUntil(d)
  PROVE  Taken(s, n)
<1>1. wire \in Seq(Symbol) /\ Len(wire) \in Nat
  BY DEF Left
<1>2. /\ wire' = SubSeq(wire, n + 1, Len(wire)) /\ pos' = pos + n
      /\ ahead' \in IF layered THEN {0}
                    ELSE IF ahead >= n THEN {ahead - n} ELSE 0..(Len(wire) - n)
  BY DEF Http!TakeUntil
<1>3. Left(s, wire', pos')
  BY <1>1, <1>2, LeftBehind
<1>4. Len(wire') = Len(wire) - n
  BY <1>1, <1>2
<1>5. ahead \in 0..Len(wire)
  BY DEF ReceiverTypes
<1>6. ahead' \in 0..Len(wire') /\ (layered => ahead' = 0)
  BY <1>1, <1>2, <1>4, <1>5
<1>7. QED
  BY <1>2, <1>3, <1>6 DEF Taken

(* The receiver is at message i, which is e and begins after o.            *)
Facing(s, ms, e, i, o) ==
  /\ Sent(s, ms, log, spc) /\ Left(s, wire, pos) /\ Current(s, ms, e, i, o)
  /\ i = Len(got) + 1 /\ e = log[i] /\ o = Begin(log, i)

LEMMA FacingIs ==
  ASSUME HttpInv
  PROVE  \E s, ms, e, i, o : Facing(s, ms, e, i, o)
<1>1. PICK s, ms : Inv(s, ms)
  BY DEF HttpInv
<1>2. PICK e, i, o : i = Len(got) + 1 /\ e = log[i] /\ o = Begin(log, i)
  OBVIOUS
<1>3. Current(s, ms, log[Len(got) + 1], Len(got) + 1, Begin(log, Len(got) + 1))
  BY <1>1 DEF Inv
<1>4. Current(s, ms, e, i, o)
  BY <1>2, <1>3
<1>5. QED
  BY <1>1, <1>2, <1>4 DEF Inv, Facing

LEMMA FacedIs ==
  ASSUME HttpInv, NEW s, NEW ms, NEW e, NEW i, NEW o, Facing(s, ms, e, i, o)
  PROVE  /\ s \in Seq(Symbol) /\ ms \subseteq Mark /\ log \in Seq(Entry)
         /\ wire \in Seq(Symbol) /\ Len(wire) \in Nat /\ pos \in Nat
         /\ Len(s) = pos + Len(wire) /\ Left(s, wire, pos)
         /\ \A j \in 1..Len(wire) : wire[j] = s[pos + j]
         /\ Len(got) \in Nat /\ i = Len(got) + 1 /\ i \in 1..Len(log) + 1
         /\ o \in Nat /\ o = Begin(log, i)
         /\ rpc \notin {"idle", "failed"} => i \in 1..Len(log) /\ e \in Entry
<1>1. s \in Seq(Symbol) /\ ms \subseteq Mark /\ log \in Seq(Entry) /\ Left(s, wire, pos)
  BY DEF Facing, Sent, Typed
<1>2. /\ wire \in Seq(Symbol) /\ Len(wire) \in Nat /\ pos \in Nat
      /\ Len(s) = pos + Len(wire) /\ \A j \in 1..Len(wire) : wire[j] = s[pos + j]
  BY <1>1 DEF Left
<1>3. Len(got) \in Nat /\ Len(got) <= Len(log) /\ Len(log) \in Nat
  BY <1>1 DEF HttpInv, ReceiverTypes, Kept
<1>4. i = Len(got) + 1 /\ e = log[i] /\ o = Begin(log, i)
  BY DEF Facing
<1>5. i \in 1..Len(log) + 1
  BY <1>3, <1>4
<1>6. o \in Nat
  BY <1>1, <1>4, <1>5, BeginIs
<1>7. ASSUME rpc \notin {"idle", "failed"}
      PROVE  i \in 1..Len(log) /\ e \in Entry
  <2>1. Len(got) < Len(log)
    BY <1>7 DEF HttpInv, Kept
  <2>2. i \in 1..Len(log)
    BY <1>3, <1>4, <2>1
  <2>3. QED
    BY <1>1, <1>4, <2>2
<1>8. QED
  BY <1>1, <1>2, <1>3, <1>4, <1>5, <1>6, <1>7

(* The receiver goes on with the message, ...                              *)
LEMMA GoesOn ==
  ASSUME HttpInv, NEW s, NEW ms, NEW e, NEW i, NEW o, Facing(s, ms, e, i, o),
         UNCHANGED Http!sender, got' = got, Left(s, wire', pos'), ReceiverTypes',
         rpc' = "failed" \/ i \in 1..Len(log), Current(s, ms, e, i, o)'
  PROVE  HttpInv'
<1>1. /\ out' = out /\ edits' = edits /\ chunks' = chunks /\ spc' = spc /\ log' = log
      /\ got' = got
  BY DEF Http!sender
<1>2. SenderTypes'
  BY <1>1 DEF HttpInv, SenderTypes
<1>3. i = Len(got) + 1 /\ e = log[i] /\ o = Begin(log, i)
  BY DEF Facing
<1>4. Kept(log)'
  <2>1. Len(got) \in Nat /\ Len(log) \in Nat
    BY FacedIs
  <2>2. rpc' \notin {"idle", "failed"} => Len(got) < Len(log)
    BY <1>3, <2>1
  <2>3. QED
    BY <1>1, <2>2 DEF HttpInv, Kept
<1>5. i = (Len(got) + 1)' /\ e = (log[Len(got) + 1])' /\ o = (Begin(log, Len(got) + 1))'
  BY <1>1, <1>3 DEF Begin
<1>6. Current(s, ms, log[Len(got) + 1], Len(got) + 1, Begin(log, Len(got) + 1))'
  BY <1>5 DEF Current, InHead, InBody, AtMark, InChunk, AfterChunk, Held
<1>7. Inv(s, ms)'
  <2>1. Sent(s, ms, log, spc)'
    BY <1>1 DEF Facing
  <2>2. QED
    BY <1>6, <2>1 DEF Inv
<1>8. QED
  BY <1>2, <1>4, <1>7 DEF HttpInv

(* ... fails, ...                                                          *)
LEMMA Fails ==
  ASSUME HttpInv, NEW s, NEW ms, NEW e, NEW i, NEW o, Facing(s, ms, e, i, o),
         UNCHANGED <<Http!sender, layered, via, tbuf, got>>,
         Left(s, wire', pos'), in' \in Draft, clen' \in Nat,
         ahead' \in 0..Len(wire'), layered => ahead' = 0, rpc' = "failed"
  PROVE  HttpInv'
<1>1. ReceiverTypes'
  BY DEF HttpInv, ReceiverTypes, Draft
<1>2. Current(s, ms, e, i, o)'
  BY DEF Current
<1>3. UNCHANGED Http!sender /\ got' = got
  OBVIOUS
<1>4. QED
  BY <1>1, <1>2, <1>3, GoesOn

(* ... or completes it.                                                    *)
LEMMA Completes ==
  ASSUME HttpInv, NEW s, NEW ms, NEW e, NEW i, NEW o, Facing(s, ms, e, i, o),
         rpc \notin {"idle", "failed"},
         UNCHANGED <<Http!sender, layered, via, tbuf>>, tbuf = <<>>,
         in' \in Draft, clen' \in Nat, Left(s, wire', pos'),
         ahead' \in 0..Len(wire'), layered => ahead' = 0,
         e.end > 0, pos' = e.end,
         NEW m, m = [hdr |-> e.hdr, body |-> e.body], Http!Complete(m)
  PROVE  HttpInv'
<1>1. /\ log \in Seq(Entry) /\ i \in 1..Len(log) /\ e \in Entry
      /\ Len(got) \in Nat /\ i = Len(got) + 1 /\ e = log[i]
  BY FacedIs DEF Facing
<1>2. CASE rpc' = "failed" /\ got' = got
  BY <1>2, Fails
<1>3. CASE (layered \/ ahead' = 0) /\ rpc' = "idle" /\ got' = Append(got, m)
  <2>1. m \in [hdr : Headers, body : Seq(Octet)]
    BY <1>1 DEF Entry
  <2>2. /\ got' \in Seq([hdr : Headers, body : Seq(Octet)]) /\ Len(got') = i
        /\ got'[i] = m /\ \A j \in 1..Len(got) : got'[j] = got[j]
    BY <1>1, <1>3, <2>1 DEF HttpInv, ReceiverTypes
  <2>3. ReceiverTypes'
    BY <1>3, <2>2 DEF HttpInv, ReceiverTypes, Draft
  <2>4. /\ out' = out /\ edits' = edits /\ chunks' = chunks /\ spc' = spc /\ log' = log
    BY DEF Http!sender
  <2>5. SenderTypes'
    BY <2>4 DEF HttpInv, SenderTypes
  <2>6. Kept(log)'
    <3>1. Len(got') <= Len(log)
      BY <1>1, <2>2
    <3>2. ASSUME NEW j \in 1..Len(got')
          PROVE  log[j].end > 0 /\ got'[j].hdr = log[j].hdr /\ got'[j].body = log[j].body
      <4>1. CASE j = i
        BY <1>1, <2>2, <4>1
      <4>2. CASE j # i
        <5>1. j \in 1..Len(got)
          BY <1>1, <2>2, <4>2
        <5>2. QED
          BY <2>2, <5>1 DEF HttpInv, Kept
      <4>3. QED
        BY <4>1, <4>2
    <3>3. QED
      BY <1>3, <2>4, <3>1, <3>2 DEF Kept
  <2>7. Begin(log, i + 1) = e.end
    BY <1>1 DEF Begin
  <2>8. (Begin(log, Len(got) + 1))' = e.end
    BY <2>2, <2>4, <2>7 DEF Begin
  <2>9. ahead' = 0
    BY <1>3
  <2>10. Current(s, ms, log[Len(got) + 1], Len(got) + 1, Begin(log, Len(got) + 1))'
    BY <1>3, <2>8, <2>9 DEF Current
  <2>11. Sent(s, ms, log, spc)'
    BY <2>4 DEF Facing
  <2>12. Inv(s, ms)'
    BY <2>10, <2>11 DEF Inv
  <2>13. QED
    BY <2>3, <2>5, <2>6, <2>12 DEF HttpInv
<1>4. QED
  BY <1>2, <1>3 DEF Http!Complete

LEMMA CallStep ==
  ASSUME HttpInv, NEW how \in {"decode", "transformer"}, Http!DecodeCall(how)
  PROVE  HttpInv'
<1>1. PICK s, ms, e, i, o : Facing(s, ms, e, i, o)
  BY FacingIs
<1>2. /\ log \in Seq(Entry) /\ Len(got) \in Nat /\ i = Len(got) + 1 /\ e = log[i]
      /\ Left(s, wire, pos)
  BY <1>1, FacedIs DEF Facing
<1>3. /\ rpc = "idle" /\ Len(got) < Len(log)
      /\ how = "transformer" => layered /\ e.kind = "chunked"
      /\ in' = [hdr |-> Http!NoHeaders, body |-> <<>>,
                empty |-> e.kind = "head" \/ how = "transformer"]
      /\ via' = how /\ rpc' = "head"
      /\ UNCHANGED Http!sender
      /\ UNCHANGED <<wire, layered, ahead, clen, tbuf, pos, got>>
  BY <1>2 DEF Http!DecodeCall
<1>4. pos = o
  BY <1>1, <1>3 DEF Facing, Current
<1>5. i \in 1..Len(log)
  BY <1>2, <1>3
<1>6. /\ in'.hdr = Http!NoHeaders /\ in'.body = <<>>
      /\ in'.empty <=> e.kind = "head" \/ how = "transformer"
  BY <1>3
<1>7. in' \in Draft
  <2>1. Http!NoHeaders \in Headers
    BY DEF Http!NoHeaders, Headers
  <2>2. (e.kind = "head" \/ how = "transformer") \in BOOLEAN
    OBVIOUS
  <2>3. QED
    BY <1>3, <2>1, <2>2 DEF Draft
<1>8. ReceiverTypes'
  BY <1>3, <1>7 DEF HttpInv, ReceiverTypes, Draft
<1>9. Current(s, ms, e, i, o)'
  BY <1>3, <1>4, <1>6 DEF Current, InHead
<1>10. Left(s, wire', pos')
  BY <1>2, <1>3
<1>11. QED
  BY <1>1, <1>3, <1>5, <1>8, <1>9, <1>10, GoesOn

(* The headers of a new message object are those decoded.                  *)
LEMMA HeadersAdded ==
  ASSUME NEW h \in Headers
  PROVE  [k \in DOMAIN Http!NoHeaders |-> Http!NoHeaders[k] \o h[k]] = h
<1>1. /\ h[Http!CL] \in Seq(Nat) /\ h[Http!TE] \in Seq(Coding)
      /\ h = [k \in {Http!CL, Http!TE} |-> h[k]]
  BY DEF Headers
<1>2. \A k \in {Http!CL, Http!TE} : Http!NoHeaders[k] \o h[k] = h[k]
  <2>1. <<>> \o h[Http!CL] = h[Http!CL] /\ <<>> \o h[Http!TE] = h[Http!TE]
    BY <1>1, ConcatEmptySeq
  <2>2. QED
    BY <2>1 DEF Http!NoHeaders
<1>3. DOMAIN Http!NoHeaders = {Http!CL, Http!TE}
  BY DEF Http!NoHeaders
<1>4. QED
  BY <1>1, <1>2, <1>3

(* What stands where the receiver begins a message.                        *)
LEMMA HeadFound ==
  ASSUME HttpInv, NEW s, NEW ms, NEW e, NEW i, NEW o, Facing(s, ms, e, i, o),
         rpc = "head"
  PROVE  /\ e \in Entry /\ i \in 1..Len(log)
         /\ \/ Message(s, ms, e, i, o) /\ wire[1] = [head |-> e.hdr]
            \/ Garbled(s, e, o) /\ wire[1] \in Others
         /\ Http!EndOf(<<CR, LF, CR, LF>>) = 5 /\ 5 <= Len(wire) /\ InHead(e, o)
<1>1. /\ s \in Seq(Symbol) /\ log \in Seq(Entry)
      /\ wire \in Seq(Symbol) /\ Len(wire) \in Nat /\ pos \in Nat
      /\ Len(s) = pos + Len(wire)
      /\ \A j \in 1..Len(wire) : wire[j] = s[pos + j]
      /\ i \in 1..Len(log) /\ e \in Entry /\ e = log[i] /\ o = Begin(log, i)
  BY FacedIs DEF Facing
<1>2. InHead(e, o) /\ pos = o
  BY DEF Facing, Current, InHead
<1>3. Message(s, ms, e, i, o) \/ Garbled(s, e, o)
  BY <1>1 DEF Facing, Sent, Messages
<1>4. PICK x : /\ HeadAt(s, o, x)
               /\ \/ Message(s, ms, e, i, o) /\ x = [head |-> e.hdr]
                  \/ Garbled(s, e, o) /\ x \in Others
  BY <1>3 DEF Message, Garbled
<1>5. x # CR
  <2>1. CASE x = [head |-> e.hdr]
    <3>1. e.hdr \in Headers
      BY <1>1 DEF Entry
    <3>2. QED
      BY <2>1, <3>1, HeadIs DEF Octet
  <2>2. CASE x \in Others
    BY <2>2, Symbols
  <2>3. QED
    BY <1>4, <2>1, <2>2
<1>6. 5 <= Len(wire)
  BY <1>1, <1>2, <1>4 DEF HeadAt
<1>7. /\ wire[1] = x /\ wire[2] = CR /\ wire[3] = LF /\ wire[4] = CR /\ wire[5] = LF
  <2>1. 1 \in 1..Len(wire) /\ 2 \in 1..Len(wire) /\ 3 \in 1..Len(wire)
        /\ 4 \in 1..Len(wire) /\ 5 \in 1..Len(wire)
    BY <1>1, <1>6
  <2>2. QED
    BY <1>1, <1>2, <1>4, <2>1 DEF HeadAt
<1>8. Http!EndOf(<<CR, LF, CR, LF>>) = 5
  BY <1>1, <1>5, <1>6, <1>7, EndOfHead
<1>9. QED
  BY <1>1, <1>2, <1>4, <1>6, <1>7, <1>8

LEMMA HeadStep ==
  ASSUME HttpInv, Http!DecodeHead
  PROVE  HttpInv'
<1>1. PICK s, ms, e, i, o : Facing(s, ms, e, i, o)
  BY FacingIs
<1>2. /\ rpc = "head" /\ Http!TakeUntil(<<CR, LF, CR, LF>>)
      /\ UNCHANGED Http!sender /\ UNCHANGED <<layered, via, clen, tbuf>>
  BY DEF Http!DecodeHead
<1>3. /\ e \in Entry /\ i \in 1..Len(log)
      /\ \/ Message(s, ms, e, i, o) /\ wire[1] = [head |-> e.hdr]
         \/ Garbled(s, e, o) /\ wire[1] \in Others
      /\ Http!EndOf(<<CR, LF, CR, LF>>) = 5 /\ 5 <= Len(wire) /\ InHead(e, o)
  BY <1>1, <1>2, HeadFound
<1>4. s \in Seq(Symbol) /\ ms \subseteq Mark /\ o \in Nat /\ Left(s, wire, pos)
  BY <1>1, FacedIs
<1>5. /\ ReceiverTypes /\ tbuf = <<>> /\ tbuf' = <<>> /\ in \in Draft
      /\ via \in {"decode", "transformer"}
  BY <1>2 DEF HttpInv, ReceiverTypes, Draft
<1>6. Taken(s, 5)
  BY <1>2, <1>3, <1>4, <1>5, TakeUntilIs
<1>7. /\ pos = o /\ in.hdr = Http!NoHeaders /\ in.body = <<>>
      /\ in.empty <=> e.kind = "head" \/ via = "transformer"
      /\ via = "transformer" => e.kind = "chunked"
  BY <1>3 DEF InHead
<1>8. /\ pos' = o + 5 /\ Left(s, wire', pos')
      /\ ahead' \in 0..Len(wire') /\ (layered => ahead' = 0)
  BY <1>6, <1>7 DEF Taken
<1>9. clen' \in Nat
  BY <1>2, <1>5 DEF ReceiverTypes
<1>10. CASE Garbled(s, e, o) /\ wire[1] \in Others
  <2>1. ~Http!IsSymbol(wire[1], "head")
    BY <1>10 DEF Http!IsSymbol
  <2>2. rpc' = "failed" /\ in' = in /\ got' = got
    BY <2>1 DEF Http!DecodeHead
  <2>3. UNCHANGED <<Http!sender, layered, via, tbuf, got>> /\ in' \in Draft
    BY <1>2, <1>5, <2>2
  <2>4. QED
    BY <1>1, <1>8, <1>9, <2>2, <2>3, Fails
<1>11. CASE Message(s, ms, e, i, o) /\ wire[1] = [head |-> e.hdr]
  <2>1. e.hdr \in Headers /\ e.body \in Seq(Octet)
    BY <1>3 DEF Entry
  <2>2. Http!IsSymbol(wire[1], "head") /\ wire[1].head = e.hdr
    <3>1. [head |-> e.hdr] \notin Octet
      BY <2>1, HeadIs
    <3>2. QED
      BY <1>11, <3>1 DEF Http!IsSymbol, Octet
  <2>3. /\ in' = [in EXCEPT !.hdr = [k \in DOMAIN @ |-> @[k] \o wire[1].head[k]]]
        /\ \/ /\ in.empty /\ via = "decode"
              /\ Http!Complete([hdr |-> in'.hdr, body |-> <<>>])
           \/ /\ in.empty /\ via = "transformer"
              /\ rpc' = "reading" /\ got' = got
           \/ /\ ~in.empty
              /\ rpc' = IF Http!ChunkEncoding(in'.hdr) THEN "line" ELSE "body"
              /\ got' = got
    BY <2>2 DEF Http!DecodeHead
  <2>4. in'.hdr = e.hdr /\ in'.body = <<>> /\ in' \in Draft
    <3>1. in' = [in EXCEPT !.hdr = [k \in DOMAIN Http!NoHeaders |->
                                      Http!NoHeaders[k] \o e.hdr[k]]]
      BY <1>7, <2>2, <2>3
    <3>2. in' = [in EXCEPT !.hdr = e.hdr]
      BY <2>1, <3>1, HeadersAdded
    <3>3. QED
      BY <1>5, <1>7, <2>1, <3>2 DEF Draft
  <2>5. CASE in.empty /\ via = "decode"
    <3>1. e.kind = "head"
      BY <1>7, <2>5
    <3>2. e.end = o + 5 /\ e.body = <<>>
      BY <1>11, <3>1 DEF Message
    <3>3. PICK m : m = [hdr |-> e.hdr, body |-> e.body]
      OBVIOUS
    <3>4. Http!Complete(m)
      BY <2>3, <2>4, <2>5, <3>2, <3>3
    <3>5. e.end > 0 /\ pos' = e.end
      BY <1>4, <1>8, <3>2
    <3>6. rpc \notin {"idle", "failed"}
      BY <1>2
    <3>7. UNCHANGED <<Http!sender, layered, via, tbuf>>
      BY <1>2
    <3>8. QED
      BY <1>1, <1>5, <1>8, <1>9, <2>4, <3>3, <3>4, <3>5, <3>6, <3>7, Completes
  <2>6. ASSUME e.kind = "chunked", rpc' \in {"reading", "line"}, got' = got
        PROVE  HttpInv'
    <3>1. M(o + 5, i, 0) \in ms
      BY <1>11, <2>6 DEF Message
    <3>2. M(o + 5, i, 0).i = i /\ M(o + 5, i, 0).o = pos' /\ M(o + 5, i, 0).d = 0
      BY <1>8 DEF M
    <3>3. Held(e, 0)'
      <4>1. Len(in'.body) = 0 /\ Len(tbuf') = 0 /\ Len(e.body) \in Nat
        BY <1>5, <2>1, <2>4
      <4>2. QED
        BY <4>1 DEF Held
    <3>4. AtMark(ms, e, i)'
      BY <2>4, <3>1, <3>2, <3>3 DEF AtMark
    <3>5. Current(s, ms, e, i, o)'
      BY <2>6, <3>4 DEF Current
    <3>6. ReceiverTypes'
      BY <1>2, <1>5, <1>8, <1>9, <2>4, <2>6 DEF ReceiverTypes, Draft
    <3>7. QED
      BY <1>1, <1>2, <1>3, <1>8, <2>6, <3>5, <3>6, GoesOn
  <2>7. CASE in.empty /\ via = "transformer"
    <3>1. e.kind = "chunked" /\ rpc' = "reading" /\ got' = got
      BY <1>7, <2>3, <2>7
    <3>2. QED
      BY <2>6, <3>1
  <2>8. CASE ~in.empty
    <3>1. rpc' = (IF Http!ChunkEncoding(e.hdr) THEN "line" ELSE "body") /\ got' = got
      BY <2>3, <2>4, <2>8
    <3>2. e.kind # "head"
      BY <1>7, <2>8
    <3>3. CASE e.kind = "chunked"
      <4>1. Http!ChunkEncoding(e.hdr)
        BY <1>11, <3>3 DEF Message
      <4>2. QED
        BY <2>6, <3>1, <3>3, <4>1
    <3>4. CASE e.kind = "plain"
      <4>1. ~Http!ChunkEncoding(e.hdr) /\ e.end = o + 5 + Len(e.body)
        BY <1>11, <3>4 DEF Message, Plain
      <4>2. rpc' = "body" /\ e.end > 0
        <5>1. PICK n \in Nat : n = Len(e.body)
          BY <2>1
        <5>2. e.end = o + 5 + n
          BY <4>1, <5>1
        <5>3. e.end > 0
          BY <1>4, <5>2
        <5>4. rpc' = "body"
          BY <3>1, <4>1
        <5>5. QED
          BY <5>3, <5>4
      <4>3. InBody(e, o)'
        BY <1>8, <2>4, <3>4, <4>2 DEF InBody
      <4>4. Current(s, ms, e, i, o)'
        BY <4>2, <4>3 DEF Current
      <4>5. ReceiverTypes'
        BY <1>2, <1>5, <1>8, <1>9, <2>4, <3>1, <4>2 DEF ReceiverTypes, Draft
      <4>6. QED
        BY <1>1, <1>2, <1>3, <1>8, <3>1, <4>4, <4>5, GoesOn
    <3>5. QED
      BY <1>3, <3>2, <3>3, <3>4 DEF Entry
  <2>9. QED
    BY <2>3, <2>5, <2>7, <2>8
<1>12. QED
  BY <1>3, <1>10, <1>11

(* A stretch of a body, as the receiver reads it.                          *)
LEMMA StretchIs ==
  ASSUME wire \in Seq(Symbol), NEW n \in Nat, n <= Len(wire),
         \A j \in 1..n : wire[j] \in Octet
  PROVE  /\ SubSeq(wire, 1, n) \in Seq(Octet) /\ Len(SubSeq(wire, 1, n)) = n
         /\ \A j \in 1..n : SubSeq(wire, 1, n)[j] = wire[j]
<1> DEFINE t == SubSeq(wire, 1, n)
<1>1. Len(t) = n /\ \A j \in 1..n : t[j] = wire[j]
  OBVIOUS
<1>2. t \in Seq(Octet)
  BY SubSeqProperties
<1>3. QED
  BY <1>1, <1>2

LEMMA BodyStep ==
  ASSUME HttpInv, Http!DecodeBody
  PROVE  HttpInv'
<1>1. PICK s, ms, e, i, o : Facing(s, ms, e, i, o)
  BY FacingIs
<1>2. PICK n : n = Http!ContentLength(in.hdr)
  OBVIOUS
<1>3. /\ rpc = "body" /\ Http!TakeExactly(n)
      /\ in' = [in EXCEPT !.body = SubSeq(wire, 1, n)]
      /\ Http!Complete([hdr |-> in.hdr, body |-> in'.body])
      /\ UNCHANGED Http!sender /\ UNCHANGED <<layered, via, clen, tbuf>>
  BY <1>2 DEF Http!DecodeBody
<1>4. /\ s \in Seq(Symbol) /\ ms \subseteq Mark /\ log \in Seq(Entry)
      /\ wire \in Seq(Symbol) /\ Len(wire) \in Nat /\ pos \in Nat
      /\ Left(s, wire, pos) /\ \A j \in 1..Len(wire) : wire[j] = s[pos + j]
      /\ i \in 1..Len(log) /\ e \in Entry /\ o \in Nat /\ e = log[i] /\ o = Begin(log, i)
  BY <1>1, <1>3, FacedIs DEF Facing
<1>5. e.kind = "plain" /\ e.end > 0 /\ pos = o + 5 /\ in.hdr = e.hdr
  BY <1>1, <1>3 DEF Facing, Current, InBody
<1>6. Plain(s, e, o)
  <2>1. Message(s, ms, e, i, o) \/ Garbled(s, e, o)
    BY <1>1, <1>4 DEF Facing, Sent, Messages
  <2>2. ~Garbled(s, e, o)
    BY <1>5 DEF Garbled
  <2>3. QED
    BY <1>5, <2>1, <2>2 DEF Message
<1>7. /\ n = Len(e.body) /\ e.body \in Seq(Octet) /\ n \in Nat /\ e.end = o + 5 + n
      /\ \A j \in 1..n : s[o + 5 + j] = e.body[j]
  BY <1>2, <1>4, <1>5, <1>6 DEF Plain, Entry
<1>8. ReceiverTypes /\ in \in Draft /\ clen' \in Nat /\ tbuf = <<>>
  BY <1>3 DEF HttpInv, ReceiverTypes, Draft
<1>9. Taken(s, n)
  BY <1>3, <1>4, <1>7, <1>8, TakeExactlyIs
<1>10. /\ n <= Len(wire) /\ pos' = pos + n /\ Left(s, wire', pos')
       /\ ahead' \in 0..Len(wire') /\ (layered => ahead' = 0)
  BY <1>9 DEF Taken
<1>11. \A j \in 1..n : wire[j] = e.body[j] /\ wire[j] \in Octet
  <2>1. \A j \in 1..n : j \in 1..Len(wire)
    BY <1>4, <1>7, <1>10
  <2>2. \A j \in 1..n : wire[j] = e.body[j]
    BY <1>4, <1>5, <1>7, <2>1
  <2>3. \A j \in 1..n : e.body[j] \in Octet
    BY <1>7
  <2>4. QED
    BY <2>2, <2>3
<1>12. PICK t : t = SubSeq(wire, 1, n)
  OBVIOUS
<1>13. t = e.body
  <2>1. t \in Seq(Octet) /\ Len(t) = n /\ \A j \in 1..n : t[j] = wire[j]
    <3>1. \A j \in 1..n : wire[j] \in Octet
      BY <1>11
    <3>2. wire \in Seq(Symbol) /\ n \in Nat /\ n <= Len(wire)
      BY <1>4, <1>7, <1>10
    <3>3. QED
      BY <1>12, <3>1, <3>2, StretchIs
  <2>2. \A j \in 1..Len(t) : t[j] = e.body[j]
    BY <1>11, <2>1
  <2>3. QED
    BY <1>7, <2>1, <2>2, SeqEqual
<1>14. in' = [in EXCEPT !.body = e.body] /\ in'.body = e.body /\ in' \in Draft
  <2>1. in' = [in EXCEPT !.body = e.body]
    BY <1>3, <1>12, <1>13
  <2>2. QED
    BY <1>7, <1>8, <2>1 DEF Draft
<1>15. PICK m : m = [hdr |-> e.hdr, body |-> e.body]
  OBVIOUS
<1>16. Http!Complete(m)
  BY <1>3, <1>5, <1>14, <1>15
<1>17. pos' = e.end
  BY <1>4, <1>5, <1>7, <1>10
<1>18. rpc \notin {"idle", "failed"} /\ UNCHANGED <<Http!sender, layered, via, tbuf>>
  BY <1>3
<1>19. QED
  BY <1>1, <1>5, <1>8, <1>10, <1>14, <1>15, <1>16, <1>17, <1>18, Completes

(* The chunk after m.o: its length, if there is one.                       *)
Lined(s, m, n) == /\ m.o + 3 <= Len(s) /\ s[m.o + 1] = [hex |-> n]
                  /\ s[m.o + 2] = CR /\ s[m.o + 3] = LF

LEMMA ChunkFound ==
  ASSUME HttpInv, NEW s, NEW ms, NEW e, NEW i, NEW o, Facing(s, ms, e, i, o),
         rpc \notin {"idle", "failed"}, NEW m \in ms, m.i = i
  PROVE  /\ m \in Mark /\ e.kind = "chunked" /\ m.d <= Len(e.body)
         /\ \/ \E n \in Nat : FullChunk(s, ms, e, m, n) /\ Lined(s, m, n) /\ n > 0
            \/ LastChunk(s, e, m) /\ Lined(s, m, 0)
            \/ Len(s) = m.o
            \/ Len(s) = m.o + 4 /\ s[m.o + 1] = CR /\ s[m.o + 2] = LF
            \/ /\ Len(s) = m.o + 7 /\ Lined(s, m, 1)
               /\ s[m.o + 4] \in Others /\ s[m.o + 5] \in Others
<1>1. /\ s \in Seq(Symbol) /\ ms \subseteq Mark /\ e = log[i]
      /\ i \in 1..Len(log) /\ e \in Entry
  BY FacedIs DEF Facing
<1>2. m \in Mark /\ m.o \in Nat /\ Len(s) \in Nat
  BY <1>1 DEF Mark
<1>3. ChunkAt(s, ms, e, m, Len(log), spc)
  BY <1>1 DEF Facing, Sent, Chunks
<1>4. e.kind = "chunked" /\ m.d <= Len(e.body)
  BY <1>3 DEF ChunkAt
<1>5. CASE \E n \in Nat : FullChunk(s, ms, e, m, n)
  <2>1. PICK n \in Nat : FullChunk(s, ms, e, m, n)
    BY <1>5
  <2>2. n > 0 /\ m.o + 5 + n <= Len(s)
    BY <2>1 DEF FullChunk
  <2>3. m.o + 3 <= Len(s)
    BY <1>2, <2>2
  <2>4. Lined(s, m, n)
    BY <2>1, <2>3 DEF Lined, FullChunk
  <2>5. QED
    BY <1>2, <1>4, <2>1, <2>2, <2>4
<1>6. CASE LastChunk(s, e, m)
  <2>1. m.o + 3 <= Len(s)
    BY <1>2, <1>6 DEF LastChunk, HeadAt
  <2>2. Lined(s, m, 0)
    BY <1>6, <2>1 DEF LastChunk, HeadAt, Lined
  <2>3. QED
    BY <1>2, <1>4, <1>6, <2>2
<1>7. CASE NoChunk(s, e, m)
  BY <1>2, <1>4, <1>7 DEF NoChunk
<1>8. CASE BadChunk(s, e, m)
  BY <1>2, <1>4, <1>8 DEF BadChunk, Lined
<1>9. QED
  BY <1>3, <1>5, <1>6, <1>7, <1>8 DEF ChunkAt

LEMMA LineFound ==
  ASSUME NEW s \in Seq(Symbol), Left(s, wire, pos), NEW m, m.o = pos, NEW n \in Nat,
         Lined(s, m, n)
  PROVE  /\ Http!EndOf(<<CR, LF>>) = 3 /\ 3 <= Len(wire) /\ wire[1] = [hex |-> n]
         /\ Http!IsSymbol(wire[1], "hex") /\ wire[1].hex = n
<1>1. /\ wire \in Seq(Symbol) /\ Len(wire) \in Nat /\ pos \in Nat
      /\ Len(s) = pos + Len(wire) /\ \A j \in 1..Len(wire) : wire[j] = s[pos + j]
  BY DEF Left
<1>2. 3 <= Len(wire)
  BY <1>1 DEF Lined
<1>3. wire[1] = [hex |-> n] /\ wire[2] = CR /\ wire[3] = LF
  <2>1. 1 \in 1..Len(wire) /\ 2 \in 1..Len(wire) /\ 3 \in 1..Len(wire)
    BY <1>1, <1>2
  <2>2. QED
    BY <1>1, <2>1 DEF Lined
<1>4. [hex |-> n] \notin Octet
  BY HexIs
<1>5. wire[1] # CR
  BY <1>3, <1>4 DEF Octet
<1>6. Http!EndOf(<<CR, LF>>) = 3
  BY <1>1, <1>2, <1>3, <1>5, EndOfLine
<1>7. Http!IsSymbol(wire[1], "hex") /\ wire[1].hex = n
  BY <1>3, <1>4 DEF Http!IsSymbol, Octet
<1>8. QED
  BY <1>2, <1>3, <1>6, <1>7

LEMMA LineStep ==
  ASSUME HttpInv, Http!ChunkLine
  PROVE  HttpInv'
<1>1. PICK s, ms, e, i, o : Facing(s, ms, e, i, o)
  BY FacingIs
<1>2. /\ rpc = "line" /\ Http!TakeUntil(<<CR, LF>>)
      /\ \/ /\ Http!IsSymbol(wire[1], "hex")
            /\ clen' = wire[1].hex
            /\ rpc' = IF clen' > 0 THEN "data" ELSE "eol"
         \/ /\ ~Http!IsSymbol(wire[1], "hex")
            /\ rpc' = "failed" /\ clen' = clen
      /\ UNCHANGED Http!sender /\ UNCHANGED <<layered, in, via, tbuf, got>>
  BY DEF Http!ChunkLine
<1>3. /\ s \in Seq(Symbol) /\ ms \subseteq Mark
      /\ wire \in Seq(Symbol) /\ Len(wire) \in Nat /\ pos \in Nat
      /\ Len(s) = pos + Len(wire) /\ Left(s, wire, pos)
      /\ \A j \in 1..Len(wire) : wire[j] = s[pos + j]
      /\ i \in 1..Len(log) /\ e \in Entry
  BY <1>1, <1>2, FacedIs
<1>4. AtMark(ms, e, i)
  BY <1>1, <1>2 DEF Facing, Current
<1>5. PICK m \in ms : m.i = i /\ m.o = pos /\ Held(e, m.d)
  BY <1>4 DEF AtMark
<1>6. in.hdr = e.hdr
  BY <1>4 DEF AtMark
<1>7. ReceiverTypes /\ in' \in Draft /\ clen \in Nat /\ tbuf = <<>> /\ tbuf' = <<>>
  BY <1>2 DEF HttpInv, ReceiverTypes, Draft
<1>8. /\ m \in Mark
      /\ \/ \E n \in Nat : FullChunk(s, ms, e, m, n) /\ Lined(s, m, n) /\ n > 0
         \/ LastChunk(s, e, m) /\ Lined(s, m, 0)
         \/ Len(s) = m.o
         \/ Len(s) = m.o + 4 /\ s[m.o + 1] = CR /\ s[m.o + 2] = LF
         \/ /\ Len(s) = m.o + 7 /\ Lined(s, m, 1)
            /\ s[m.o + 4] \in Others /\ s[m.o + 5] \in Others
  BY <1>1, <1>2, <1>5, ChunkFound
<1>9. ASSUME NEW n \in Nat, Lined(s, m, n)
      PROVE  HttpInv'
  <2>1. /\ Http!EndOf(<<CR, LF>>) = 3 /\ 3 <= Len(wire) /\ wire[1] = [hex |-> n]
        /\ Http!IsSymbol(wire[1], "hex") /\ wire[1].hex = n
    BY <1>3, <1>5, <1>9, LineFound
  <2>2. Taken(s, 3)
    BY <1>2, <1>3, <1>7, <2>1, TakeUntilIs
  <2>3. /\ pos' = pos + 3 /\ Left(s, wire', pos')
        /\ ahead' \in 0..Len(wire') /\ (layered => ahead' = 0)
    BY <2>2 DEF Taken
  <2>4. clen' = n /\ rpc' = IF n > 0 THEN "data" ELSE "eol"
    BY <1>2, <2>1
  <2>5. ReceiverTypes'
    BY <1>2, <1>7, <2>3, <2>4 DEF ReceiverTypes, Draft
  <2>6. /\ in' = in /\ tbuf' = tbuf /\ m.o + 3 = pos' /\ pos' <= Len(s)
        /\ s[m.o + 1] = [hex |-> clen']
    BY <1>2, <1>5, <1>9, <2>3, <2>4 DEF Lined
  <2>7. Held(e, m.d)'
    BY <1>5, <2>6 DEF Held
  <2>8. Current(s, ms, e, i, o)'
    <3>1. CASE n > 0
      <4>1. InChunk(s, ms, e, i)'
        BY <1>5, <1>6, <2>4, <2>6, <2>7, <3>1 DEF InChunk
      <4>2. QED
        BY <2>4, <3>1, <4>1 DEF Current
    <3>2. CASE n = 0
      <4>1. m.d \in Nat /\ m.o \in Nat
        BY <1>8 DEF Mark
      <4>2. m.d + 0 = m.d /\ m.o + 3 + 0 = m.o + 3
        BY <4>1
      <4>3. clen' = 0 /\ tbuf' = <<>>
        BY <1>7, <2>4, <3>2
      <4>4. Held(e, m.d + clen)'
        BY <2>7, <4>2, <4>3 DEF Held
      <4>5. m.o + 3 + clen' = pos'
        BY <2>6, <4>2, <4>3
      <4>6. AfterChunk(s, ms, e, i)'
        BY <1>5, <1>6, <2>6, <4>3, <4>4, <4>5 DEF AfterChunk
      <4>7. QED
        BY <2>4, <3>2, <4>6 DEF Current
    <3>3. QED
      BY <3>1, <3>2
  <2>9. QED
    BY <1>1, <1>2, <1>3, <2>3, <2>5, <2>8, GoesOn
<1>10. CASE Len(s) = m.o
  <2>1. Len(wire) = 0
    BY <1>3, <1>5, <1>10
  <2>2. Http!EndOf(<<CR, LF>>) = 0
    BY <1>3, <2>1, EndOfNothing
  <2>3. QED
    BY <1>2, <2>2 DEF Http!TakeUntil
<1>11. CASE Len(s) = m.o + 4 /\ s[m.o + 1] = CR /\ s[m.o + 2] = LF
  <2>1. Len(wire) = 4
    <3>1. PICK k \in Nat : k = Len(wire)
      BY <1>3
    <3>2. pos + k = pos + 4 /\ pos \in Nat
      BY <1>3, <1>5, <1>11, <3>1
    <3>3. QED
      BY <3>1, <3>2
  <2>2. wire[1] = CR /\ wire[2] = LF
    <3>1. 1 \in 1..Len(wire) /\ 2 \in 1..Len(wire)
      BY <2>1
    <3>2. QED
      BY <1>3, <1>5, <1>11, <3>1
  <2>3. Http!EndOf(<<CR, LF>>) = 2
    BY <1>3, <2>1, <2>2, EndOfBlank
  <2>4. Taken(s, 2)
    BY <1>2, <1>3, <1>7, <2>1, <2>3, TakeUntilIs
  <2>5. ~Http!IsSymbol(wire[1], "hex")
    BY <2>2 DEF Http!IsSymbol
  <2>6. rpc' = "failed" /\ clen' \in Nat
    BY <1>2, <1>7, <2>5
  <2>7. UNCHANGED <<Http!sender, layered, via, tbuf, got>>
    BY <1>2
  <2>8. QED
    BY <1>1, <1>7, <2>4, <2>6, <2>7, Fails DEF Taken
<1>12. QED
  BY <1>8, <1>9, <1>10, <1>11

(* The receiver has read a chunk.                                          *)
LEMMA HeldMore ==
  ASSUME NEW e \in Entry, NEW d \in Nat, NEW n \in Nat, Held(e, d), d + n <= Len(e.body),
         in.body \in Seq(Octet), tbuf = <<>>,
         NEW t \in Seq(Octet), Len(t) = n, \A j \in 1..n : t[j] = e.body[d + j],
         \/ in'.body = in.body \o t /\ tbuf' = <<>>
         \/ in'.body = in.body /\ tbuf' = t
  PROVE  Held(e, d + n)'
<1>1. Len(in.body) = d /\ \A j \in 1..d : in.body[j] = e.body[j]
  BY DEF Held
<1>2. CASE in'.body = in.body \o t /\ tbuf' = <<>>
  <2>1. /\ Len(in'.body) = d + n /\ \A j \in 1..d : in'.body[j] = in.body[j]
        /\ \A j \in 1..n : in'.body[d + j] = t[j]
    <3>1. Adjoined(in.body, t, in.body \o t)
      BY JoinIs
    <3>2. Adjoined(in.body, t, in'.body)
      BY <1>2, <3>1
    <3>3. QED
      BY <1>1, <3>2 DEF Adjoined
  <2>2. ASSUME NEW j \in 1..(d + n)
        PROVE  in'.body[j] = e.body[j]
    <3>1. CASE j \in 1..d
      BY <1>1, <2>1, <3>1
    <3>2. CASE j - d \in 1..n
      <4>1. PICK k \in 1..n : k = j - d
        BY <3>2
      <4>2. j = d + k
        BY <4>1
      <4>3. QED
        BY <2>1, <4>2
    <3>3. QED
      BY <3>1, <3>2
  <2>3. Len(tbuf') = 0 /\ d + n + 0 = d + n
    BY <1>2
  <2>4. Len(in'.body) + Len(tbuf') = d + n /\ \A j \in 1..Len(tbuf') : FALSE
    BY <2>1, <2>3
  <2>5. QED
    BY <2>1, <2>2, <2>4 DEF Held
<1>3. CASE in'.body = in.body /\ tbuf' = t
  BY <1>1, <1>3 DEF Held
<1>4. QED
  BY <1>2, <1>3

LEMMA DataStep ==
  ASSUME HttpInv, Http!ChunkData
  PROVE  HttpInv'
<1>1. PICK s, ms, e, i, o : Facing(s, ms, e, i, o)
  BY FacingIs
<1>2. /\ rpc = "data" /\ Http!TakeExactly(clen) /\ rpc' = "eol"
      /\ \/ /\ via = "decode" /\ tbuf' = tbuf
            /\ in' = [in EXCEPT !.body = @ \o SubSeq(wire, 1, clen)]
         \/ /\ via = "transformer" /\ in' = in
            /\ tbuf' = tbuf \o SubSeq(wire, 1, clen)
      /\ UNCHANGED Http!sender /\ UNCHANGED <<layered, via, clen, got>>
  BY DEF Http!ChunkData
<1>3. /\ s \in Seq(Symbol) /\ ms \subseteq Mark
      /\ wire \in Seq(Symbol) /\ Len(wire) \in Nat /\ pos \in Nat
      /\ Len(s) = pos + Len(wire) /\ Left(s, wire, pos)
      /\ \A j \in 1..Len(wire) : wire[j] = s[pos + j]
      /\ i \in 1..Len(log) /\ e \in Entry
  BY <1>1, <1>2, FacedIs
<1>4. InChunk(s, ms, e, i)
  BY <1>1, <1>2 DEF Facing, Current
<1>5. PICK m \in ms : /\ m.i = i /\ m.o + 3 = pos /\ s[m.o + 1] = [hex |-> clen]
                      /\ Held(e, m.d)
  BY <1>4 DEF InChunk
<1>6. in.hdr = e.hdr /\ clen > 0
  BY <1>4 DEF InChunk
<1>7. ReceiverTypes /\ in \in Draft /\ in.body \in Seq(Octet) /\ clen \in Nat /\ tbuf = <<>>
  BY <1>2 DEF HttpInv, ReceiverTypes, Draft
<1>8. /\ m \in Mark /\ m.d <= Len(e.body)
      /\ \/ \E n \in Nat : FullChunk(s, ms, e, m, n) /\ Lined(s, m, n) /\ n > 0
         \/ LastChunk(s, e, m) /\ Lined(s, m, 0)
         \/ Len(s) = m.o
         \/ Len(s) = m.o + 4 /\ s[m.o + 1] = CR /\ s[m.o + 2] = LF
         \/ /\ Len(s) = m.o + 7 /\ Lined(s, m, 1)
            /\ s[m.o + 4] \in Others /\ s[m.o + 5] \in Others
  BY <1>1, <1>2, <1>5, ChunkFound
<1>9. m.o \in Nat /\ m.d \in Nat /\ e.body \in Seq(Octet)
  BY <1>3, <1>8 DEF Mark, Entry
<1>10. Taken(s, clen)
  BY <1>2, <1>3, <1>7, TakeExactlyIs
<1>11. /\ clen <= Len(wire) /\ pos' = pos + clen /\ Left(s, wire', pos')
       /\ ahead' \in 0..Len(wire') /\ (layered => ahead' = 0)
  BY <1>10 DEF Taken
<1>12. PICK t : t = SubSeq(wire, 1, clen)
  OBVIOUS
<1>13. \A j \in 1..clen : j \in 1..Len(wire) /\ wire[j] = s[m.o + 3 + j]
  <2>1. \A j \in 1..clen : j \in 1..Len(wire)
    BY <1>3, <1>7, <1>11
  <2>2. QED
    BY <1>3, <1>5, <2>1
<1>14. ASSUME \A j \in 1..clen : wire[j] \in Octet
       PROVE  /\ t \in Seq(Octet) /\ Len(t) = clen /\ \A j \in 1..clen : t[j] = wire[j]
              /\ ReceiverTypes' /\ in'.hdr = e.hdr
              /\ \/ in'.body = in.body \o t /\ tbuf' = <<>>
                 \/ in'.body = in.body /\ tbuf' = t
  <2>1. t \in Seq(Octet) /\ Len(t) = clen /\ \A j \in 1..clen : t[j] = wire[j]
    BY <1>3, <1>7, <1>11, <1>12, <1>14, StretchIs
  <2>2. CASE via = "decode"
    <3>1. in' = [in EXCEPT !.body = in.body \o t] /\ tbuf' = <<>>
      BY <1>2, <1>7, <1>12, <2>2
    <3>2. in.body \o t \in Seq(Octet)
      BY <1>7, <2>1
    <3>3. in' \in Draft /\ in'.hdr = e.hdr /\ in'.body = in.body \o t
      BY <1>6, <1>7, <3>1, <3>2 DEF Draft
    <3>4. ReceiverTypes'
      BY <1>2, <1>7, <1>11, <3>1, <3>3 DEF ReceiverTypes, Draft
    <3>5. QED
      BY <2>1, <3>1, <3>3, <3>4
  <2>3. CASE via = "transformer"
    <3>1. tbuf' = t /\ in' = in
      BY <1>2, <1>7, <1>12, <2>1, <2>3, ConcatEmptySeq
    <3>2. ReceiverTypes'
      BY <1>2, <1>7, <1>11, <2>1, <2>3, <3>1 DEF ReceiverTypes
    <3>3. QED
      BY <1>6, <2>1, <3>1, <3>2
  <2>4. QED
    BY <1>2, <2>2, <2>3
<1>15. ASSUME \A j \in 1..clen : wire[j] \in Octet,
              Held(e, m.d + clen)' \/ (pos' < Len(s) /\ s[pos' + 1] \in Others)
       PROVE  HttpInv'
  <2>1. ReceiverTypes' /\ in'.hdr = e.hdr
    BY <1>14, <1>15
  <2>2. m.o + 3 + clen' = pos' /\ pos' <= Len(s) /\ clen' = clen /\ clen' # 0
    BY <1>2, <1>3, <1>5, <1>6, <1>7, <1>11
  <2>3. AfterChunk(s, ms, e, i)'
    <3>1. s[m.o + 1] = [hex |-> clen']
      BY <1>5, <2>2
    <3>2. Held(e, m.d + clen)' \/ (pos' < Len(s) /\ s[pos' + 1] \in Others)
      BY <1>15
    <3>3. QED
      BY <1>5, <2>1, <2>2, <3>1, <3>2 DEF AfterChunk
  <2>4. Current(s, ms, e, i, o)'
    BY <1>2, <2>3 DEF Current
  <2>5. QED
    BY <1>1, <1>2, <1>3, <1>11, <2>1, <2>4, GoesOn
<1>16. CASE \E n \in Nat : FullChunk(s, ms, e, m, n) /\ Lined(s, m, n) /\ n > 0
  <2>1. PICK n \in Nat : FullChunk(s, ms, e, m, n) /\ Lined(s, m, n)
    BY <1>16
  <2>2. n = clen
    BY <1>5, <1>7, <2>1, SameHex DEF Lined
  <2>3. m.d + clen <= Len(e.body) /\ \A j \in 1..clen : s[m.o + 3 + j] = e.body[m.d + j]
    BY <2>1, <2>2 DEF FullChunk
  <2>4. \A j \in 1..clen : wire[j] = e.body[m.d + j] /\ wire[j] \in Octet
    <3>1. PICK k \in Nat : k = Len(e.body)
      BY <1>9
    <3>2. \A j \in 1..clen : m.d + j \in 1..k
      BY <1>7, <1>9, <2>3, <3>1
    <3>3. \A j \in 1..k : e.body[j] \in Octet
      BY <1>9, <3>1
    <3>4. QED
      BY <1>13, <2>3, <3>2, <3>3
  <2>5. /\ t \in Seq(Octet) /\ Len(t) = clen /\ \A j \in 1..clen : t[j] = e.body[m.d + j]
        /\ \/ in'.body = in.body \o t /\ tbuf' = <<>>
           \/ in'.body = in.body /\ tbuf' = t
    BY <1>14, <2>4
  <2>6. Held(e, m.d + clen)'
    <3>1. PICK n1, d1 : n1 = clen /\ d1 = m.d
      OBVIOUS
    <3>2. Held(e, d1 + n1)'
      BY <1>3, <1>5, <1>7, <1>9, <2>3, <2>5, <3>1, HeldMore
    <3>3. clen' = n1
      BY <1>2, <3>1
    <3>4. QED
      BY <3>1, <3>2, <3>3 DEF Held
  <2>7. QED
    BY <1>15, <2>4, <2>6
<1>17. CASE Lined(s, m, 0)
  <2>1. clen = 0
    BY <1>5, <1>7, <1>17, SameHex DEF Lined
  <2>2. QED
    BY <1>6, <2>1
<1>18. CASE Len(s) = m.o
  BY <1>3, <1>5, <1>9, <1>18
<1>19. CASE s[m.o + 1] = CR
  <2>1. [hex |-> clen] \notin Octet
    BY <1>7, HexIs
  <2>2. QED
    BY <1>5, <1>19, <2>1 DEF Octet
<1>20. CASE /\ Len(s) = m.o + 7 /\ Lined(s, m, 1)
            /\ s[m.o + 4] \in Others /\ s[m.o + 5] \in Others
  <2>1. clen = 1
    BY <1>5, <1>7, <1>20, SameHex DEF Lined
  <2>2. pos' = m.o + 4 /\ pos' < Len(s) /\ pos' + 1 = m.o + 5 /\ m.o + 3 + 1 = m.o + 4
    <3>1. PICK a \in Nat : a = m.o
      BY <1>9
    <3>2. pos = a + 3 /\ pos' = pos + 1 /\ Len(s) = a + 7
      BY <1>5, <1>11, <1>20, <2>1, <3>1
    <3>3. pos' = a + 4 /\ pos' < Len(s) /\ pos' + 1 = a + 5 /\ a + 3 + 1 = a + 4
      BY <3>2
    <3>4. QED
      BY <3>1, <3>3
  <2>3. \A j \in 1..clen : wire[j] \in Octet
    <3>1. \A j \in 1..clen : j = 1
      BY <2>1
    <3>2. s[m.o + 3 + 1] \in Octet
      BY <1>20, <2>2 DEF Octet
    <3>3. QED
      BY <1>13, <3>1, <3>2
  <2>4. QED
    BY <1>15, <1>20, <2>2, <2>3
<1>21. QED
  BY <1>8, <1>16, <1>17, <1>18, <1>19, <1>20

LEMMA EolStep ==
  ASSUME HttpInv, Http!ChunkEol
  PROVE  HttpInv'
<1>1. PICK s, ms, e, i, o : Facing(s, ms, e, i, o)
  BY FacingIs
<1>2. PICK w : w = SubSeq(wire, 1, 2)
  OBVIOUS
<1>3. PICK h : h = [hdr |-> in.hdr, body |-> in.body]
  OBVIOUS
<1>4. /\ rpc = "eol" /\ Http!TakeExactly(2)
      /\ \/ w # <<CR, LF>> /\ rpc' = "failed" /\ got' = got
         \/ /\ w = <<CR, LF>> /\ clen > 0 /\ got' = got
            /\ rpc' = IF via = "decode" THEN "line" ELSE "reading"
         \/ w = <<CR, LF>> /\ clen = 0 /\ Http!Complete(h)
      /\ UNCHANGED Http!sender /\ UNCHANGED <<layered, in, via, clen, tbuf>>
  BY <1>2, <1>3 DEF Http!ChunkEol
<1>5. /\ s \in Seq(Symbol) /\ ms \subseteq Mark
      /\ wire \in Seq(Symbol) /\ Len(wire) \in Nat /\ pos \in Nat
      /\ Len(s) = pos + Len(wire) /\ Left(s, wire, pos)
      /\ \A j \in 1..Len(wire) : wire[j] = s[pos + j]
      /\ i \in 1..Len(log) /\ e \in Entry
  BY <1>1, <1>4, FacedIs
<1>6. AfterChunk(s, ms, e, i)
  BY <1>1, <1>4 DEF Facing, Current
<1>7. PICK m \in ms : /\ m.i = i /\ m.o + 3 + clen = pos /\ s[m.o + 1] = [hex |-> clen]
                      /\ clen = 0 => tbuf = <<>>
                      /\ \/ Held(e, m.d + clen)
                         \/ pos < Len(s) /\ s[pos + 1] \in Others
  BY <1>6 DEF AfterChunk
<1>8. ReceiverTypes /\ in \in Draft /\ in' \in Draft /\ clen \in Nat /\ in.hdr = e.hdr
  BY <1>4, <1>6 DEF HttpInv, ReceiverTypes, Draft, AfterChunk
<1>9. /\ m \in Mark /\ m.d <= Len(e.body)
      /\ \/ \E n \in Nat : FullChunk(s, ms, e, m, n) /\ Lined(s, m, n) /\ n > 0
         \/ LastChunk(s, e, m) /\ Lined(s, m, 0)
         \/ Len(s) = m.o
         \/ Len(s) = m.o + 4 /\ s[m.o + 1] = CR /\ s[m.o + 2] = LF
         \/ /\ Len(s) = m.o + 7 /\ Lined(s, m, 1)
            /\ s[m.o + 4] \in Others /\ s[m.o + 5] \in Others
  BY <1>1, <1>4, <1>7, ChunkFound
<1>10. m.o \in Nat /\ m.d \in Nat /\ e.body \in Seq(Octet)
  BY <1>5, <1>9 DEF Mark, Entry
<1>11. Taken(s, 2)
  BY <1>4, <1>5, <1>8, TakeExactlyIs
<1>12. /\ 2 <= Len(wire) /\ pos' = pos + 2 /\ Left(s, wire', pos')
       /\ ahead' \in 0..Len(wire') /\ (layered => ahead' = 0)
  BY <1>11 DEF Taken
<1>13. CASE w # <<CR, LF>>
  <2>1. rpc' = "failed" /\ got' = got
    BY <1>4, <1>13
  <2>2. UNCHANGED <<Http!sender, layered, via, tbuf, got>> /\ clen' \in Nat
    BY <1>4, <1>8, <2>1
  <2>3. QED
    BY <1>1, <1>8, <1>12, <2>1, <2>2, Fails
<1>14. CASE w = <<CR, LF>>
  <2>1. s[pos + 1] = CR
    <3>1. w[1] = CR /\ w[1] = wire[1] /\ 1 \in 1..Len(wire)
      BY <1>2, <1>5, <1>12, <1>14
    <3>2. QED
      BY <1>5, <3>1
  <2>2. Held(e, m.d + clen)
    BY <1>7, <2>1, HttpAssumption DEF Http!Assumed
  <2>3. CASE \E n \in Nat : FullChunk(s, ms, e, m, n) /\ Lined(s, m, n) /\ n > 0
    <3>1. PICK n \in Nat : FullChunk(s, ms, e, m, n) /\ Lined(s, m, n) /\ n > 0
      BY <2>3
    <3>2. n = clen
      BY <1>7, <1>8, <3>1, SameHex DEF Lined
    <3>3. /\ got' = got /\ rpc' = IF via = "decode" THEN "line" ELSE "reading"
      BY <1>4, <1>14, <3>1, <3>2
    <3>4. PICK p : p = M(m.o + 5 + n, m.i, m.d + n)
      OBVIOUS
    <3>5. p \in ms /\ p.i = i /\ p.o = m.o + 5 + n /\ p.d = m.d + clen
      BY <1>7, <3>1, <3>2, <3>4 DEF FullChunk, M
    <3>6. p.o = pos'
      <4>1. PICK a \in Nat : a = m.o
        BY <1>10
      <4>2. a + 3 + n = pos /\ p.o = a + 5 + n
        BY <1>7, <3>2, <3>5, <4>1
      <4>3. a + 5 + n = pos + 2
        BY <4>2
      <4>4. QED
        BY <1>12, <4>2, <4>3
    <3>7. Held(e, p.d)'
      <4>1. PICK d : d = m.d + clen
        OBVIOUS
      <4>2. Held(e, d)'
        BY <1>4, <2>2, <4>1 DEF Held
      <4>3. QED
        BY <3>5, <4>1, <4>2
    <3>8. AtMark(ms, e, i)'
      BY <1>4, <1>8, <3>5, <3>6, <3>7 DEF AtMark
    <3>9. Current(s, ms, e, i, o)'
      BY <3>3, <3>8 DEF Current
    <3>10. ReceiverTypes'
      BY <1>4, <1>8, <1>12, <3>3 DEF ReceiverTypes
    <3>11. QED
      BY <1>1, <1>4, <1>5, <1>12, <3>3, <3>9, <3>10, GoesOn
  <2>4. CASE LastChunk(s, e, m) /\ Lined(s, m, 0)
    <3>1. clen = 0
      BY <1>7, <1>8, <2>4, SameHex DEF Lined
    <3>2. tbuf = <<>> /\ Http!Complete(h)
      BY <1>4, <1>7, <1>14, <3>1
    <3>3. in.body \in Seq(Octet) /\ Len(in.body) = Len(e.body)
          /\ \A j \in 1..Len(in.body) : in.body[j] = e.body[j]
      <4>1. m.d + clen = Len(e.body)
        BY <1>10, <2>4, <3>1 DEF LastChunk
      <4>2. in.body \in Seq(Octet)
        BY <1>8 DEF Draft
      <4>3. QED
        BY <2>2, <3>2, <4>1, <4>2 DEF Held
    <3>4. in.body = e.body
      BY <1>10, <3>3, SeqEqual
    <3>5. h = [hdr |-> e.hdr, body |-> e.body]
      BY <1>3, <1>8, <3>4
    <3>6. e.end > 0 /\ pos' = e.end
      <4>1. PICK a \in Nat : a = m.o
        BY <1>10
      <4>2. a + 3 + 0 = pos /\ e.end = a + 5
        BY <1>7, <2>4, <3>1, <4>1 DEF LastChunk
      <4>3. e.end > 0 /\ pos + 2 = e.end
        BY <4>2
      <4>4. QED
        BY <1>12, <4>3
    <3>7. /\ rpc \notin {"idle", "failed"} /\ clen' \in Nat
          /\ UNCHANGED <<Http!sender, layered, via, tbuf>>
      BY <1>4, <1>8
    <3>8. QED
      BY <1>1, <1>8, <1>12, <3>2, <3>5, <3>6, <3>7, Completes
  <2>5. CASE Len(s) = m.o
    BY <1>5, <1>7, <1>8, <1>10, <2>5
  <2>6. CASE s[m.o + 1] = CR
    <3>1. [hex |-> clen] \notin Octet
      BY <1>8, HexIs
    <3>2. QED
      BY <1>7, <2>6, <3>1 DEF Octet
  <2>7. CASE Lined(s, m, 1) /\ s[m.o + 5] \in Others
    <3>1. clen = 1
      BY <1>7, <1>8, <2>7, SameHex DEF Lined
    <3>2. pos + 1 = m.o + 5
      BY <1>7, <1>10, <3>1
    <3>3. QED
      BY <2>1, <2>7, <3>2, HttpAssumption DEF Http!Assumed
  <2>8. QED
    BY <1>9, <2>3, <2>4, <2>5, <2>6, <2>7
<1>15. QED
  BY <1>13, <1>14

(* The receiver moves octets from the buffer to the body.                  *)
Parts(b, t, c, d) == /\ Len(b) + Len(t) = d /\ d <= Len(c)
                     /\ \A j \in 1..Len(b) : b[j] = c[j]
                     /\ \A j \in 1..Len(t) : t[j] = c[Len(b) + j]

LEMMA PartsMoved ==
  ASSUME NEW b \in Seq(Octet), NEW t \in Seq(Octet), NEW c, NEW d, Parts(b, t, c, d),
         NEW k \in 1..Len(t)
  PROVE  /\ b \o SubSeq(t, 1, k) \in Seq(Octet)
         /\ SubSeq(t, k + 1, Len(t)) \in Seq(Octet)
         /\ Parts(b \o SubSeq(t, 1, k), SubSeq(t, k + 1, Len(t)), c, d)
<1>1. PICK b2, t1, t2 : /\ t1 = SubSeq(t, 1, k) /\ t2 = SubSeq(t, k + 1, Len(t))
                        /\ b2 = b \o t1
  OBVIOUS
<1>2. /\ t1 \in Seq(Octet) /\ Len(t1) = k /\ \A j \in 1..k : t1[j] = t[j]
  <2>1. t1 \in Seq(Octet)
    BY <1>1, SubSeqProperties
  <2>2. Len(t1) = k /\ \A j \in 1..k : t1[j] = t[j]
    BY <1>1
  <2>3. QED
    BY <2>1, <2>2
<1>3. /\ t2 \in Seq(Octet) /\ Len(t2) = Len(t) - k
      /\ \A j \in 1..Len(t) - k : t2[j] = t[k + j]
  <2>1. t2 \in Seq(Octet)
    BY <1>1, SubSeqProperties
  <2>2. Len(t2) = Len(t) - k /\ \A j \in 1..Len(t) - k : t2[j] = t[k + j]
    BY <1>1
  <2>3. QED
    BY <2>1, <2>2
<1>4. Adjoined(b, t1, b2)
  BY <1>1, <1>2, JoinIs
<1>5. /\ b2 \in Seq(Octet) /\ Len(b2) = Len(b) + k
      /\ \A j \in 1..Len(b) : b2[j] = b[j]
      /\ \A j \in 1..k : b2[Len(b) + j] = t[j]
  BY <1>2, <1>4 DEF Adjoined
<1>6. /\ Len(b) \in Nat /\ Len(t) \in Nat /\ k \in Nat /\ k <= Len(t)
      /\ Len(b) + Len(t) = d /\ d <= Len(c)
      /\ \A j \in 1..Len(b) : b[j] = c[j]
      /\ \A j \in 1..Len(t) : t[j] = c[Len(b) + j]
  BY DEF Parts
<1>7. Len(b2) + Len(t2) = d
  BY <1>3, <1>5, <1>6
<1>8. ASSUME NEW j \in 1..Len(b2)
      PROVE  b2[j] = c[j]
  <2>1. CASE j \in 1..Len(b)
    BY <1>5, <1>6, <2>1
  <2>2. CASE j \notin 1..Len(b)
    <3>1. PICK q \in 1..k : j = Len(b) + q
      <4>1. j - Len(b) \in 1..k /\ j = Len(b) + (j - Len(b))
        BY <1>5, <1>6, <2>2
      <4>2. QED
        BY <4>1
    <3>2. q \in 1..Len(t)
      BY <1>6
    <3>3. QED
      BY <1>5, <1>6, <3>1, <3>2
  <2>3. QED
    BY <2>1, <2>2
<1>9. ASSUME NEW j \in 1..Len(t2)
      PROVE  t2[j] = c[Len(b2) + j]
  <2>1. j \in 1..Len(t) - k /\ k + j \in 1..Len(t) /\ Len(b2) + j = Len(b) + (k + j)
    BY <1>3, <1>5, <1>6
  <2>2. QED
    BY <1>3, <1>6, <2>1
<1>10. Parts(b2, t2, c, d)
  BY <1>6, <1>7, <1>8, <1>9 DEF Parts
<1>11. QED
  BY <1>1, <1>3, <1>5, <1>10

LEMMA ReadStep ==
  ASSUME HttpInv, NEW n \in ReadSizes, Http!TransformerRead(n)
  PROVE  HttpInv'
<1>1. PICK s, ms, e, i, o : Facing(s, ms, e, i, o)
  BY FacingIs
<1>2. PICK k : k = Http!Min({n, Len(tbuf)})
  OBVIOUS
<1>3. /\ rpc = "reading"
      /\ \/ tbuf = <<>> /\ rpc' = "line" /\ in' = in /\ tbuf' = tbuf
         \/ /\ tbuf # <<>> /\ rpc' = rpc
            /\ in' = [in EXCEPT !.body = @ \o SubSeq(tbuf, 1, k)]
            /\ tbuf' = SubSeq(tbuf, k + 1, Len(tbuf))
      /\ UNCHANGED Http!sender
      /\ UNCHANGED <<wire, layered, ahead, via, clen, pos, got>>
  BY <1>2 DEF Http!TransformerRead
<1>4. Left(s, wire, pos) /\ i \in 1..Len(log) /\ e \in Entry
  BY <1>1, <1>3, FacedIs
<1>5. Left(s, wire', pos')
  BY <1>3, <1>4
<1>6. AtMark(ms, e, i)
  BY <1>1, <1>3 DEF Facing, Current
<1>7. PICK m \in ms : m.i = i /\ m.o = pos /\ Held(e, m.d)
  BY <1>6 DEF AtMark
<1>8. in.hdr = e.hdr
  BY <1>6 DEF AtMark
<1>9. ReceiverTypes /\ in \in Draft /\ in.body \in Seq(Octet) /\ tbuf \in Seq(Octet)
      /\ (tbuf # <<>> => via = "transformer")
  BY DEF HttpInv, ReceiverTypes, Draft
<1>10. ASSUME in' \in Draft, in'.hdr = e.hdr, tbuf' \in Seq(Octet), Held(e, m.d)',
              rpc' \in {"line", "reading"},
              tbuf' # <<>> => via = "transformer" /\ rpc' = "reading"
       PROVE  HttpInv'
  <2>1. ReceiverTypes'
    BY <1>3, <1>9, <1>10 DEF ReceiverTypes, Draft
  <2>2. AtMark(ms, e, i)'
    BY <1>3, <1>7, <1>10 DEF AtMark
  <2>3. Current(s, ms, e, i, o)'
    BY <1>10, <2>2 DEF Current
  <2>4. QED
    BY <1>1, <1>3, <1>4, <1>5, <2>1, <2>3, GoesOn
<1>11. CASE tbuf = <<>> /\ rpc' = "line" /\ in' = in /\ tbuf' = tbuf
  <2>1. Held(e, m.d)'
    BY <1>7, <1>11 DEF Held
  <2>2. QED
    BY <1>8, <1>9, <1>10, <1>11, <2>1
<1>12. CASE /\ tbuf # <<>> /\ rpc' = rpc
            /\ in' = [in EXCEPT !.body = @ \o SubSeq(tbuf, 1, k)]
            /\ tbuf' = SubSeq(tbuf, k + 1, Len(tbuf))
  <2>1. n \in Nat /\ n > 0 /\ Len(tbuf) \in Nat /\ Len(tbuf) > 0
    <3>1. n \in Nat /\ n # 0
      BY HttpAssumption DEF Http!Assumed
    <3>2. QED
      BY <1>9, <1>12, <3>1
  <2>2. k \in 1..Len(tbuf)
    <3>1. CASE n <= Len(tbuf)
      <4>1. k = n
        BY <1>2, <2>1, <3>1, MinimumIs
      <4>2. QED
        BY <2>1, <3>1, <4>1
    <3>2. CASE Len(tbuf) <= n
      <4>1. k = Len(tbuf)
        BY <1>2, <2>1, <3>2, MinimumIs
      <4>2. QED
        BY <2>1, <4>1
    <3>3. QED
      BY <2>1, <3>1, <3>2
  <2>3. Parts(in.body, tbuf, e.body, m.d)
    BY <1>7 DEF Held, Parts
  <2>4. PICK b, t : b = in.body \o SubSeq(tbuf, 1, k) /\ t = SubSeq(tbuf, k + 1, Len(tbuf))
    OBVIOUS
  <2>5. b \in Seq(Octet) /\ t \in Seq(Octet) /\ Parts(b, t, e.body, m.d)
    BY <1>9, <2>2, <2>3, <2>4, PartsMoved
  <2>6. in' = [in EXCEPT !.body = b] /\ tbuf' = t
    BY <1>12, <2>4
  <2>7. in' \in Draft /\ in'.hdr = e.hdr /\ in'.body = b
    BY <1>8, <1>9, <2>5, <2>6 DEF Draft
  <2>8. Held(e, m.d)'
    BY <2>5, <2>6, <2>7 DEF Held, Parts
  <2>9. QED
    BY <1>3, <1>9, <1>10, <1>12, <2>5, <2>6, <2>7, <2>8
<1>13. QED
  BY <1>3, <1>11, <1>12

LEMMA EofStep ==
  ASSUME HttpInv, Http!RecvEof
  PROVE  HttpInv'
<1>1. PICK s, ms, e, i, o : Facing(s, ms, e, i, o)
  BY FacingIs
<1>2. rpc' = "failed" /\ UNCHANGED Http!sender
      /\ UNCHANGED <<wire, layered, ahead, in, via, clen, tbuf, pos, got>>
  BY DEF Http!RecvEof
<1>3. Left(s, wire, pos)
  BY <1>1 DEF Facing
<1>4. Left(s, wire', pos')
  BY <1>2, <1>3
<1>5. /\ in' \in Draft /\ clen' \in Nat /\ ahead' \in 0..Len(wire')
      /\ (layered => ahead' = 0)
  BY <1>2 DEF HttpInv, ReceiverTypes, Draft
<1>6. QED
  BY <1>1, <1>2, <1>4, <1>5, Fails
-----------------------------------------------------------------------------
(***************************************************************************)
(* The theorems.                                                           *)
(***************************************************************************)
LEMMA HttpStarts ==
  ASSUME HttpInit
  PROVE  HttpInv
<1>1. /\ out = [hdr |-> Http!NoHeaders, body |-> <<>>, empty |-> FALSE]
      /\ edits = 0 /\ chunks = 0 /\ spc = "idle" /\ log = <<>> /\ wire = <<>>
      /\ layered \in BOOLEAN /\ ahead = 0 /\ rpc = "idle" /\ via = "decode"
      /\ in = [hdr |-> Http!NoHeaders, body |-> <<>>, empty |-> FALSE]
      /\ clen = 0 /\ tbuf = <<>> /\ pos = 0 /\ got = <<>>
  BY DEF HttpInit, Http!Init
<1>2. Http!NoHeaders \in Headers
  BY DEF Http!NoHeaders, Headers
<1>3. MaxEdits \in Nat /\ MaxChunks \in Nat /\ MaxMessages \in Nat
  BY HttpAssumption DEF Http!Assumed
<1>4. SenderTypes
  BY <1>1, <1>2, <1>3 DEF SenderTypes
<1>5. ReceiverTypes
  BY <1>1, <1>2 DEF ReceiverTypes
<1>6. Kept(log)
  BY <1>1 DEF Kept
<1>7. Begin(log, Len(got) + 1) = 0
  BY <1>1 DEF Begin
<1>8. Sent(<<>>, {}, log, spc)
  BY <1>1 DEF Sent, Typed, Messages, Chunks, Tip, Begin
<1>9. Left(<<>>, wire, pos)
  BY <1>1 DEF Left
<1>10. Current(<<>>, {}, log[Len(got) + 1], Len(got) + 1, Begin(log, Len(got) + 1))
  BY <1>1, <1>7 DEF Current
<1>11. QED
  BY <1>4, <1>5, <1>6, <1>8, <1>9, <1>10 DEF HttpInv, Inv

LEMMA HttpStays ==
  ASSUME HttpInv, UNCHANGED hvars
  PROVE  HttpInv'
<1>1. /\ UNCHANGED Http!sender
      /\ UNCHANGED <<wire, layered, ahead, rpc, in, via, clen, tbuf, pos, got>>
  BY DEF hvars, Http!sender
<1>2. SenderTypes'
  BY <1>1 DEF HttpInv, SenderTypes, Http!sender
<1>3. ReceiverTypes'
  BY <1>1 DEF HttpInv, ReceiverTypes
<1>4. Kept(log)'
  BY <1>1 DEF HttpInv, Kept, Http!sender
<1>5. PICK s, ms : Inv(s, ms)
  BY DEF HttpInv
<1>6. Inv(s, ms)'
  BY <1>1, <1>5 DEF Inv, Http!sender, Current, InHead, InBody, AtMark, InChunk,
                    AfterChunk, Held
<1>7. QED
  BY <1>2, <1>3, <1>4, <1>6 DEF HttpInv

LEMMA HttpGoesOn ==
  ASSUME HttpInv, [Calm(Http!Next)]_<<vars, hvars>>
  PROVE  HttpInv'
<1>1. CASE UNCHANGED hvars
  BY <1>1, HttpStays
<1>2. CASE Http!Next
  <2>1. \/ Http!Send
        \/ Http!DecodeHead \/ Http!DecodeBody \/ Http!ChunkLine \/ Http!ChunkData
        \/ Http!ChunkEol \/ Http!RecvEof
        \/ \E n \in ReadSizes : Http!TransformerRead(n)
        \/ \E how \in {"decode", "transformer"} : Http!DecodeCall(how)
    BY <1>2, Zenon DEF Http!Next, Http!Receive
  <2>2. QED
    BY <2>1, SendStep, HeadStep, BodyStep, LineStep, DataStep, EolStep, EofStep, ReadStep,
       CallStep, Zenon
<1>3. QED
  BY <1>1, <1>2 DEF Calm

LEMMA HttpImplies ==
  ASSUME HttpInv
  PROVE  Http!Faithful /\ Http!Aligned
<1>1. Http!Faithful
  BY DEF HttpInv, Kept, Http!Faithful
<1>2. PICK s, ms, e, i, o : Facing(s, ms, e, i, o)
  BY FacingIs
<1>3. /\ log \in Seq(Entry) /\ Len(got) \in Nat /\ i = Len(got) + 1 /\ o = Begin(log, i)
      /\ Sent(s, ms, log, spc) /\ Current(s, ms, e, i, o)
  BY <1>2, FacedIs DEF Facing
<1>4. Http!HeaderValues[Http!TE] = Coding
  BY DEF Http!HeaderValues, Http!TE, Http!CL, Coding
<1>5. \A hdr \in {out.hdr, in.hdr} :
        hdr[Http!CL] \in Seq(Nat) /\ hdr[Http!TE] \in Seq(Http!HeaderValues[Http!TE])
  <2>1. out.hdr \in Headers /\ in.hdr \in Headers
    BY DEF HttpInv, SenderTypes, ReceiverTypes
  <2>2. QED
    BY <1>4, <2>1 DEF Headers
<1>6. Http!TypeOK
  <2>1. spc \in {"idle", "chunks", "closed"}
    BY <1>3 DEF Sent, Tip
  <2>2. QED
    BY <1>5, <2>1 DEF HttpInv, SenderTypes, ReceiverTypes, Kept, Http!TypeOK
<1>7. ASSUME rpc = "idle"
      PROVE  ahead = 0 /\ pos = IF got = <<>> THEN 0 ELSE log[Len(got)].end
  <2>1. pos = o /\ ahead = 0
    BY <1>3, <1>7 DEF Current
  <2>2. CASE got = <<>>
    BY <1>3, <2>1, <2>2 DEF Begin
  <2>3. CASE got # <<>>
    <3>1. Len(got) # 0
      BY <2>3 DEF HttpInv, ReceiverTypes
    <3>2. i # 1 /\ i - 1 = Len(got)
      BY <1>3, <3>1
    <3>3. QED
      BY <1>3, <2>1, <2>3, <3>2 DEF Begin
  <2>4. QED
    BY <2>2, <2>3
<1>8. QED
  BY <1>1, <1>6, <1>7 DEF Http!Aligned

(* Of HttpStream: in every state the symbols, the messages and the marks   *)
(* of the chunks belong together, whatever the sender did to its message,  *)
(* where it broke off, how it garbled the stream, and however chunks and   *)
(* reads are cut.                                                          *)
THEOREM HttpInvariance == OneConnection => []HttpInv
<1>1. HttpInit => HttpInv
  BY HttpStarts
<1>2. HttpInv /\ [Calm(Http!Next)]_<<vars, hvars>> => HttpInv'
  BY HttpGoesOn
<1>3. QED
  BY <1>1, <1>2, PTL DEF OneConnection

(* What decode() and the chunk transformer return is what encode(), write  *)
(* and flush sent, message by message, headers and body, in order; what    *)
(* was cut off or garbled never passes for a whole message.                *)
THEOREM MessagesFaithful == OneConnection => []Faithful
<1>1. HttpInv => Faithful
  BY HttpImplies DEF Faithful
<1>2. QED
  BY <1>1, HttpInvariance, PTL

(* Between two messages decode() has consumed exactly the messages that it *)
(* returned, and the transformer it made for itself holds nothing of the   *)
(* next one; every variable keeps its type.                                *)
THEOREM MessagesAligned == OneConnection => []Aligned
<1>1. HttpInv => Aligned
  BY HttpImplies DEF Aligned
<1>2. QED
  BY <1>1, HttpInvariance, PTL
=============================================================================
