-------------------------- MODULE CommBridgeProofs --------------------------
(***************************************************************************)
(* Conveyed and LoopbackInOrder of module CommBridge hold for any length   *)
(* of the stream, any sizes and any budgets.  What FlattenSeq makes of a   *)
(* list that grows, or loses its first slices or a part of one, follows    *)
(* from the sequences it has made of the first i slices (Joins).           *)
(***************************************************************************)
EXTENDS CommBridge, SequenceTheorems, WellFoundedInduction, TLAPS

Cells == Seq(Nat)

(* f[i] is the first i sequences of s, one after another.                  *)
Joins(f, s) == /\ f \in [0..Len(s) -> Cells]
               /\ f[0] = <<>>
               /\ \A i \in 1..Len(s) : f[i] = f[i - 1] \o s[i]

(* Where the bridge is: of the nread bytes in the buffer the first pos     *)
(* were written, and only the stream that was read but for those is in.    *)
Types == /\ sink \in Sinks /\ budget \in Budgets /\ stop \in BOOLEAN
         /\ rlen \in Int /\ nread \in Nat /\ pos \in Nat
         /\ lst \in Seq(Cells) /\ fifo \in Cells /\ sent \in Seq(Nat)
Copying == /\ pc = "reading" => /\ rlen <= MaxPerRead
                                /\ budget >= 0 => rlen <= budget - total
           /\ pc = "writing" => /\ got = total + nread /\ nread <= MaxPerRead
                                /\ \A i \in 1..nread : buf[i] = total + i
           /\ pc \notin {"writing", "failed"} => got = total
           /\ budget >= 0 => got <= budget
           /\ sink = "socket" => /\ pc # "failed"
                                 /\ sent = Bytes(IF pc = "writing" THEN total + pos ELSE got)
           /\ sink = "loopback" => sent = <<>>

IInv == LoopbackInOrder /\ Types /\ Copying
-----------------------------------------------------------------------------
LEMMA Least ==
  ASSUME NEW T \in SUBSET Nat, T # {}
  PROVE  \E x \in T : \A y \in T : x <= y
<1>1. IsWellFoundedOn(OpToRel(<, Nat), Nat)
  BY NatLessThanWellFounded
<1>2. PICK x \in T : \A y \in T : ~(<<y, x>> \in OpToRel(<, Nat))
  BY <1>1, WFMin
<1>3. ASSUME NEW y \in T PROVE x <= y
  <2>1. ~(y < x)
    BY <1>2 DEF OpToRel
  <2>2. QED
    BY <2>1
<1>4. QED
  BY <1>3

LEMMA SplitAt ==
  ASSUME NEW S, NEW s \in Seq(S), NEW n \in 0..Len(s)
  PROVE  /\ First(s, n) \in Seq(S) /\ Len(First(s, n)) = n
         /\ \A i \in 1..n : First(s, n)[i] = s[i]
         /\ Rest(s, n) \in Seq(S) /\ Len(Rest(s, n)) = Len(s) - n
         /\ First(s, n) \o Rest(s, n) = s
<1>1. Len(s) \in Nat /\ \A i \in 1..Len(s) : s[i] \in S
  BY LenProperties, ElementOfSeq
<1>2. /\ SubSeq(s, 1, n) \in Seq(S)
      /\ Len(SubSeq(s, 1, n)) = IF 1 <= n THEN n - 1 + 1 ELSE 0
      /\ \A i \in 1..n - 1 + 1 : SubSeq(s, 1, n)[i] = s[1 + i - 1]
  BY <1>1, SubSeqProperties
<1>3. /\ SubSeq(s, n + 1, Len(s)) \in Seq(S)
      /\ Len(SubSeq(s, n + 1, Len(s)))
           = IF n + 1 <= Len(s) THEN Len(s) - (n + 1) + 1 ELSE 0
  BY <1>1, SubSeqProperties
<1>4. SubSeq(s, 1, n) \o SubSeq(s, n + 1, Len(s)) = SubSeq(s, 1, Len(s))
  <2>1. /\ 1 \in 1..Len(s) + 1 /\ n \in 1 - 1..Len(s)
        /\ Len(s) \in n..Len(s)
    BY <1>1
  <2>2. QED
    BY <2>1, ConcatAdjacentSubSeq
<1>5. SubSeq(s, 1, Len(s)) = s
  BY SubSeqFull
<1>6. \A i \in 1..n : First(s, n)[i] = s[i]
  BY <1>1, <1>2 DEF First
<1>7. First(s, n) \in Seq(S) /\ Len(First(s, n)) = n
  BY <1>1, <1>2 DEF First
<1>8. Rest(s, n) \in Seq(S) /\ Len(Rest(s, n)) = Len(s) - n
  BY <1>1, <1>3 DEF Rest
<1>9. First(s, n) \o Rest(s, n) = s
  BY <1>4, <1>5 DEF First, Rest
<1>10. QED
  BY <1>6, <1>7, <1>8, <1>9

(* What is left of p and q after the cells of p.                           *)
LEMMA RestOfJoined ==
  ASSUME NEW p \in Cells, NEW q \in Cells
  PROVE  Rest(p \o q, Len(p)) = q
<1> DEFINE s == p \o q
           m == Len(p)
<1>1. /\ s \in Cells /\ Len(s) = m + Len(q) /\ m \in Nat /\ Len(q) \in Nat
      /\ \A i \in 1..Len(s) : s[i] = IF i <= m THEN p[i] ELSE q[i - m]
      /\ \A i \in 1..Len(s) : s[i] \in Nat
  BY ConcatProperties, LenProperties, ElementOfSeq DEF Cells
<1> HIDE DEF s, m
<1>2. /\ SubSeq(s, m + 1, Len(s)) \in Cells
      /\ Len(SubSeq(s, m + 1, Len(s)))
           = IF m + 1 <= Len(s) THEN Len(s) - (m + 1) + 1 ELSE 0
      /\ \A i \in 1..Len(s) - (m + 1) + 1 :
           SubSeq(s, m + 1, Len(s))[i] = s[m + 1 + i - 1]
  BY <1>1, SubSeqProperties DEF Cells
<1>3. Len(Rest(s, m)) = Len(q) /\ Rest(s, m) \in Cells
  BY <1>1, <1>2 DEF Rest
<1>4. ASSUME NEW i \in 1..Len(q) PROVE Rest(s, m)[i] = q[i]
  <2>1. /\ i \in 1..Len(s) - (m + 1) + 1 /\ m + 1 + i - 1 = m + i
        /\ m + i \in 1..Len(s) /\ ~(m + i <= m) /\ m + i - m = i
    BY <1>1
  <2>2. PICK j \in Nat : j = m + i
    BY <1>1
  <2>3. s[j] = q[i]
    BY <1>1, <2>1, <2>2
  <2>4. QED
    BY <1>2, <2>1, <2>2, <2>3 DEF Rest
<1>5. QED
  BY <1>3, <1>4, SeqEqual DEF s, m, Cells
-----------------------------------------------------------------------------
(* FlattenSeq computes the last member of such an f, and there is one.     *)
LEMMA JoinsExists ==
  ASSUME NEW s \in Seq(Cells)
  PROVE  \E f : Joins(f, s)
<1> DEFINE Upto(f, n) == /\ f \in [0..n -> Cells] /\ f[0] = <<>>
                         /\ \A i \in 1..n : f[i] = f[i - 1] \o s[i]
           T == {n \in 0..Len(s) : \A f : ~Upto(f, n)}
<1>1. Len(s) \in Nat /\ (\A i \in 1..Len(s) : s[i] \in Cells) /\ <<>> \in Cells
  BY LenProperties, ElementOfSeq, EmptySeq DEF Cells
<1>2. T = {}
  <2>1. SUFFICES ASSUME T # {} PROVE FALSE
    OBVIOUS
  <2>2. T \in SUBSET Nat
    <3> HIDE DEF Upto
    <3>1. T \subseteq 0..Len(s)
      OBVIOUS
    <3> HIDE DEF T
    <3>2. 0..Len(s) \subseteq Nat
      BY <1>1
    <3>3. QED
      BY <3>1, <3>2
  <2>3. PICK n \in T : \A y \in T : n <= y
    BY <2>1, <2>2, Least
  <2>4. n \in 0..Len(s) /\ \A f : ~Upto(f, n)
    BY <2>3
  <2>5. CASE n = 0
    <3>1. Upto([i \in 0..0 |-> <<>>], 0)
      BY <1>1
    <3>2. QED
      BY <2>4, <2>5, <3>1
  <2>6. CASE n # 0
    <3>1. PICK m \in 0..Len(s) : n = m + 1 /\ n \in 1..Len(s)
      <4>1. n - 1 \in 0..Len(s) /\ n = (n - 1) + 1 /\ n \in 1..Len(s)
        BY <1>1, <2>4, <2>6
      <4>2. QED
        BY <4>1
    <3>2. \E f : Upto(f, m)
      <4> HIDE DEF Upto
      <4>1. ~(n <= m)
        <5> HIDE DEF T
        <5>1. QED
          BY <1>1, <3>1
      <4>2. m \notin T
        <5> HIDE DEF T
        <5>1. QED
          BY <2>3, <4>1
      <4>3. QED
        BY <3>1, <4>2
    <3>3. PICK f : Upto(f, m)
      BY <3>2
    <3> DEFINE g == [i \in 0..n |-> IF i = n THEN f[m] \o s[n] ELSE f[i]]
    <3>4. f[m] \in Cells /\ f[m] \o s[n] \in Cells
      <4>1. f[m] \in Cells /\ s[n] \in Cells
        BY <1>1, <3>1, <3>3
      <4>2. QED
        BY <4>1, ConcatProperties DEF Cells
    <3>5. \A i \in 0..n : i = n \/ i \in 0..m
      BY <1>1, <3>1
    <3>6. g \in [0..n -> Cells]
      BY <3>3, <3>4, <3>5
    <3>7. g[0] = <<>>
      BY <1>1, <3>1, <3>3
    <3>8. ASSUME NEW i \in 1..n PROVE g[i] = g[i - 1] \o s[i]
      <4>1. PICK j \in 0..m : j = i - 1
        BY <1>1, <3>1, <3>8
      <4>2. i \in 0..n /\ j \in 0..n /\ j # n
        BY <1>1, <3>1, <4>1
      <4>3. g[j] = f[j]
        BY <4>2
      <4>4. CASE i = n
        <5>1. j = m
          BY <1>1, <3>1, <4>1, <4>4
        <5>2. g[i] = f[m] \o s[n]
          BY <4>2, <4>4
        <5>3. QED
          BY <4>1, <4>3, <4>4, <5>1, <5>2
      <4>5. CASE i # n
        <5>1. i \in 1..m
          BY <1>1, <3>1, <4>5
        <5>2. g[i] = f[i] /\ f[i] = f[i - 1] \o s[i]
          BY <3>3, <4>2, <4>5, <5>1
        <5>3. QED
          BY <4>1, <4>3, <5>2
      <4>6. QED
        BY <4>4, <4>5
    <3>9. Upto(g, n)
      BY <3>6, <3>7, <3>8
    <3>10. QED
      BY <2>4, <3>9
  <2>7. QED
    BY <2>5, <2>6
<1>3. Len(s) \in 0..Len(s)
  BY <1>1
<1>4. \E f : Upto(f, Len(s))
  <2> HIDE DEF Upto
  <2>1. QED
    BY <1>2, <1>3
<1>5. QED
  BY <1>4 DEF Joins

LEMMA FlattenIs ==
  ASSUME NEW s \in Seq(Cells), NEW f, Joins(f, s)
  PROVE  FlattenSeq(s) = f[Len(s)] /\ FlattenSeq(s) \in Cells
<1> DEFINE Flattens(g) == g = [i \in 1..Len(s) |-> IF i = 1 THEN s[i] ELSE g[i - 1] \o s[i]]
           c == CHOOSE g : Flattens(g)
<1>1. /\ Len(s) \in Nat /\ \A i \in 1..Len(s) : s[i] \in Cells
      /\ f \in [0..Len(s) -> Cells] /\ f[0] = <<>>
      /\ \A i \in 1..Len(s) : f[i] = f[i - 1] \o s[i]
  BY LenProperties, ElementOfSeq DEF Joins, Cells
<1>2. FlattenSeq(s) = IF Len(s) = 0 THEN s ELSE c[Len(s)]
  BY DEF FlattenSeq
<1>3. f[Len(s)] \in Cells
  BY <1>1
<1>4. CASE Len(s) = 0
  <2>1. s = <<>>
    BY <1>4, EmptySeq
  <2>2. QED
    BY <1>1, <1>2, <1>3, <1>4, <2>1
<1>5. CASE Len(s) # 0
  <2> DEFINE h == [i \in 1..Len(s) |-> f[i]]
  <2>1. ASSUME NEW i \in 1..Len(s)
        PROVE  h[i] = IF i = 1 THEN s[i] ELSE h[i - 1] \o s[i]
    <3>1. h[i] = f[i] /\ f[i] = f[i - 1] \o s[i] /\ s[i] \in Cells
      BY <1>1
    <3>2. CASE i = 1
      <4>1. f[i - 1] = <<>> /\ <<>> \o s[i] = s[i]
        BY <1>1, <3>1, <3>2, ConcatEmptySeq DEF Cells
      <4>2. QED
        BY <3>1, <3>2, <4>1
    <3>3. CASE i # 1
      <4>1. i - 1 \in 1..Len(s)
        BY <1>1, <3>3
      <4>2. h[i - 1] = f[i - 1]
        BY <4>1
      <4>3. QED
        BY <3>1, <3>3, <4>2
    <3>4. QED
      BY <3>2, <3>3
  <2>2. h = [i \in 1..Len(s) |-> IF i = 1 THEN s[i] ELSE h[i - 1] \o s[i]]
    BY <2>1
  <2>3. Flattens(h)
    BY <2>2
  <2> HIDE DEF h
  <2>4. Flattens(c)
    BY <2>3
  <2> HIDE DEF c
  <2>5. \A i \in 1..Len(s) : c[i] = IF i = 1 THEN s[i] ELSE c[i - 1] \o s[i]
    BY <2>4
  <2> DEFINE T == {i \in 1..Len(s) : c[i] # f[i]}
  <2>6. T = {}
    <3>1. SUFFICES ASSUME T # {} PROVE FALSE
      OBVIOUS
    <3>2. T \in SUBSET Nat
      OBVIOUS
    <3>3. PICK i \in T : \A y \in T : i <= y
      BY <3>1, <3>2, Least
    <3>4. /\ i \in 1..Len(s) /\ c[i] # f[i]
          /\ c[i] = (IF i = 1 THEN s[i] ELSE c[i - 1] \o s[i])
          /\ f[i] = f[i - 1] \o s[i] /\ s[i] \in Cells
      BY <1>1, <2>5, <3>3
    <3>5. CASE i = 1
      <4>1. f[i - 1] = <<>> /\ <<>> \o s[i] = s[i]
        BY <1>1, <3>4, <3>5, ConcatEmptySeq DEF Cells
      <4>2. QED
        BY <3>4, <3>5, <4>1
    <3>6. CASE i # 1
      <4>1. PICK j \in 1..Len(s) : j = i - 1 /\ ~(i <= j)
        <5>1. i - 1 \in 1..Len(s) /\ ~(i <= i - 1)
          BY <1>1, <3>4, <3>6
        <5>2. QED
          BY <5>1
      <4>2. c[j] = f[j]
        BY <3>3, <4>1
      <4>3. QED
        BY <3>4, <3>6, <4>1, <4>2
    <3>7. QED
      BY <3>5, <3>6
  <2>7. Len(s) \in 1..Len(s)
    BY <1>1, <1>5
  <2>8. c[Len(s)] = f[Len(s)]
    BY <2>6, <2>7
  <2>9. QED
    BY <1>2, <1>3, <1>5, <2>8
<1>6. QED
  BY <1>4, <1>5

LEMMA FlattenNone == FlattenSeq(<<>>) = <<>>
  BY DEF FlattenSeq

LEMMA FlattenOne ==
  ASSUME NEW x \in Cells
  PROVE  FlattenSeq(<<x>>) = x
<1> DEFINE s == <<x>>
           h == [i \in 0..1 |-> IF i = 0 THEN <<>> ELSE x]
<1>1. s \in Seq(Cells) /\ Len(s) = 1 /\ s[1] = x
  OBVIOUS
<1> HIDE DEF s
<1>2. <<>> \in Cells /\ <<>> \o x = x
  BY EmptySeq, ConcatEmptySeq DEF Cells
<1>3. h \in [0..1 -> Cells] /\ h[0] = <<>> /\ h[1] = x
  BY <1>2
<1> HIDE DEF h
<1>4. h[1] = h[0] \o s[1]
  BY <1>1, <1>2, <1>3
<1>5. \A i \in 1..1 : h[i] = h[i - 1] \o s[i]
  <2>1. ASSUME NEW i \in 1..1 PROVE i = 1 /\ i - 1 = 0
    OBVIOUS
  <2>2. QED
    BY <1>4, <2>1
<1>6. Joins(h, s)
  BY <1>1, <1>3, <1>5 DEF Joins
<1>7. FlattenSeq(s) = h[Len(s)]
  BY <1>1, <1>6, FlattenIs
<1>8. QED
  BY <1>1, <1>3, <1>7 DEF s

LEMMA FlattenBoth ==
  ASSUME NEW s \in Seq(Cells), NEW t \in Seq(Cells)
  PROVE  /\ FlattenSeq(s \o t) = FlattenSeq(s) \o FlattenSeq(t)
         /\ FlattenSeq(s) \in Cells /\ FlattenSeq(t) \in Cells
<1>1. PICK f : Joins(f, s)
  BY JoinsExists
<1>2. PICK g : Joins(g, t)
  BY JoinsExists
<1>3. PICK u \in Seq(Cells) : u = s \o t
  BY ConcatProperties
<1>4. PICK m \in Nat : m = Len(s)
  BY LenProperties
<1>5. PICK k \in Nat : k = Len(t)
  BY LenProperties
<1>6. /\ Len(u) = m + k
      /\ \A i \in 1..m : u[i] = s[i]
      /\ \A i \in 1..k : u[m + i] = t[i]
  <2>1. /\ Len(u) = m + k
        /\ \A i \in 1..m + k : u[i] = IF i <= m THEN s[i] ELSE t[i - m]
    BY <1>3, <1>4, <1>5, ConcatProperties
  <2>2. ASSUME NEW i \in 1..k PROVE u[m + i] = t[i]
    <3>1. PICK j \in 1..m + k : j = m + i /\ ~(j <= m) /\ j - m = i
      BY <1>4, <1>5
    <3>2. QED
      BY <2>1, <3>1
  <2>3. ASSUME NEW i \in 1..m PROVE u[i] = s[i]
    <3>1. i \in 1..m + k /\ i <= m
      BY <1>4, <1>5
    <3>2. QED
      BY <2>1, <3>1
  <2>4. QED
    BY <2>1, <2>2, <2>3
<1>7. /\ f \in [0..m -> Cells] /\ f[0] = <<>>
      /\ \A i \in 1..m : f[i] = f[i - 1] \o s[i]
      /\ g \in [0..k -> Cells] /\ g[0] = <<>>
      /\ \A i \in 1..k : g[i] = g[i - 1] \o t[i]
  BY <1>1, <1>2, <1>4, <1>5 DEF Joins
<1>8. PICK p \in Cells : p = f[m]
  BY <1>4, <1>7
<1> DEFINE h == [i \in 0..m + k |-> IF i <= m THEN f[i] ELSE p \o g[i - m]]
<1>9. ASSUME NEW i \in 0..m PROVE h[i] = f[i] /\ h[i] \in Cells
  <2>1. i \in 0..m + k /\ i <= m
    BY <1>4, <1>5
  <2>2. h[i] = f[i]
    BY <2>1
  <2> HIDE DEF h
  <2>3. QED
    BY <1>7, <2>2
<1>10. ASSUME NEW i \in 0..k PROVE h[m + i] = p \o g[i] /\ h[m + i] \in Cells
  <2>1. g[i] \in Cells /\ p \o g[i] \in Cells
    BY <1>7, ConcatProperties DEF Cells
  <2>2. PICK j \in 0..m + k : j = m + i
    BY <1>4, <1>5
  <2>3. CASE i = 0
    <3>1. j = m /\ j <= m
      BY <1>4, <2>2, <2>3
    <3>2. h[j] = p
      BY <1>8, <3>1
    <3>3. p \o <<>> = p
      BY ConcatEmptySeq DEF Cells
    <3> HIDE DEF h
    <3>4. QED
      BY <1>7, <2>2, <2>3, <3>2, <3>3
  <2>4. CASE i # 0
    <3>1. ~(j <= m) /\ j - m = i
      BY <1>4, <2>2, <2>4
    <3>2. h[j] = p \o g[j - m]
      BY <3>1
    <3> HIDE DEF h
    <3>3. QED
      BY <2>1, <2>2, <3>1, <3>2
  <2>5. QED
    BY <2>3, <2>4
<1>11. h = [i \in 0..m + k |-> h[i]]
  OBVIOUS
<1> HIDE DEF h
<1>12. ASSUME NEW i \in 0..m + k
       PROVE  i \in 0..m \/ \E j \in 1..k : i = m + j
  <2>1. CASE i <= m
    BY <1>4, <2>1
  <2>2. CASE ~(i <= m)
    <3>1. i - m \in 1..k /\ i = m + (i - m)
      BY <1>4, <1>5, <2>2
    <3>2. QED
      BY <3>1
  <2>3. QED
    BY <2>1, <2>2
<1>13. h \in [0..m + k -> Cells]
  <2>1. ASSUME NEW i \in 0..m + k PROVE h[i] \in Cells
    <3>1. CASE i \in 0..m
      BY <1>9, <3>1
    <3>2. CASE \E j \in 1..k : i = m + j
      <4>1. PICK j \in 1..k : i = m + j
        BY <3>2
      <4>2. j \in 0..k
        BY <1>5
      <4>3. QED
        BY <1>10, <4>1, <4>2
    <3>3. QED
      BY <1>12, <3>1, <3>2
  <2>2. QED
    BY <1>11, <2>1
<1>14. h[0] = <<>>
  <2>1. 0 \in 0..m
    BY <1>4
  <2>2. QED
    BY <1>7, <1>9, <2>1
<1>15. ASSUME NEW i \in 1..m + k PROVE h[i] = h[i - 1] \o u[i]
  <2>1. CASE i \in 1..m
    <3>1. PICK l \in 0..m : l = i - 1
      BY <1>4, <2>1
    <3>2. i \in 0..m
      BY <2>1
    <3>3. h[i] = f[i] /\ h[l] = f[l]
      BY <1>9, <3>2
    <3>4. f[i] = f[l] \o s[i] /\ u[i] = s[i]
      BY <1>6, <1>7, <2>1, <3>1
    <3>5. QED
      BY <3>1, <3>3, <3>4
  <2>2. CASE i \notin 1..m
    <3>1. PICK j \in 1..k : i = m + j
      <4>1. i \in 0..m + k /\ i \notin 0..m
        BY <1>4, <1>5, <2>2
      <4>2. QED
        BY <1>12, <4>1
    <3>2. PICK l \in 0..k : l = j - 1
      BY <1>5
    <3>3. j \in 0..k /\ i - 1 = m + l
      BY <1>4, <1>5, <3>1, <3>2
    <3>4. h[i] = p \o g[j] /\ h[i - 1] = p \o g[l]
      BY <1>10, <3>1, <3>3
    <3>5. g[j] = g[l] \o t[j] /\ u[i] = t[j]
      BY <1>6, <1>7, <3>1, <3>2
    <3>6. g[l] \in Cells /\ t[j] \in Cells
      <4>1. t[j] \in Cells
        BY <1>5, ElementOfSeq
      <4>2. QED
        BY <1>7, <4>1
    <3>7. p \o (g[l] \o t[j]) = (p \o g[l]) \o t[j]
      <4>1. PICK a \in Seq(Nat) : a = g[l]
        BY <3>6 DEF Cells
      <4>2. PICK b \in Seq(Nat) : b = t[j]
        BY <3>6 DEF Cells
      <4>3. p \in Seq(Nat)
        BY DEF Cells
      <4>4. (p \o a) \o b = p \o (a \o b)
        BY <4>3, ConcatAssociative
      <4>5. QED
        BY <4>1, <4>2, <4>4, Zenon
    <3>8. QED
      BY <3>4, <3>5, <3>7, Zenon
  <2>3. QED
    BY <2>1, <2>2
<1>16. Joins(h, u)
  BY <1>6, <1>13, <1>14, <1>15 DEF Joins
<1>17. FlattenSeq(u) = h[m + k]
  BY <1>6, <1>16, FlattenIs
<1>18. h[m + k] = p \o g[k]
  <2>1. k \in 0..k
    BY <1>5
  <2>2. QED
    BY <1>10, <2>1
<1>19. FlattenSeq(s) = p /\ FlattenSeq(t) = g[k] /\ g[k] \in Cells
  <2>1. FlattenSeq(s) = f[m]
    BY <1>1, <1>4, FlattenIs
  <2>2. FlattenSeq(t) = g[k] /\ FlattenSeq(t) \in Cells
    BY <1>2, <1>5, FlattenIs
  <2>3. QED
    BY <1>8, <2>1, <2>2
<1>20. QED
  BY <1>3, <1>17, <1>18, <1>19, Zenon

LEMMA FlattenGrows ==
  ASSUME NEW s \in Seq(Cells), NEW x \in Cells
  PROVE  /\ FlattenSeq(Append(s, x)) = FlattenSeq(s) \o x
         /\ Append(s, x) \in Seq(Cells)
<1>1. PICK t \in Seq(Cells) : t = <<x>>
  <2>1. <<x>> \in Seq(Cells)
    OBVIOUS
  <2>2. QED
    BY <2>1
<1>2. Append(s, x) = s \o t
  BY <1>1, AppendIsConcat, Zenon
<1>3. FlattenSeq(t) = x
  BY <1>1, FlattenOne, Zenon
<1>4. FlattenSeq(s \o t) = FlattenSeq(s) \o FlattenSeq(t) /\ s \o t \in Seq(Cells)
  BY FlattenBoth, ConcatProperties
<1>5. QED
  BY <1>2, <1>3, <1>4, Zenon

LEMMA FirstGrows ==
  ASSUME NEW S, NEW s \in Seq(S), NEW i \in 1..Len(s)
  PROVE  First(s, i) = Append(First(s, i - 1), s[i])
<1>1. Len(s) \in Nat /\ s[i] \in S
  BY LenProperties, ElementOfSeq
<1>2. /\ 1 \in 1..Len(s) /\ i \in 1..Len(s) /\ i - 1 \in 0..Len(s)
  BY <1>1
<1>3. SubSeq(s, 1, i) = SubSeq(s, 1, i - 1) \o <<s[i]>>
  BY <1>2, SubSeqRecursiveSecond
<1>4. First(s, i - 1) \in Seq(S)
  BY <1>2, SplitAt
<1>5. Append(First(s, i - 1), s[i]) = First(s, i - 1) \o <<s[i]>>
  BY <1>1, <1>4, AppendIsConcat
<1>6. QED
  BY <1>3, <1>5 DEF First

-----------------------------------------------------------------------------
(* Where LoopbackAdaptor.read stops: in slice i, which n reaches and the   *)
(* slices before do not.                                                   *)
LEMMA LastSliceIs ==
  ASSUME lst \in Seq(Cells), NEW n \in Nat \ {0}, n <= Len(FlattenSeq(lst))
  PROVE  /\ LastSlice(n) \in 1..Len(lst)
         /\ Before(LastSlice(n)) \in Nat
         /\ Before(LastSlice(n)) < n
         /\ n <= Before(LastSlice(n)) + Len(lst[LastSlice(n)])
<1> DEFINE Reached(i) == Before(i) + Len(lst[i]) >= n
           T == {i \in 1..Len(lst) : Reached(i)}
<1>1. PICK N \in Nat : N = Len(lst)
  BY LenProperties
<1>2. \A i \in 1..N : lst[i] \in Cells /\ Len(lst[i]) \in Nat
  BY <1>1, ElementOfSeq, LenProperties DEF Cells
<1>3. ASSUME NEW i \in 0..N
      PROVE  /\ First(lst, i) \in Seq(Cells)
             /\ FlattenSeq(First(lst, i)) \in Cells
             /\ Len(FlattenSeq(First(lst, i))) \in Nat
  <2>1. First(lst, i) \in Seq(Cells)
    BY <1>1, SplitAt
  <2>2. FlattenSeq(First(lst, i)) \in Cells
    BY <2>1, FlattenBoth
  <2>3. QED
    BY <2>1, <2>2, LenProperties DEF Cells
<1>4. ASSUME NEW i \in 1..N
      PROVE  /\ Before(i) \in Nat
             /\ Len(FlattenSeq(First(lst, i))) = Before(i) + Len(lst[i])
  <2>1. PICK j \in 0..N : j = i - 1
    BY <1>1
  <2>2. PICK a \in Seq(Cells) : a = First(lst, j)
    BY <1>3
  <2>3. PICK b \in Seq(Cells) : b = First(lst, i)
    BY <1>3
  <2>4. PICK x \in Cells : x = lst[i]
    BY <1>2
  <2>5. Append(a, x) = b
    BY <1>1, <2>1, <2>2, <2>3, <2>4, FirstGrows, Zenon
  <2>6. FlattenSeq(b) = FlattenSeq(a) \o x
    BY <2>5, FlattenGrows, Zenon
  <2>7. PICK y \in Cells : y = FlattenSeq(a)
    BY FlattenBoth
  <2>8. Len(y \o x) = Len(y) + Len(x) /\ Len(y) \in Nat
    BY ConcatProperties, LenProperties DEF Cells
  <2>9. Before(i) = Len(y)
    BY <2>1, <2>2, <2>7 DEF Before
  <2>10. QED
    BY <2>3, <2>4, <2>6, <2>7, <2>8, <2>9
<1>5. N # 0
  <2>1. SUFFICES ASSUME N = 0 PROVE FALSE
    OBVIOUS
  <2>2. lst = <<>>
    BY <1>1, <2>1, EmptySeq
  <2>3. Len(FlattenSeq(lst)) = 0
    BY <2>2, FlattenNone, EmptySeq
  <2>4. QED
    BY <2>3
<1>6. Reached(N)
  <2>1. First(lst, N) = lst
    BY <1>1, SubSeqFull DEF First
  <2>2. Len(FlattenSeq(lst)) = Before(N) + Len(lst[N]) /\ Before(N) \in Nat
    BY <1>1, <1>4, <1>5, <2>1
  <2>3. Len(lst[N]) \in Nat
    BY <1>1, <1>2, <1>5
  <2>4. QED
    BY <2>2, <2>3
<1>7. T \subseteq 1..N /\ N \in T
  <2> HIDE DEF Reached
  <2>1. N \in 1..N
    BY <1>1, <1>5
  <2>2. QED
    BY <1>1, <1>6, <2>1
<1>8. LastSlice(n) = Min(T)
  BY DEF LastSlice
<1>9. PICK i \in T : (\A y \in T : i <= y) /\ LastSlice(n) = i
  <2> HIDE DEF T
  <2>1. T \in SUBSET Nat
    <3>1. 1..N \subseteq Nat
      BY <1>1
    <3>2. QED
      BY <1>7, <3>1
  <2>2. PICK x \in T : \A y \in T : x <= y
    BY <1>7, <2>1, Least
  <2>3. Min(T) \in T /\ \A y \in T : Min(T) <= y
    BY <2>2 DEF Min
  <2>4. QED
    BY <1>8, <2>3
<1>10. i \in 1..N /\ Before(i) + Len(lst[i]) >= n
  <2>1. i \in 1..Len(lst) /\ Reached(i)
    <3> HIDE DEF Reached
    <3>1. QED
      BY <1>9
  <2>2. QED
    BY <1>1, <2>1
<1>11. Before(i) \in Nat /\ Len(lst[i]) \in Nat
  BY <1>2, <1>4, <1>10
<1>12. Before(i) < n
  <2>1. CASE i = 1
    <3>1. i - 1 = 0
      BY <2>1
    <3>2. First(lst, 0) = <<>>
      BY SubSeqEmpty DEF First
    <3>3. Before(i) = 0
      BY <3>1, <3>2, FlattenNone, EmptySeq DEF Before
    <3>4. QED
      BY <3>3
  <2>2. CASE i # 1
    <3>1. PICK j \in 1..N : j = i - 1 /\ ~(i <= j)
      <4>1. i - 1 \in 1..N /\ ~(i <= i - 1)
        BY <1>1, <1>10, <2>2
      <4>2. QED
        BY <4>1
    <3>2. ~Reached(j)
      <4> HIDE DEF Reached
      <4>1. j \notin T
        <5> HIDE DEF T
        <5>1. QED
          BY <1>9, <3>1
      <4>2. QED
        BY <1>1, <4>1
    <3>3. Before(j) \in Nat /\ Len(lst[j]) \in Nat
      BY <1>2, <1>4
    <3>4. Before(i) = Before(j) + Len(lst[j])
      <4>1. Len(FlattenSeq(First(lst, j))) = Before(j) + Len(lst[j])
        BY <1>4
      <4>2. QED
        BY <3>1, <4>1 DEF Before
    <3>5. QED
      BY <3>2, <3>3, <3>4
  <2>3. QED
    BY <2>1, <2>2
<1>13. QED
  BY <1>1, <1>9, <1>10, <1>11, <1>12

(* The definition of Cat is hidden: \o lets no prover regroup.              *)
Cat(s, t) == s \o t

LEMMA Regroup ==
  ASSUME NEW s \in Cells, NEW t \in Cells, NEW u \in Cells
  PROVE  Cat(Cat(s, t), u) = Cat(s, Cat(t, u)) /\ Cat(s, t) \in Cells
<1>1. s \in Seq(Nat) /\ t \in Seq(Nat) /\ u \in Seq(Nat)
  BY DEF Cells
<1>2. (s \o t) \o u = s \o (t \o u)
  BY <1>1, ConcatAssociative
<1>3. s \o t \in Seq(Nat)
  BY <1>1, ConcatProperties
<1>4. QED
  BY <1>2, <1>3 DEF Cat, Cells

LEMMA FlattenAround ==
  ASSUME NEW a \in Seq(Cells), NEW b \in Seq(Cells), NEW z \in Cells, NEW r \in Cells,
         NEW x \in Cells, x = Cat(z, r)
  PROVE  FlattenSeq(Cat(Append(a, x), b))
           = Cat(Cat(FlattenSeq(a), z), Cat(r, FlattenSeq(b)))
<1>1. PICK d \in Seq(Cells) : d = Append(a, x) /\ FlattenSeq(d) = FlattenSeq(a) \o x
  BY FlattenGrows
<1>2. PICK y \in Cells : y = FlattenSeq(a)
  BY FlattenBoth
<1>3. PICK c \in Cells : c = FlattenSeq(b)
  BY FlattenBoth
<1>4. FlattenSeq(d \o b) = FlattenSeq(d) \o FlattenSeq(b)
  BY FlattenBoth
<1>5. FlattenSeq(Cat(d, b)) = Cat(Cat(y, x), c)
  BY <1>1, <1>2, <1>3, <1>4, Zenon DEF Cat
<1>6. Cat(Cat(y, z), r) = Cat(y, Cat(z, r)) /\ Cat(y, z) \in Cells
  BY Regroup
<1>7. Cat(Cat(Cat(y, z), r), c) = Cat(Cat(y, z), Cat(r, c))
  BY <1>6, Regroup
<1>8. QED
  BY <1>1, <1>2, <1>3, <1>5, <1>6, <1>7, Zenon

(* What LoopbackAdaptor.read leaves of the list is what it should.         *)
LEMMA ReadLeaves ==
  ASSUME lst \in Seq(Cells), fifo \in Cells, FlattenSeq(lst) = fifo,
         NEW n \in Nat \ {0}, n <= Len(fifo),
         NEW i, i = LastSlice(n), NEW k, k = n - Before(i), NEW left,
         left = IF k = Len(lst[i]) THEN Rest(lst, i)
                ELSE <<Rest(lst[i], k)>> \o Rest(lst, i)
  PROVE  /\ left \in Seq(Cells)
         /\ FlattenSeq(left) = Rest(fifo, n)
         /\ Rest(fifo, n) \in Cells
         /\ Len(Rest(fifo, n)) = Len(fifo) - n
<1>1. PICK N \in Nat : N = Len(lst)
  BY LenProperties
<1>2. /\ i \in 1..N /\ Before(i) \in Nat /\ Before(i) < n
      /\ n <= Before(i) + Len(lst[i])
  BY <1>1, LastSliceIs
<1>3. PICK x \in Cells : x = lst[i]
  BY <1>1, <1>2, ElementOfSeq
<1>4. /\ i - 1 \in 0..N /\ i \in 0..N
  BY <1>1, <1>2
<1>5. PICK a \in Seq(Cells) : a = First(lst, i - 1)
  BY <1>1, <1>4, SplitAt
<1>6. PICK b \in Seq(Cells) : b = Rest(lst, i)
  BY <1>1, <1>4, SplitAt
<1>7. PICK d \in Seq(Cells) : d = Append(a, x) /\ FlattenSeq(d) = FlattenSeq(a) \o x
  BY FlattenGrows
<1>8. lst = d \o b
  <2>1. First(lst, i) = d
    BY <1>1, <1>2, <1>3, <1>5, <1>7, FirstGrows, Zenon
  <2>2. First(lst, i) \o Rest(lst, i) = lst
    BY <1>1, <1>4, SplitAt
  <2>3. QED
    BY <1>6, <2>1, <2>2, Zenon
<1>9. PICK y \in Cells : y = FlattenSeq(a)
  BY FlattenBoth
<1>10. PICK c \in Cells : c = FlattenSeq(b)
  BY FlattenBoth
<1>11. Len(x) \in Nat /\ Len(y) \in Nat /\ Len(y) = Before(i)
  <2>1. Len(y) = Before(i)
    BY <1>5, <1>9 DEF Before
  <2>2. QED
    BY <2>1, LenProperties DEF Cells
<1>12. k \in 0..Len(x) /\ n = Len(y) + k
  BY <1>2, <1>3, <1>11
<1>13. PICK z \in Cells : z = First(x, k)
  BY <1>12, SplitAt DEF Cells
<1>14. PICK r \in Cells : r = Rest(x, k)
  BY <1>12, SplitAt DEF Cells
<1>15. x = z \o r /\ Len(z) = k /\ Len(r) = Len(x) - k
  BY <1>12, <1>13, <1>14, SplitAt DEF Cells
<1>16. PICK p \in Cells : p = y \o z /\ Len(p) = n
  <2>1. y \o z \in Cells /\ Len(y \o z) = Len(y) + Len(z)
    BY ConcatProperties DEF Cells
  <2>2. QED
    BY <1>12, <1>15, <2>1
<1>17. PICK q \in Cells : q = r \o c
  BY ConcatProperties DEF Cells
<1>18. fifo = p \o q
  <2>1. x = Cat(z, r)
    BY <1>15, Zenon DEF Cat
  <2>2. FlattenSeq(Cat(Append(a, x), b))
          = Cat(Cat(FlattenSeq(a), z), Cat(r, FlattenSeq(b)))
    BY <2>1, FlattenAround, SMT
  <2>3. lst = Cat(Append(a, x), b)
    BY <1>7, <1>8, Zenon DEF Cat
  <2>4. p = Cat(FlattenSeq(a), z) /\ q = Cat(r, FlattenSeq(b))
    BY <1>9, <1>10, <1>16, <1>17, Zenon DEF Cat
  <2>5. fifo = Cat(p, q)
    BY <2>2, <2>3, <2>4, Zenon
  <2>6. QED
    BY <2>5 DEF Cat
<1>19. Rest(fifo, n) = q
  <2>1. Rest(p \o q, Len(p)) = q
    BY RestOfJoined
  <2>2. QED
    BY <1>16, <1>18, <2>1, Zenon
<1>20. Len(q) = Len(fifo) - n
  <2>1. Len(p \o q) = Len(p) + Len(q) /\ Len(q) \in Nat
    BY ConcatProperties, LenProperties DEF Cells
  <2>2. QED
    BY <1>16, <1>18, <2>1
<1>21. left \in Seq(Cells) /\ FlattenSeq(left) = q
  <2>1. CASE k = Len(x)
    <3>1. left = b
      BY <1>3, <1>6, <2>1
    <3>2. r = <<>>
      <4>1. Len(r) = 0
        <5>1. PICK l \in Nat : l = Len(x)
          BY <1>11
        <5>2. l - l = 0
          OBVIOUS
        <5>3. QED
          BY <1>15, <2>1, <5>1, <5>2, Zenon
      <4>2. QED
        BY <4>1, EmptySeq DEF Cells
    <3>3. <<>> \o c = c
      BY ConcatEmptySeq DEF Cells
    <3>4. QED
      BY <1>10, <1>17, <3>1, <3>2, <3>3, Zenon
  <2>2. CASE k # Len(x)
    <3>1. PICK t \in Seq(Cells) : t = <<r>>
      <4>1. <<r>> \in Seq(Cells)
        OBVIOUS
      <4>2. QED
        BY <4>1
    <3>2. FlattenSeq(t) = r
      BY <3>1, FlattenOne, Zenon
    <3>3. t \o b \in Seq(Cells) /\ FlattenSeq(t \o b) = FlattenSeq(t) \o FlattenSeq(b)
      BY ConcatProperties, FlattenBoth
    <3>4. left = t \o b
      BY <1>3, <1>6, <1>14, <2>2, <3>1, Zenon
    <3>5. QED
      BY <1>10, <1>17, <3>2, <3>3, <3>4, Zenon
  <2>3. QED
    BY <2>1, <2>2
<1>22. QED
  BY <1>19, <1>20, <1>21, Zenon

-----------------------------------------------------------------------------
LEMMA BytesAre ==
  ASSUME NEW n \in Nat
  PROVE  /\ Bytes(n) \in Seq(Nat) /\ Len(Bytes(n)) = n
         /\ \A i \in 1..n : Bytes(n)[i] = i
  BY DEF Bytes

(* The bytes after the first n, put behind them.                           *)
LEMMA BytesGrow ==
  ASSUME NEW n \in Nat, NEW w \in Nat, NEW f \in Seq(Nat), Len(f) = w,
         \A i \in 1..w : f[i] = n + i
  PROVE  Bytes(n) \o f = Bytes(n + w)
<1>1. PICK m \in Nat : m = n + w
  OBVIOUS
<1>2. PICK b \in Seq(Nat) : b = Bytes(n) /\ Len(b) = n /\ \A i \in 1..n : b[i] = i
  BY BytesAre
<1>3. PICK c \in Seq(Nat) : c = Bytes(m) /\ Len(c) = m /\ \A i \in 1..m : c[i] = i
  BY BytesAre
<1>4. PICK d \in Seq(Nat) :
        d = b \o f /\ Len(d) = m
          /\ \A i \in 1..m : d[i] = IF i <= n THEN b[i] ELSE f[i - n]
  <2>1. /\ b \o f \in Seq(Nat) /\ Len(b \o f) = m
        /\ \A i \in 1..m : (b \o f)[i] = IF i <= n THEN b[i] ELSE f[i - n]
    BY <1>1, <1>2, ConcatProperties
  <2>2. QED
    BY <2>1
<1>5. ASSUME NEW i \in 1..m PROVE d[i] = c[i]
  <2>1. CASE i <= n
    BY <1>2, <1>3, <1>4, <2>1
  <2>2. CASE ~(i <= n)
    <3>1. PICK j \in 1..w : j = i - n /\ n + j = i
      <4>1. i - n \in 1..w /\ n + (i - n) = i
        BY <1>1, <2>2
      <4>2. QED
        BY <4>1
    <3>2. f[j] = i
      BY <3>1
    <3>3. QED
      BY <1>3, <1>4, <2>2, <3>1, <3>2
  <2>3. QED
    BY <2>1, <2>2
<1>6. d = c
  BY <1>3, <1>4, <1>5, SeqEqual
<1>7. QED
  BY <1>1, <1>2, <1>3, <1>4, <1>6, Zenon

LEMMA TurnKeeps ==
  ASSUME NEW tot \in Nat, budget \in Budgets, Turn(tot)
  PROVE  /\ rlen' \in Int /\ pc' \in {"reading", "done"}
         /\ rlen' <= MaxPerRead
         /\ budget >= 0 => rlen' <= budget - tot
<1>1. MaxPerRead \in Nat /\ (budget \in Nat \/ budget = -1)
  BY SizesAssumption
<1>2. rlen' = NextReadSize(tot) /\ pc' \in {"reading", "done"}
  BY DEF Turn
<1>3. QED
  BY <1>1, <1>2 DEF NextReadSize, MinOf

(* Where write_all is after w more bytes, and the loop after the last.     *)
LEMMA WroteKeeps ==
  ASSUME total \in Nat, nread \in Nat, pos \in Nat, budget \in Budgets,
         pc = "writing", NEW w \in 1..nread - pos, Wrote(w), got = total + nread
  PROVE  \/ /\ pos + w < nread /\ pos' = pos + w
            /\ pc' = "writing" /\ total' = total /\ rlen' = rlen
         \/ /\ pos + w = nread /\ pos' = nread /\ total' = got
            /\ rlen' \in Int /\ pc' \in {"reading", "done"}
            /\ rlen' <= MaxPerRead
            /\ budget >= 0 => rlen' <= budget - got
<1>1. CASE pos + w < nread
  BY <1>1 DEF Wrote
<1>2. CASE ~(pos + w < nread)
  <2>1. pos + w = nread /\ total + nread \in Nat
    BY <1>2
  <2>2. pos' = nread /\ total' = got /\ Turn(got)
    BY <1>2 DEF Wrote
  <2>3. QED
    BY <2>1, <2>2, TurnKeeps
<1>3. QED
  BY <1>1, <1>2

-----------------------------------------------------------------------------
LEMMA InitKeeps ==
  ASSUME Init
  PROVE  IInv
<1>1. MaxInput \in Nat /\ MaxPerRead \in Nat /\ MaxSize \in Nat
  BY SizesAssumption
<1>2. budget \in Nat \/ budget = -1
  BY SizesAssumption DEF Init
<1>3. TypeOK
  BY <1>1 DEF Init, TypeOK
<1>4. FlattenSeq(lst) = fifo /\ size = Len(fifo)
  BY FlattenNone DEF Init
<1>5. Types
  <2>1. <<>> \in Seq(Cells) /\ <<>> \in Cells /\ <<>> \in Seq(Nat)
    BY EmptySeq DEF Cells
  <2>2. lst \in Seq(Cells) /\ fifo \in Cells /\ sent \in Seq(Nat)
    BY <2>1, Zenon DEF Init
  <2>3. sink \in Sinks /\ budget \in Budgets
    BY Zenon DEF Init
  <2>4. stop \in BOOLEAN
    BY Zenon DEF Init
  <2>5. rlen \in Int /\ nread \in Nat /\ pos \in Nat
    <3>1. rlen = 0 /\ nread = 0 /\ pos = 0
      BY Zenon DEF Init
    <3>2. QED
      BY <3>1
  <2>6. QED
    BY <2>2, <2>3, <2>4, <2>5, Zenon DEF Types
<1>6. Bytes(0) = <<>>
  BY BytesAre, EmptySeq
<1>7. Copying
  <2>1. sent = <<>> /\ got = 0 /\ total = 0 /\ pc = "start"
    BY DEF Init
  <2>2. budget >= 0 => got <= budget
    BY <1>2, <2>1
  <2>3. QED
    BY <1>6, <2>1, <2>2 DEF Copying
<1>8. QED
  BY <1>3, <1>4, <1>5, <1>7 DEF IInv, LoopbackInOrder

LEMMA RunCallKeeps ==
  ASSUME IInv, RunCall
  PROVE  IInv'
<1>1. TypeOK /\ FlattenSeq(lst) = fifo /\ size = Len(fifo) /\ Types /\ Copying
  BY DEF IInv, LoopbackInOrder
<1>2. /\ pc = "start" /\ Turn(total)
      /\ UNCHANGED <<sink, budget, got, total, stop, nread, pos, buf, sent,
                     lst, size, fifo, out>>
  BY DEF RunCall, made, loop
<1>3. /\ rlen' \in Int /\ pc' \in {"reading", "done"} /\ rlen' <= MaxPerRead
      /\ budget >= 0 => rlen' <= budget - total
  BY <1>1, <1>2, TurnKeeps DEF TypeOK, Types
<1>4. TypeOK'
  BY <1>1, <1>2, <1>3 DEF TypeOK
<1>5. Types'
  BY <1>1, <1>2, <1>3 DEF Types
<1>6. Copying'
  BY <1>1, <1>2, <1>3 DEF Copying
<1>7. QED
  BY <1>1, <1>2, <1>4, <1>5, <1>6 DEF IInv, LoopbackInOrder

LEMMA ReadReturnKeeps ==
  ASSUME IInv, NEW n \in 1..MaxPerRead, ReadReturn(n)
  PROVE  IInv'
<1>1. TypeOK /\ FlattenSeq(lst) = fifo /\ size = Len(fifo) /\ Types /\ Copying
  BY DEF IInv, LoopbackInOrder
<1>2. /\ pc = "reading" /\ n \in 1..MinOf(rlen, MaxInput - got)
      /\ buf' = [i \in 1..MaxPerRead |-> IF i <= n THEN got + i ELSE buf[i]]
      /\ got' = got + n /\ nread' = n /\ pos' = 0 /\ pc' = "writing"
      /\ UNCHANGED <<sink, budget, total, stop, rlen, sent, lst, size, fifo, out>>
  BY DEF ReadReturn, made, loop
<1>3. /\ MaxInput \in Nat /\ MaxPerRead \in Nat
      /\ budget \in Nat \/ budget = -1
  BY <1>1, SizesAssumption DEF Types
<1>4. /\ got \in 0..MaxInput /\ total \in 0..got /\ rlen \in Int
      /\ got = total /\ n <= rlen /\ got + n <= MaxInput
      /\ budget >= 0 => rlen <= budget - total
  <2>1. /\ got \in 0..MaxInput /\ total \in 0..got /\ rlen \in Int /\ got = total
        /\ budget >= 0 => rlen <= budget - total
    BY <1>1, <1>2 DEF TypeOK, Types, Copying
  <2>2. n <= rlen /\ n <= MaxInput - got
    BY <1>2, <1>3, <2>1 DEF MinOf
  <2>3. QED
    BY <1>3, <2>1, <2>2
<1>5. buf' \in [1..MaxPerRead -> 0..MaxInput]
  <2>1. ASSUME NEW i \in 1..MaxPerRead
        PROVE  (IF i <= n THEN got + i ELSE buf[i]) \in 0..MaxInput
    <3>1. CASE i <= n
      BY <1>3, <1>4, <3>1
    <3>2. CASE ~(i <= n)
      BY <1>1, <3>2 DEF TypeOK
    <3>3. QED
      BY <3>1, <3>2
  <2>2. QED
    BY <1>2, <2>1
<1>6. \A i \in 1..n : buf'[i] = got + i
  <2>1. ASSUME NEW i \in 1..n PROVE i \in 1..MaxPerRead /\ i <= n
    BY <1>3
  <2>2. QED
    BY <1>2, <2>1
<1>7. TypeOK'
  BY <1>1, <1>2, <1>3, <1>4, <1>5 DEF TypeOK
<1>8. Types'
  BY <1>1, <1>2 DEF Types
<1>9. Copying'
  <2>1. budget' >= 0 => got' <= budget'
    BY <1>2, <1>3, <1>4
  <2>2. sink = "socket" => sent = Bytes(got)
    BY <1>1, <1>2 DEF Copying
  <2>3. total' + pos' = got /\ got' = total' + nread' /\ nread' <= MaxPerRead
    BY <1>2, <1>3, <1>4
  <2>4. \A i \in 1..nread' : buf'[i] = total' + i
    BY <1>2, <1>4, <1>6
  <2>5. sink = "loopback" => sent = <<>>
    BY <1>1 DEF Copying
  <2>6. QED
    BY <1>2, <2>1, <2>2, <2>3, <2>4, <2>5 DEF Copying
<1>10. QED
  BY <1>1, <1>2, <1>7, <1>8, <1>9 DEF IInv, LoopbackInOrder

LEMMA ReadEofKeeps ==
  ASSUME IInv, ReadEof
  PROVE  IInv'
<1>1. TypeOK /\ FlattenSeq(lst) = fifo /\ size = Len(fifo) /\ Types /\ Copying
  BY DEF IInv, LoopbackInOrder
<1>2. /\ pc = "reading" /\ pc' = "done"
      /\ UNCHANGED <<sink, budget, got, total, stop, rlen, nread, pos, buf, sent,
                     lst, size, fifo, out>>
  BY DEF ReadEof, made, loop
<1>3. TypeOK' /\ Types'
  BY <1>1, <1>2 DEF TypeOK, Types
<1>4. Copying'
  BY <1>1, <1>2 DEF Copying
<1>5. QED
  BY <1>1, <1>2, <1>3, <1>4 DEF IInv, LoopbackInOrder

LEMMA StopCallKeeps ==
  ASSUME IInv, StopCall
  PROVE  IInv'
<1>1. TypeOK /\ FlattenSeq(lst) = fifo /\ size = Len(fifo) /\ Types /\ Copying
  BY DEF IInv, LoopbackInOrder
<1>2. /\ stop' = TRUE
      /\ UNCHANGED <<sink, budget, pc, got, total, rlen, nread, pos, buf, sent,
                     lst, size, fifo, out>>
  BY DEF StopCall, made, loop
<1>3. TypeOK' /\ Types'
  BY <1>1, <1>2 DEF TypeOK, Types
<1>4. Copying'
  BY <1>1, <1>2 DEF Copying
<1>5. QED
  BY <1>1, <1>2, <1>3, <1>4 DEF IInv, LoopbackInOrder

LEMMA LoopbackFullKeeps ==
  ASSUME IInv, LoopbackFull
  PROVE  IInv'
<1>1. TypeOK /\ FlattenSeq(lst) = fifo /\ size = Len(fifo) /\ Types /\ Copying
  BY DEF IInv, LoopbackInOrder
<1>2. /\ sink = "loopback" /\ pc' = "failed"
      /\ UNCHANGED <<sink, budget, got, total, stop, rlen, nread, pos, buf, sent,
                     lst, size, fifo, out>>
  BY DEF LoopbackFull, made, loop
<1>3. TypeOK' /\ Types'
  BY <1>1, <1>2 DEF TypeOK, Types
<1>4. Copying'
  BY <1>1, <1>2 DEF Copying
<1>5. QED
  BY <1>1, <1>2, <1>3, <1>4 DEF IInv, LoopbackInOrder

(* What a step of write_all that takes w bytes does, to either sink.       *)
LEMMA WritingKeeps ==
  ASSUME TypeOK, Types, Copying, pc = "writing", NEW w \in 1..nread - pos, Wrote(w),
         UNCHANGED <<sink, budget, got, stop, nread, buf>>, size' \in 0..MaxSize,
         lst' \in Seq(Cells), fifo' \in Cells, sent' \in Seq(Nat),
         sink = "socket" => sent' = Bytes(total + pos + w),
         sink = "loopback" => sent' = sent
  PROVE  TypeOK' /\ Types' /\ Copying'
<1>1. /\ total \in Nat /\ nread \in Nat /\ pos \in Nat /\ got \in Nat
      /\ budget \in Budgets /\ got = total + nread
  BY SizesAssumption DEF TypeOK, Types, Copying
<1>2. \/ /\ pos + w < nread /\ pos' = pos + w
         /\ pc' = "writing" /\ total' = total /\ rlen' = rlen
      \/ /\ pos + w = nread /\ pos' = nread /\ total' = got
         /\ rlen' \in Int /\ pc' \in {"reading", "done"}
         /\ rlen' <= MaxPerRead
         /\ budget >= 0 => rlen' <= budget - got
  BY <1>1, WroteKeeps
<1>3. TypeOK'
  BY <1>1, <1>2 DEF TypeOK
<1>4. Types'
  BY <1>1, <1>2 DEF Types
<1>5. Copying'
  <2>1. CASE /\ pos + w < nread /\ pos' = pos + w
             /\ pc' = "writing" /\ total' = total /\ rlen' = rlen
    <3>1. total + pos + w = total + (pos + w)
      BY <1>1
    <3>2. sink' = "socket" => sent' = Bytes(total' + pos')
      BY <2>1, <3>1
    <3>3. /\ got' = total' + nread' /\ nread' <= MaxPerRead
          /\ \A i \in 1..nread' : buf'[i] = total' + i
          /\ budget' >= 0 => got' <= budget'
          /\ sink' = "loopback" => sent' = <<>>
      BY <1>1, <2>1 DEF Copying
    <3>4. QED
      BY <2>1, <3>2, <3>3 DEF Copying
  <2>2. CASE /\ pos + w = nread /\ pos' = nread /\ total' = got
             /\ rlen' \in Int /\ pc' \in {"reading", "done"}
             /\ rlen' <= MaxPerRead
             /\ budget >= 0 => rlen' <= budget - got
    <3>1. total + pos + w = got
      BY <1>1, <2>2
    <3>2. sink' = "socket" => sent' = Bytes(got')
      BY <3>1
    <3>3. /\ budget' >= 0 => got' <= budget'
          /\ sink' = "loopback" => sent' = <<>>
      BY DEF Copying
    <3>4. QED
      BY <2>2, <3>2, <3>3 DEF Copying
  <2>3. QED
    BY <1>2, <2>1, <2>2
<1>6. QED
  BY <1>3, <1>4, <1>5

LEMMA SocketWriteKeeps ==
  ASSUME IInv, NEW w \in 1..MaxPerRead, SocketWrite(w)
  PROVE  IInv'
<1>1. TypeOK /\ FlattenSeq(lst) = fifo /\ size = Len(fifo) /\ Types /\ Copying
  BY DEF IInv, LoopbackInOrder
<1>2. /\ pc = "writing" /\ sink = "socket" /\ w \in 1..nread - pos
      /\ sent' = sent \o [i \in 1..w |-> buf[pos + i]] /\ Wrote(w)
      /\ UNCHANGED <<sink, budget, got, stop, nread, buf, lst, size, fifo, out>>
  BY DEF SocketWrite, made, loop
<1>3. /\ total \in Nat /\ nread \in Nat /\ pos \in Nat /\ nread <= MaxPerRead
      /\ MaxPerRead \in Nat /\ buf \in [1..MaxPerRead -> 0..MaxInput]
      /\ MaxInput \in Nat
      /\ \A i \in 1..nread : buf[i] = total + i
      /\ sent = Bytes(total + pos)
  BY <1>1, <1>2, SizesAssumption DEF TypeOK, Types, Copying
<1>4. PICK f \in Seq(Nat) : /\ f = [i \in 1..w |-> buf[pos + i]] /\ Len(f) = w
                            /\ \A i \in 1..w : f[i] = total + pos + i
  <2> DEFINE g == [i \in 1..w |-> buf[pos + i]]
  <2>1. ASSUME NEW i \in 1..w
        PROVE  buf[pos + i] = total + pos + i /\ total + pos + i \in Nat
    <3>1. PICK j \in 1..nread : j = pos + i
      BY <1>2, <1>3
    <3>2. buf[j] = total + j
      BY <1>3
    <3>3. QED
      BY <1>3, <3>1, <3>2
  <2>2. w \in Nat
    BY <1>3
  <2>3. g \in Seq(Nat) /\ Len(g) = w /\ \A i \in 1..w : g[i] = total + pos + i
    BY <2>1, <2>2
  <2>4. QED
    BY <2>3
<1>5. PICK m \in Nat : m = total + pos
  BY <1>3
<1>6. Bytes(m) \o f = Bytes(m + w) /\ Bytes(m + w) \in Seq(Nat)
  <2>1. w \in Nat /\ m + w \in Nat
    BY <1>3
  <2>2. QED
    BY <1>4, <1>5, <2>1, BytesGrow, BytesAre
<1>7. sent' = Bytes(total + pos + w) /\ sent' \in Seq(Nat)
  BY <1>2, <1>3, <1>4, <1>5, <1>6, Zenon
<1>8. lst' \in Seq(Cells) /\ fifo' \in Cells /\ size' \in 0..MaxSize
  BY <1>1, <1>2 DEF TypeOK, Types
<1>9. TypeOK' /\ Types' /\ Copying'
  BY <1>1, <1>2, <1>7, <1>8, WritingKeeps
<1>10. QED
  BY <1>1, <1>2, <1>9 DEF IInv, LoopbackInOrder

LEMMA LoopbackWriteKeeps ==
  ASSUME IInv, LoopbackWrite
  PROVE  IInv'
<1>1. TypeOK /\ FlattenSeq(lst) = fifo /\ size = Len(fifo) /\ Types /\ Copying
  BY DEF IInv, LoopbackInOrder
<1> DEFINE blen == MinOf(nread - pos, MaxSize - size)
           slice == [i \in 1..blen |-> pos + i]
<1>2. /\ pc = "writing" /\ sink = "loopback" /\ size < MaxSize
      /\ lst' = Append(lst, slice) /\ size' = size + blen
      /\ fifo' = fifo \o slice /\ Wrote(blen)
      /\ UNCHANGED <<sink, budget, got, stop, nread, buf, sent, out>>
  BY DEF LoopbackWrite, made
<1>3. /\ nread \in Nat /\ pos \in Nat /\ pos < nread /\ MaxSize \in Nat
      /\ size \in 0..MaxSize
  BY <1>1, <1>2, SizesAssumption DEF TypeOK, Types
<1>4. blen \in 1..nread - pos /\ size + blen \in 0..MaxSize /\ blen \in Nat
  BY <1>2, <1>3 DEF MinOf
<1> HIDE DEF blen
<1>5. slice \in Seq(Nat) /\ Len(slice) = blen
  <2>1. \A i \in 1..blen : pos + i \in Nat
    BY <1>3
  <2>2. QED
    BY <1>4, <2>1
<1> HIDE DEF slice
<1>6. /\ lst' \in Seq(Cells) /\ FlattenSeq(lst') = fifo'
      /\ fifo' \in Cells /\ Len(fifo') = size'
  <2>1. PICK s \in Seq(Cells) : s = lst
    BY <1>1 DEF Types
  <2>2. PICK x \in Cells : x = slice
    BY <1>5 DEF Cells
  <2>3. PICK y \in Cells : y = fifo
    BY <1>1 DEF Types
  <2>4. FlattenSeq(Append(s, x)) = FlattenSeq(s) \o x /\ Append(s, x) \in Seq(Cells)
    BY FlattenGrows
  <2>5. y \o x \in Cells /\ Len(y \o x) = Len(y) + Len(x)
    BY ConcatProperties DEF Cells
  <2>6. lst' = Append(s, x) /\ fifo' = y \o x /\ FlattenSeq(s) = y
    BY <1>1, <1>2, <2>1, <2>2, <2>3, Zenon
  <2>7. Len(y) = size /\ Len(x) = blen
    BY <1>1, <1>5, <2>2, <2>3, Zenon
  <2>8. QED
    BY <1>2, <2>4, <2>5, <2>6, <2>7, Zenon
<1>7. /\ sent' = sent /\ sent' \in Seq(Nat) /\ size' \in 0..MaxSize
      /\ sink # "socket"
  BY <1>1, <1>2, <1>4 DEF Types
<1>8. TypeOK' /\ Types' /\ Copying'
  BY <1>1, <1>2, <1>4, <1>6, <1>7, WritingKeeps
<1>9. QED
  BY <1>6, <1>8 DEF IInv, LoopbackInOrder

LEMMA LoopbackReadKeeps ==
  ASSUME IInv, NEW max_bytes \in 1..MaxSize, LoopbackRead(max_bytes)
  PROVE  IInv'
<1>1. TypeOK /\ FlattenSeq(lst) = fifo /\ size = Len(fifo) /\ Types /\ Copying
  BY DEF IInv, LoopbackInOrder
<1>2. PICK n : n = MinOf(max_bytes, size)
  OBVIOUS
<1>3. PICK i : i = LastSlice(n)
  OBVIOUS
<1>4. PICK k : k = n - Before(i)
  OBVIOUS
<1>5. /\ size > 0 /\ size' = size - n /\ fifo' = Rest(fifo, n)
      /\ lst' = IF k = Len(lst[i]) THEN Rest(lst, i)
                ELSE <<Rest(lst[i], k)>> \o Rest(lst, i)
      /\ UNCHANGED <<sink, budget, pc, got, total, stop, rlen, nread, pos, buf, sent>>
  BY <1>2, <1>3, <1>4 DEF LoopbackRead, made
<1>6. MaxSize \in Nat /\ size \in 0..MaxSize
  BY <1>1, SizesAssumption DEF TypeOK
<1>7. n \in Nat \ {0} /\ n <= size
  BY <1>2, <1>5, <1>6 DEF MinOf
<1>8. /\ lst' \in Seq(Cells) /\ FlattenSeq(lst') = fifo'
      /\ fifo' \in Cells /\ Len(fifo') = size'
  <2>1. PICK left : left = lst'
    OBVIOUS
  <2>2. lst \in Seq(Cells) /\ fifo \in Cells /\ n <= Len(fifo)
    BY <1>1, <1>7 DEF Types
  <2>3. left = IF k = Len(lst[i]) THEN Rest(lst, i)
               ELSE <<Rest(lst[i], k)>> \o Rest(lst, i)
    BY <1>5, <2>1, Zenon
  <2>4. /\ left \in Seq(Cells) /\ FlattenSeq(left) = Rest(fifo, n)
        /\ Rest(fifo, n) \in Cells /\ Len(Rest(fifo, n)) = Len(fifo) - n
    BY <1>1, <1>3, <1>4, <1>7, <2>2, <2>3, ReadLeaves, Zenon
  <2>5. QED
    BY <1>1, <1>5, <2>1, <2>4, Zenon
<1>9. TypeOK'
  <2>1. size' \in 0..MaxSize
    BY <1>5, <1>6, <1>7
  <2>2. QED
    BY <1>1, <1>5, <2>1 DEF TypeOK
<1>10. Types'
  BY <1>1, <1>5, <1>8 DEF Types
<1>11. Copying'
  BY <1>1, <1>5 DEF Copying
<1>12. QED
  BY <1>8, <1>9, <1>10, <1>11 DEF IInv, LoopbackInOrder
-----------------------------------------------------------------------------
(* IInv is an inductive invariant of the bridge and its sinks: how far the *)
(* copy is follows from pos, nread and _total_read alone.                  *)
THEOREM CommBridgeInvariance == Spec => []IInv
<1>1. Init => IInv
  BY InitKeeps
<1>2. IInv /\ [Next]_vars => IInv'
  <2>1. SUFFICES ASSUME IInv, [Next]_vars
                 PROVE  IInv'
    OBVIOUS
  <2>2. CASE RunCall
    BY <2>1, <2>2, RunCallKeeps
  <2>3. CASE ReadEof
    BY <2>1, <2>3, ReadEofKeeps
  <2>4. CASE LoopbackWrite
    BY <2>1, <2>4, LoopbackWriteKeeps
  <2>5. CASE LoopbackFull
    BY <2>1, <2>5, LoopbackFullKeeps
  <2>6. ASSUME NEW n \in 1..MaxPerRead, ReadReturn(n) PROVE IInv'
    BY <2>1, <2>6, ReadReturnKeeps
  <2>7. ASSUME NEW n \in 1..MaxPerRead, SocketWrite(n) PROVE IInv'
    BY <2>1, <2>7, SocketWriteKeeps
  <2>8. CASE StopCall
    BY <2>1, <2>8, StopCallKeeps
  <2>9. ASSUME NEW n \in 1..MaxSize, LoopbackRead(n) PROVE IInv'
    BY <2>1, <2>9, LoopbackReadKeeps
  <2>10. CASE UNCHANGED vars
    <3>1. UNCHANGED <<sink, budget, pc, got, total, stop, rlen, nread, pos, buf,
                      sent, lst, size, fifo, out>>
      BY <2>10 DEF vars
    <3>2. TypeOK' /\ Types' /\ Copying' /\ FlattenSeq(lst') = fifo' /\ size' = Len(fifo')
      BY <2>1, <3>1 DEF IInv, LoopbackInOrder, TypeOK, Types, Copying
    <3>3. QED
      BY <3>2 DEF IInv, LoopbackInOrder
  <2>11. QED
    BY <2>1, <2>2, <2>3, <2>4, <2>5, <2>6, <2>7, <2>8, <2>9, <2>10 DEF Next, Run
<1>3. QED
  BY <1>1, <1>2, PTL DEF Spec

(* What a socket has accepted is the stream up to where the bridge is,     *)
(* without gap or repetition; nothing that was read is missing when run()  *)
(* returns, and no more than max_bytes were read, however long the stream  *)
(* and however short the writes.                                           *)
THEOREM StreamIsConveyed == Spec => []Conveyed
<1>1. IInv => Conveyed
  <2>1. SUFFICES ASSUME IInv PROVE Conveyed
    OBVIOUS
  <2>2. TypeOK /\ Types /\ Copying
    BY <2>1 DEF IInv, LoopbackInOrder
  <2>3. budget >= 0 => got <= budget
    BY <2>2 DEF Copying
  <2>4. ASSUME sink = "socket"
        PROVE  sent = Bytes(Len(sent)) /\ (pc = "done" => Len(sent) = got)
    <3>1. got \in Nat /\ total + pos \in Nat
      BY <2>2, SizesAssumption DEF TypeOK, Types
    <3>2. PICK m \in Nat : m = IF pc = "writing" THEN total + pos ELSE got
      BY <3>1
    <3>3. sent = Bytes(m)
      BY <2>2, <2>4, <3>2 DEF Copying
    <3>4. Len(sent) = m
      BY <3>3, BytesAre
    <3>5. QED
      BY <3>2, <3>3, <3>4
  <2>5. QED
    BY <2>3, <2>4 DEF Conveyed
<1>2. QED
  BY <1>1, CommBridgeInvariance, PTL

(* A LoopbackAdaptor hands out what was written to it in order, whatever   *)
(* is written and read at a time, and holds no more than maxsize.          *)
THEOREM LoopbackStaysInOrder == Spec => []LoopbackInOrder
<1>1. IInv => LoopbackInOrder
  BY DEF IInv
<1>2. QED
  BY <1>1, CommBridgeInvariance, PTL
=============================================================================
