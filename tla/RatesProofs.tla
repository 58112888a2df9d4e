---------------------------- MODULE RatesProofs ----------------------------
(***************************************************************************)
(* WithinRate and ReadKeepsBytes of module SpeedLimit and PermitsSpaced of *)
(* module QpsPool hold for any number of tasks and threads, any speeds and *)
(* intervals, and any bounds.  First what SumOver computes, then the two   *)
(* components one after the other, and at the end MCRates, in whose        *)
(* behaviours either of them may be at work.                               *)
(*                                                                         *)
(* The sum is a fold of the community modules, a recursive function over   *)
(* the subsets of the set; the proofs are by a smallest counterexample     *)
(* among the subsets, which needs no induction theorem with an operator    *)
(* for a parameter.                                                        *)
(***************************************************************************)
EXTENDS MCRates, FiniteSetTheorems, WellFoundedInduction, TLAPS

(* A set of subsets of a finite set has a member that contains no other.   *)
LEMMA SmallestSubset ==
  ASSUME NEW S, IsFiniteSet(S), NEW T \in SUBSET SUBSET S, T # {}
  PROVE  \E A \in T : \A B \in T : B \subseteq A => B = A
<1>1. IsWellFoundedOn(StrictSubsetOrdering(S), SUBSET S)
  BY FS_StrictSubsetOrderingWellFounded, FS_FiniteSubsetsOfFinite
<1>2. PICK A \in T : \A B \in T : <<B, A>> \notin StrictSubsetOrdering(S)
  BY <1>1, WFMin
<1>3. ASSUME NEW B \in T, B \subseteq A, B # A
      PROVE  FALSE
  BY <1>2, <1>3 DEF StrictSubsetOrdering
<1>4. QED
  BY <1>3

(* The function that the fold is the value of.                             *)
Pick(s) == CHOOSE x \in s : TRUE
Adds(it, g, S) == it = [s \in SUBSET S |-> IF s = {} THEN 0
                                           ELSE g[Pick(s)] + it[s \ {Pick(s)}]]

LEMMA PickIn ==
  ASSUME NEW s, s # {}
  PROVE  Pick(s) \in s
BY DEF Pick

LEMMA SumIsAdds ==
  ASSUME NEW g, NEW S
  PROVE  SumOver(g, S) = (CHOOSE it : Adds(it, g, S))[S]
BY DEF SumOver, MapThenSumSet, MapThenFoldSet, Adds, Pick

(* Two such functions agree where both are defined.                        *)
LEMMA AddsAgree ==
  ASSUME NEW g, NEW S, IsFiniteSet(S), NEW R \in SUBSET S,
         NEW it, Adds(it, g, S), NEW jt, Adds(jt, g, R)
  PROVE  \A s \in SUBSET R : it[s] = jt[s]
<1> DEFINE Bad == {s \in SUBSET R : it[s] # jt[s]}
<1>1. SUFFICES ASSUME Bad # {} PROVE FALSE
  OBVIOUS
<1>2. IsFiniteSet(R)
  BY FS_Subset
<1>3. PICK s \in Bad : \A B \in Bad : B \subseteq s => B = s
  <2>1. Bad \in SUBSET SUBSET R
    OBVIOUS
  <2> HIDE DEF Bad
  <2>2. QED
    BY <1>1, <1>2, <2>1, SmallestSubset
<1>4. /\ it[s] = IF s = {} THEN 0 ELSE g[Pick(s)] + it[s \ {Pick(s)}]
      /\ jt[s] = IF s = {} THEN 0 ELSE g[Pick(s)] + jt[s \ {Pick(s)}]
  BY DEF Adds
<1>5. s # {}
  BY <1>4
<1>6. s \ {Pick(s)} \in SUBSET R /\ s \ {Pick(s)} # s
  BY <1>5, PickIn
<1>7. it[s \ {Pick(s)}] = jt[s \ {Pick(s)}]
  BY <1>3, <1>6
<1>8. QED
  BY <1>4, <1>7

(* So the fold is the value of any of them.                                *)
LEMMA SumIs ==
  ASSUME NEW g, NEW S, IsFiniteSet(S), NEW R \in SUBSET S, NEW it, Adds(it, g, S)
  PROVE  SumOver(g, R) = it[R]
<1> DEFINE jt == CHOOSE f : Adds(f, g, R)
           rt == [s \in SUBSET R |-> it[s]]
<1>1. \A s \in SUBSET R : s \ {Pick(s)} \in SUBSET R
  OBVIOUS
<1>2. \A s \in SUBSET R : it[s] = IF s = {} THEN 0 ELSE g[Pick(s)] + it[s \ {Pick(s)}]
  BY DEF Adds
<1>3. rt = [s \in SUBSET R |-> IF s = {} THEN 0 ELSE g[Pick(s)] + rt[s \ {Pick(s)}]]
  BY <1>1, <1>2
<1>4. Adds(rt, g, R)
  BY <1>3 DEF Adds
<1>5. Adds(jt, g, R)
  <2> HIDE DEF rt
  <2>1. QED
    BY <1>4, Zenon
<1> HIDE DEF jt
<1>6. it[R] = jt[R]
  BY <1>5, AddsAgree
<1>7. SumOver(g, R) = jt[R]
  BY SumIsAdds DEF jt
<1>8. QED
  BY <1>6, <1>7

LEMMA AddsExists ==
  ASSUME NEW g, NEW S, IsFiniteSet(S)
  PROVE  \E it : Adds(it, g, S)
<1> DEFINE Bad == {A \in SUBSET S : ~ \E it : Adds(it, g, A)}
<1>1. SUFFICES ASSUME Bad # {} PROVE FALSE
  OBVIOUS
<1>2. PICK A \in Bad : \A B \in Bad : B \subseteq A => B = A
  <2>1. Bad \in SUBSET SUBSET S
    OBVIOUS
  <2> HIDE DEF Bad
  <2>2. QED
    BY <1>1, <2>1, SmallestSubset
<1> DEFINE it == [s \in SUBSET A |-> IF s = {} THEN 0
                                    ELSE g[Pick(s)] + SumOver(g, s \ {Pick(s)})]
<1>3. ASSUME NEW B \in SUBSET A, B # A
      PROVE  SumOver(g, B) = it[B]
  <2>1. IsFiniteSet(B)
    BY FS_Subset
  <2>2. PICK f : Adds(f, g, B)
    BY <1>2, <1>3
  <2>3. f[B] = IF B = {} THEN 0 ELSE g[Pick(B)] + f[B \ {Pick(B)}]
    BY <2>2 DEF Adds
  <2>4. SumOver(g, B) = f[B] /\ SumOver(g, B \ {Pick(B)}) = f[B \ {Pick(B)}]
    BY <2>1, <2>2, SumIs
  <2>5. QED
    BY <2>3, <2>4
<1>4. ASSUME NEW s \in SUBSET A, s # {}
      PROVE  SumOver(g, s \ {Pick(s)}) = it[s \ {Pick(s)}]
  <2>1. s \ {Pick(s)} \in SUBSET A /\ s \ {Pick(s)} # A
    BY <1>4, PickIn
  <2> HIDE DEF it
  <2>2. QED
    BY <1>3, <2>1
<1>5. it = [s \in SUBSET A |-> IF s = {} THEN 0 ELSE g[Pick(s)] + it[s \ {Pick(s)}]]
  <2>1. \A s \in SUBSET A :
          (IF s = {} THEN 0 ELSE g[Pick(s)] + SumOver(g, s \ {Pick(s)}))
          = (IF s = {} THEN 0 ELSE g[Pick(s)] + it[s \ {Pick(s)}])
    <3> HIDE DEF it
    <3>1. QED
      BY <1>4
  <2> DEFINE jt == it
  <2>2. it = [s \in SUBSET A |-> IF s = {} THEN 0 ELSE g[Pick(s)] + jt[s \ {Pick(s)}]]
    <3> HIDE DEF jt
    <3>1. QED
      BY <2>1 DEF jt
  <2>3. QED
    BY <2>2
<1>6. Adds(it, g, A)
  <2> HIDE DEF it
  <2>1. QED
    BY <1>5 DEF Adds
<1>7. QED
  <2> HIDE DEF it
  <2>1. QED
    BY <1>2, <1>6
-----------------------------------------------------------------------------
(* The sum over the empty set is 0, and the sum over another set that of   *)
(* one element, the chosen one, and the rest.                              *)
LEMMA SumEmpty ==
  ASSUME NEW g
  PROVE  SumOver(g, {}) = 0
<1>1. IsFiniteSet({})
  BY FS_EmptySet
<1>2. PICK it : Adds(it, g, {})
  BY <1>1, AddsExists
<1>3. SumOver(g, {}) = it[{}] /\ it[{}] = 0
  <2>1. {} \in SUBSET {}
    OBVIOUS
  <2>2. SumOver(g, {}) = it[{}]
    BY <1>1, <1>2, <2>1, SumIs
  <2>3. it[{}] = 0
    BY <1>2, <2>1 DEF Adds
  <2>4. QED
    BY <2>2, <2>3
<1>4. QED
  BY <1>3

LEMMA SumPick ==
  ASSUME NEW g, NEW S, IsFiniteSet(S), S # {}
  PROVE  SumOver(g, S) = g[Pick(S)] + SumOver(g, S \ {Pick(S)})
<1>1. PICK it : Adds(it, g, S)
  BY AddsExists
<1>2. it[S] = g[Pick(S)] + it[S \ {Pick(S)}]
  BY <1>1 DEF Adds
<1>3. SumOver(g, S) = it[S] /\ SumOver(g, S \ {Pick(S)}) = it[S \ {Pick(S)}]
  BY <1>1, SumIs
<1>4. QED
  BY <1>2, <1>3

(* A sum of natural numbers is one.                                        *)
LEMMA SumNat ==
  ASSUME NEW g, NEW S, IsFiniteSet(S), \A x \in S : g[x] \in Nat
  PROVE  SumOver(g, S) \in Nat
<1> DEFINE Bad == {A \in SUBSET S : SumOver(g, A) \notin Nat}
<1>1. SUFFICES ASSUME Bad # {} PROVE FALSE
  OBVIOUS
<1>2. PICK A \in Bad : \A B \in Bad : B \subseteq A => B = A
  <2>1. Bad \in SUBSET SUBSET S
    OBVIOUS
  <2> HIDE DEF Bad
  <2>2. QED
    BY <1>1, <2>1, SmallestSubset
<1>3. A # {} /\ IsFiniteSet(A)
  <2>1. SumOver(g, {}) = 0
    BY SumEmpty
  <2>2. A # {}
    BY <2>1
  <2>3. QED
    BY <2>2, FS_Subset
<1>4. Pick(A) \in A
  BY <1>3, PickIn
<1>5. SumOver(g, A \ {Pick(A)}) \in Nat
  <2>1. A \ {Pick(A)} \in SUBSET S /\ A \ {Pick(A)} \subseteq A /\ A \ {Pick(A)} # A
    BY <1>4
  <2>2. QED
    BY <1>2, <2>1
<1>6. SumOver(g, A) = g[Pick(A)] + SumOver(g, A \ {Pick(A)})
  BY <1>3, SumPick
<1>7. QED
  BY <1>4, <1>5, <1>6

(* Any element may be taken out first.                                     *)
LEMMA SumTake ==
  ASSUME NEW g, NEW S, IsFiniteSet(S), \A y \in S : g[y] \in Nat, NEW x \in S
  PROVE  SumOver(g, S) = g[x] + SumOver(g, S \ {x})
<1> DEFINE Bad == {A \in SUBSET S :
                    \E y \in A : SumOver(g, A) # g[y] + SumOver(g, A \ {y})}
<1>1. SUFFICES ASSUME Bad # {} PROVE FALSE
  BY DEF Bad
<1>2. PICK A \in Bad : \A B \in Bad : B \subseteq A => B = A
  <2>1. Bad \in SUBSET SUBSET S
    OBVIOUS
  <2> HIDE DEF Bad
  <2>2. QED
    BY <1>1, <2>1, SmallestSubset
<1>3. A \in SUBSET S /\ IsFiniteSet(A)
  BY FS_Subset
<1>4. PICK y \in A : SumOver(g, A) # g[y] + SumOver(g, A \ {y})
  BY <1>2
<1> DEFINE p == Pick(A)
<1>5. p \in A
  BY <1>4, PickIn
<1>6. SumOver(g, A) = g[p] + SumOver(g, A \ {p})
  BY <1>3, <1>4, SumPick
<1> HIDE DEF p
<1>7. p # y
  BY <1>4, <1>6
<1>8. SumOver(g, A \ {p}) = g[y] + SumOver(g, (A \ {p}) \ {y})
  <2>1. A \ {p} \in SUBSET S /\ A \ {p} \subseteq A /\ A \ {p} # A /\ y \in A \ {p}
    BY <1>3, <1>5, <1>7
  <2>2. QED
    BY <1>2, <2>1
<1>9. SumOver(g, A \ {y}) = g[p] + SumOver(g, (A \ {y}) \ {p})
  <2>1. A \ {y} \in SUBSET S /\ A \ {y} \subseteq A /\ A \ {y} # A /\ p \in A \ {y}
    BY <1>3, <1>5, <1>7
  <2>2. QED
    BY <1>2, <2>1
<1>10. (A \ {p}) \ {y} = (A \ {y}) \ {p}
  OBVIOUS
<1>11. /\ SumOver(g, (A \ {y}) \ {p}) \in Nat
       /\ g[p] \in Nat /\ g[y] \in Nat
  <2>1. IsFiniteSet((A \ {y}) \ {p}) /\ \A z \in (A \ {y}) \ {p} : g[z] \in Nat
    BY <1>3, FS_Subset
  <2>2. QED
    BY <1>3, <1>5, <2>1, SumNat
<1>12. PICK n \in Nat : n = SumOver(g, (A \ {y}) \ {p})
  BY <1>11
<1>13. SumOver(g, A) = g[p] + (g[y] + n) /\ SumOver(g, A \ {y}) = g[p] + n
  BY <1>6, <1>8, <1>9, <1>10, <1>12
<1>14. g[p] + (g[y] + n) = g[y] + (g[p] + n)
  BY <1>11
<1>15. QED
  BY <1>4, <1>13, <1>14

(* The sum depends on the function where it is summed only.                *)
LEMMA SumSame ==
  ASSUME NEW g, NEW h, NEW S, IsFiniteSet(S), \A x \in S : g[x] = h[x]
  PROVE  SumOver(g, S) = SumOver(h, S)
<1> DEFINE Bad == {A \in SUBSET S : SumOver(g, A) # SumOver(h, A)}
<1>1. SUFFICES ASSUME Bad # {} PROVE FALSE
  OBVIOUS
<1>2. PICK A \in Bad : \A B \in Bad : B \subseteq A => B = A
  <2>1. Bad \in SUBSET SUBSET S
    OBVIOUS
  <2> HIDE DEF Bad
  <2>2. QED
    BY <1>1, <2>1, SmallestSubset
<1>3. A # {} /\ IsFiniteSet(A)
  BY SumEmpty, FS_Subset
<1>4. Pick(A) \in A
  BY <1>3, PickIn
<1>5. SumOver(g, A \ {Pick(A)}) = SumOver(h, A \ {Pick(A)})
  <2>1. A \ {Pick(A)} \in SUBSET S /\ A \ {Pick(A)} \subseteq A /\ A \ {Pick(A)} # A
    BY <1>4
  <2>2. QED
    BY <1>2, <2>1
<1>6. /\ SumOver(g, A) = g[Pick(A)] + SumOver(g, A \ {Pick(A)})
      /\ SumOver(h, A) = h[Pick(A)] + SumOver(h, A \ {Pick(A)})
  BY <1>3, SumPick
<1>7. QED
  BY <1>4, <1>5, <1>6

(* When one value changes, the sum changes by as much.                     *)
LEMMA SumChange ==
  ASSUME NEW S, IsFiniteSet(S), NEW g, NEW h, NEW x \in S,
         \A y \in S : g[y] \in Nat, h[x] \in Nat,
         \A y \in S : y # x => h[y] = g[y]
  PROVE  SumOver(h, S) = SumOver(g, S) - g[x] + h[x]
<1>1. IsFiniteSet(S \ {x})
  BY FS_Subset
<1>2. SumOver(g, S) = g[x] + SumOver(g, S \ {x})
  BY SumTake
<1>3. SumOver(h, S) = h[x] + SumOver(h, S \ {x})
  BY SumTake
<1>4. SumOver(h, S \ {x}) = SumOver(g, S \ {x})
  BY <1>1, SumSame
<1>5. SumOver(g, S \ {x}) \in Nat
  BY <1>1, SumNat
<1>6. QED
  BY <1>2, <1>3, <1>4, <1>5

(* A sum of zeros is 0.                                                    *)
LEMMA SumZero ==
  ASSUME NEW g, NEW S, IsFiniteSet(S), \A x \in S : g[x] = 0
  PROVE  SumOver(g, S) = 0
<1> DEFINE Bad == {A \in SUBSET S : SumOver(g, A) # 0}
<1>1. SUFFICES ASSUME Bad # {} PROVE FALSE
  OBVIOUS
<1>2. PICK A \in Bad : \A B \in Bad : B \subseteq A => B = A
  <2>1. Bad \in SUBSET SUBSET S
    OBVIOUS
  <2> HIDE DEF Bad
  <2>2. QED
    BY <1>1, <2>1, SmallestSubset
<1>3. A # {} /\ IsFiniteSet(A)
  BY SumEmpty, FS_Subset
<1>4. Pick(A) \in A
  BY <1>3, PickIn
<1>5. SumOver(g, A \ {Pick(A)}) = 0
  <2>1. A \ {Pick(A)} \in SUBSET S /\ A \ {Pick(A)} \subseteq A /\ A \ {Pick(A)} # A
    BY <1>4
  <2>2. QED
    BY <1>2, <2>1
<1>6. SumOver(g, A) = g[Pick(A)] + SumOver(g, A \ {Pick(A)})
  BY <1>3, SumPick
<1>7. QED
  BY <1>4, <1>5, <1>6
-----------------------------------------------------------------------------
LEMMA MaxOfTwo ==
  ASSUME NEW a \in Int, NEW b \in Int
  PROVE  Max({a, b}) = IF a >= b THEN a ELSE b
BY DEF Max

LEMMA MinOfTwo ==
  ASSUME NEW a \in Int, NEW b \in Int
  PROVE  Min({a, b}) = IF a <= b THEN a ELSE b
BY DEF Min

(* A finite set of numbers has a largest one.                              *)
LEMMA MaxIn ==
  ASSUME NEW S, IsFiniteSet(S), \A x \in S : x \in Int, S # {}
  PROVE  Max(S) \in S /\ \A y \in S : y <= Max(S)
<1> DEFINE Bad == {A \in SUBSET S : A # {} /\ ~ \E m \in A : \A y \in A : y <= m}
<1>1. ASSUME Bad # {}
      PROVE  FALSE
  <2>1. PICK A \in Bad : \A B \in Bad : B \subseteq A => B = A
    <3>1. Bad \in SUBSET SUBSET S
      OBVIOUS
    <3> HIDE DEF Bad
    <3>2. QED
      BY <1>1, <3>1, SmallestSubset
  <2>2. PICK x \in A : TRUE
    BY <2>1
  <2>3. A \ {x} # {}
    <3>1. x \in Int
      BY <2>1, <2>2
    <3>2. QED
      BY <2>1, <2>2, <3>1
  <2>4. PICK m \in A \ {x} : \A y \in A \ {x} : y <= m
    <3>1. A \ {x} \notin Bad
      BY <2>1, <2>2
    <3>2. A \ {x} \in SUBSET S
      BY <2>1
    <3>3. QED
      BY <2>3, <3>1, <3>2
  <2>5. x \in Int /\ m \in Int
    BY <2>1, <2>2, <2>4
  <2>6. ~ \E z \in A : \A y \in A : y <= z
    BY <2>1
  <2>7. CASE x <= m
    BY <2>2, <2>4, <2>6, <2>7
  <2>8. CASE m <= x
    <3>1. \A y \in A : y \in Int /\ y <= x
      BY <2>1, <2>4, <2>5, <2>8
    <3>2. QED
      BY <2>2, <2>6, <3>1
  <2>9. QED
    BY <2>5, <2>7, <2>8
<1>2. PICK m \in S : \A y \in S : m >= y
  BY <1>1
<1>3. QED
  BY <1>2 DEF Max
-----------------------------------------------------------------------------
(* SpeedLimit.  The bound on the rate follows from where `next` can be: a  *)
(* task that may go on adds at most one piece to it, and the others were   *)
(* told to wait for the `next` they found.                                 *)
(*                                                                         *)
(* A task in a call may pass one piece when its sleep is over; those that  *)
(* may within x ticks.                                                     *)
InCall(t) == pc[t] \in {"delay", "below"}
MayPass == {t \in Active : InCall(t)}
Ready(x) == {t \in Active : InCall(t) /\ wait[t] <= x}

(* The bytes of one piece for each task of S.                              *)
Bytes(h, S) == h * Cardinality(S)

Woken == \A t \in Tasks : pc[t] = "below" => wait[t] = 0
Quiet == \A t \in Tasks : ~InCall(t) => pos[t] = 0

(* `next` is never further than x ticks and a piece for every task, less   *)
(* one piece for each task that may go on by then.                         *)
Sharing == \A x \in Nat : next + Bytes(hint, Ready(x)) <= Bytes(hint, Active) + x

(* The bytes are ahead of the speed by no more than `next` and a piece for *)
(* every task.  While `next` is over, that may hold as well because all    *)
(* that was ahead is used up and each task has one piece at most.          *)
Behind == \/ level <= next + Bytes(hint, Active)
          \/ next < 0 /\ level + Bytes(hint, MayPass) <= Bytes(hint, Active)

(* The same two, after a piece that makes `next` nx and `level` lv, while  *)
(* the task that passed it is not yet in another turn.                     *)
Between(t, nx, lv) ==
  /\ \A x \in Nat : nx + Bytes(hint, Ready(x) \ {t}) <= Bytes(hint, Active) + x
  /\ \/ lv <= nx + Bytes(hint, Active)
     \/ nx < 0 /\ lv + Bytes(hint, MayPass \ {t}) <= Bytes(hint, Active)

(* The variables of the calls have their types.                            *)
CallTypes == /\ pc \in [Tasks -> {"idle", "delay", "below", "raised"}]
             /\ wait \in [Tasks -> Nat] /\ next \in Int
             /\ len \in [Tasks -> 0..MaxLen] /\ pos \in [Tasks -> 0..MaxLen]
             /\ iter \in [Tasks -> 0..MaxIter]

IInv == TypeOK /\ Woken /\ Quiet /\ Sharing /\ Behind /\ ReadKeepsBytes
-----------------------------------------------------------------------------
(* The fraction of a hint is 0, any other a natural number.                *)
LEMMA HintIsNat ==
  ASSUME NEW bps
  PROVE  GetHint(bps) \in Nat
<1> DEFINE small == {i \in 0..25 : 8 * 2 ^ i <= bps}
           powers == {2 ^ j : j \in small}
           S == {1} \cup powers
<1>1. IsFiniteSet(small)
  <2>1. small \in SUBSET Nat /\ 25 \in Nat /\ \A i \in small : i <= 25
    OBVIOUS
  <2> HIDE DEF small
  <2>2. QED
    BY <2>1, FS_BoundedSetOfNaturals
<1>2. IsFiniteSet(powers)
  <2> DEFINE f == [j \in small |-> 2 ^ j]
  <2>1. f \in Surjection(small, powers)
    BY DEF Surjection
  <2> HIDE DEF f, powers, small
  <2>2. QED
    BY <1>1, <2>1, FS_Surjection
<1>3. IsFiniteSet(S)
  BY <1>2, FS_Singleton, FS_Union
<1>4. \A j \in small : 2 ^ j \in Int
  <2>1. ASSUME NEW j \in Nat
        PROVE  2 ^ j \in Int
    BY SMT
  <2>2. QED
    BY <2>1
<1>5. S \subseteq Int /\ 1 \in S
  BY <1>4
<1> HIDE DEF S
<1>6. Max(S) \in Int /\ 1 <= Max(S)
  BY <1>3, <1>5, MaxIn
<1>7. Min({16 * 1024 * 1204, Max(S)}) \in Nat
  <2>1. 16 * 1024 * 1204 \in Int /\ 16 * 1024 * 1204 >= 0
    OBVIOUS
  <2>2. QED
    BY <1>6, <2>1, MinOfTwo
<1>8. GetHint(bps) = IF bps <= 4 THEN 0 ELSE Min({16 * 1024 * 1204, Max(S)})
  BY DEF GetHint, S
<1>9. QED
  BY <1>7, <1>8

LEMMA ActiveTasks == Active \subseteq Tasks /\ IsFiniteSet(Active) /\ IsFiniteSet(Tasks)
<1>1. Active \subseteq Tasks
  BY SpeedAssumption DEF Active
<1>2. QED
  BY <1>1, SpeedAssumption, FS_Subset

(* Bytes grows by one piece with each task.                                *)
LEMMA BytesSubset ==
  ASSUME NEW h \in Nat, NEW S \in SUBSET Tasks, NEW R \in SUBSET S
  PROVE  /\ Bytes(h, S) \in Nat /\ Bytes(h, R) \in Nat
         /\ Bytes(h, R) <= Bytes(h, S)
<1>1. IsFiniteSet(S)
  BY SpeedAssumption, FS_Subset
<1>2. /\ Cardinality(S) \in Nat /\ Cardinality(R) \in Nat
      /\ Cardinality(R) <= Cardinality(S)
  BY <1>1, FS_Subset, FS_CardinalityType
<1>3. PICK d \in Nat : Cardinality(S) = Cardinality(R) + d
  <2>1. Cardinality(S) - Cardinality(R) \in Nat
    BY <1>2
  <2>2. QED
    BY <1>2, <2>1
<1>4. h * (Cardinality(R) + d) = h * Cardinality(R) + h * d
  BY <1>2
<1>5. h * Cardinality(R) \in Nat /\ h * d \in Nat
  BY <1>2
<1>6. QED
  BY <1>3, <1>4, <1>5 DEF Bytes

LEMMA BytesWithout ==
  ASSUME NEW h \in Nat, NEW S \in SUBSET Tasks, NEW t \in S
  PROVE  Bytes(h, S \ {t}) = Bytes(h, S) - h
<1>1. IsFiniteSet(S)
  BY SpeedAssumption, FS_Subset
<1>2. Cardinality(S \ {t}) = Cardinality(S) - 1 /\ Cardinality(S) \in Nat
  BY <1>1, FS_RemoveElement, FS_CardinalityType
<1>3. QED
  BY <1>2 DEF Bytes
-----------------------------------------------------------------------------
LEMMA Pieces ==
  ASSUME hint \in Nat
  PROVE  /\ Bytes(hint, Active) \in Nat
         /\ \A S \in SUBSET Active : /\ Bytes(hint, S) \in Nat
                                     /\ Bytes(hint, S) <= Bytes(hint, Active)
         /\ \A x : Ready(x) \subseteq Active
         /\ MayPass \subseteq Active
<1>1. Active \in SUBSET Tasks
  BY ActiveTasks
<1>2. QED
  BY <1>1, BytesSubset DEF Ready, MayPass

(* A task that is done leaves the others as they are.                      *)
LEMMA LeaveKeeps ==
  ASSUME TypeOK, Woken, Quiet,
         NEW t \in Active, NEW to \in {"idle", "raised"}, Leave(t, to),
         UNCHANGED chosen, NEW nx \in Int, next' = nx, level' \in Nat,
         Between(t, nx, level')
  PROVE  CallTypes' /\ Woken' /\ Quiet' /\ Sharing' /\ Behind'
<1>1. t \in Tasks
  BY ActiveTasks
<1>2. /\ \A s \in Tasks : /\ pc'[s] = IF s = t THEN to ELSE pc[s]
                          /\ wait'[s] = IF s = t THEN 0 ELSE wait[s]
                          /\ pos'[s] = IF s = t THEN 0 ELSE pos[s]
      /\ hint' = hint /\ hint \in Nat /\ Active' = Active /\ Active \subseteq Tasks
  BY <1>1, ActiveTasks DEF Leave, TypeOK, chosen, Active
<1>3. CallTypes'
  <2>1. /\ 0 \in 0..MaxLen /\ 0 \in 0..MaxIter
    BY SpeedAssumption
  <2>2. pc' \in [Tasks -> {"idle", "delay", "below", "raised"}]
    BY DEF Leave, TypeOK
  <2>3. wait' \in [Tasks -> Nat]
    BY DEF Leave, TypeOK
  <2>4. /\ len' \in [Tasks -> 0..MaxLen] /\ pos' \in [Tasks -> 0..MaxLen]
        /\ iter' \in [Tasks -> 0..MaxIter]
    BY <2>1 DEF Leave, TypeOK
  <2>5. QED
    BY <2>2, <2>3, <2>4 DEF CallTypes
<1>4. Woken' /\ Quiet'
  BY <1>2 DEF Woken, Quiet, InCall
<1>5. MayPass' = MayPass \ {t}
  BY <1>2 DEF MayPass, InCall
<1>6. ASSUME NEW x \in Nat
      PROVE  Ready(x)' = Ready(x) \ {t}
  BY <1>2 DEF Ready, InCall
<1>7. Sharing'
  BY <1>2, <1>6 DEF Sharing, Between
<1>8. Behind'
  BY <1>2, <1>5 DEF Behind, Between
<1>9. QED
  BY <1>3, <1>4, <1>7, <1>8

(* The head of the loop: whether the call returns, sleeps until `next` or  *)
(* goes on.                                                                *)
LEMMA TurnKeeps ==
  ASSUME TypeOK, Woken, Quiet,
         NEW t \in Active, NEW l \in 1..MaxLen, NEW p \in 0..l, NEW i \in 0..MaxIter,
         NEW nx \in Int, Turn(t, l, p, i, nx), UNCHANGED chosen, level' \in Nat,
         Between(t, nx, level')
  PROVE  CallTypes' /\ Woken' /\ Quiet' /\ Sharing' /\ Behind'
<1>1. CASE i = MaxIter \/ p = l
  <2>1. Leave(t, "idle") /\ next' = nx
    BY <1>1 DEF Turn, Return
  <2>2. QED
    BY <2>1, LeaveKeeps
<1>2. CASE i < MaxIter /\ p < l
  <2> DEFINE w == IF nx > 0 THEN nx ELSE 0
  <2>1. t \in Tasks
    BY ActiveTasks
  <2>2. w \in Nat /\ Max({nx, 0}) = w /\ i \in Nat /\ p \in 0..MaxLen /\ l \in 0..MaxLen
        /\ i + 1 \in 0..MaxIter
    BY <1>2, MaxOfTwo, SpeedAssumption
  <2> HIDE DEF w
  <2>3. /\ ~(i = MaxIter \/ p = l)
        /\ pc' = [pc EXCEPT ![t] = IF nx > 0 THEN "delay" ELSE "below"]
        /\ wait' = [wait EXCEPT ![t] = w]
        /\ next' = w
        /\ len' = [len EXCEPT ![t] = l]
        /\ pos' = [pos EXCEPT ![t] = p]
        /\ iter' = [iter EXCEPT ![t] = i + 1]
    BY <1>2, <2>2 DEF Turn
  <2>4. /\ \A s \in Tasks : /\ pc'[s] = IF s = t THEN (IF nx > 0 THEN "delay" ELSE "below")
                                      ELSE pc[s]
                            /\ wait'[s] = IF s = t THEN w ELSE wait[s]
                            /\ pos'[s] = IF s = t THEN p ELSE pos[s]
        /\ hint' = hint /\ hint \in Nat /\ Active' = Active /\ Active \subseteq Tasks
    BY <2>1, <2>3, ActiveTasks DEF TypeOK, chosen, Active
  <2>5. CallTypes'
    <3>1. pc' \in [Tasks -> {"idle", "delay", "below", "raised"}]
      BY <2>3 DEF TypeOK
    <3>2. wait' \in [Tasks -> Nat]
      <4>1. wait \in [Tasks -> Nat]
        BY DEF TypeOK
      <4>2. wait' = [wait EXCEPT ![t] = w]
        BY <2>3
      <4>3. QED
        BY <2>1, <2>2, <4>1, <4>2
    <3>3. len' \in [Tasks -> 0..MaxLen] /\ pos' \in [Tasks -> 0..MaxLen]
      BY <2>2, <2>3 DEF TypeOK
    <3>4. iter' \in [Tasks -> 0..MaxIter]
      BY <2>2, <2>3 DEF TypeOK
    <3>5. next' \in Int
      BY <2>2, <2>3
    <3>6. QED
      BY <3>1, <3>2, <3>3, <3>4, <3>5 DEF CallTypes
  <2>6. Woken'
    <3>1. ~(nx > 0) => w = 0
      BY DEF w
    <3>2. QED
      BY <2>4, <3>1 DEF Woken
  <2>7. Quiet'
    BY <2>4 DEF Quiet, InCall
  <2>8. ASSUME NEW x \in Nat
        PROVE  next' + Bytes(hint, Ready(x)') <= Bytes(hint, Active) + x
    <3>1. /\ Bytes(hint, Active) \in Nat /\ Ready(x)' \subseteq Active
          /\ Bytes(hint, Ready(x)') \in Nat
          /\ Bytes(hint, Ready(x)') <= Bytes(hint, Active)
      <4>1. Ready(x)' \subseteq Active
        BY <2>4 DEF Ready
      <4>2. QED
        BY <2>4, <4>1, Pieces
    <3>2. CASE w <= x
      BY <2>2, <2>3, <3>1, <3>2
    <3>3. CASE w > x
      <4>1. Ready(x)' = Ready(x) \ {t}
        BY <2>2, <2>4, <3>3 DEF Ready, InCall
      <4>2. w = nx
        BY <3>3 DEF w
      <4>3. QED
        BY <2>3, <4>1, <4>2 DEF Between
    <3>4. QED
      BY <2>2, <3>2, <3>3
  <2>9. Sharing'
    BY <2>4, <2>8 DEF Sharing
  <2>10. Behind'
    <3>1. /\ Bytes(hint, Active) \in Nat /\ Bytes(hint, MayPass \ {t}) \in Nat
      <4>1. MayPass \ {t} \subseteq Active
        BY DEF MayPass
      <4>2. QED
        BY <2>4, <4>1, Pieces
    <3>2. level' <= w + Bytes(hint, Active)
      BY <3>1 DEF w, Between
    <3>3. QED
      BY <2>3, <2>4, <3>2 DEF Behind
  <2>11. QED
    BY <2>5, <2>6, <2>7, <2>9, <2>10
<1>3. QED
  BY <1>1, <1>2 DEF Turn
-----------------------------------------------------------------------------
(* What is between the turns if no piece passes.                           *)
LEMMA BetweenSame ==
  ASSUME TypeOK, Sharing, Behind, NEW t
  PROVE  Between(t, next, level)
<1>1. hint \in Nat /\ next \in Int /\ level \in Nat
  BY DEF TypeOK
<1>2. \A S \in SUBSET Active : \A R \in SUBSET S :
        /\ Bytes(hint, S) \in Nat /\ Bytes(hint, R) \in Nat
        /\ Bytes(hint, R) <= Bytes(hint, S)
  BY <1>1, ActiveTasks, BytesSubset
<1>3. Bytes(hint, Active) \in Nat
  BY <1>1, Pieces
<1>4. ASSUME NEW x \in Nat
      PROVE  next + Bytes(hint, Ready(x) \ {t}) <= Bytes(hint, Active) + x
  <2>1. Ready(x) \in SUBSET Active /\ Ready(x) \ {t} \in SUBSET Ready(x)
    BY DEF Ready
  <2>2. /\ Bytes(hint, Ready(x)) \in Nat /\ Bytes(hint, Ready(x) \ {t}) \in Nat
        /\ Bytes(hint, Ready(x) \ {t}) <= Bytes(hint, Ready(x))
    BY <1>2, <2>1
  <2>3. next + Bytes(hint, Ready(x)) <= Bytes(hint, Active) + x
    BY DEF Sharing
  <2>4. QED
    BY <1>1, <1>3, <2>2, <2>3
<1>5. \/ level <= next + Bytes(hint, Active)
      \/ next < 0 /\ level + Bytes(hint, MayPass \ {t}) <= Bytes(hint, Active)
  <2>1. MayPass \in SUBSET Active /\ MayPass \ {t} \in SUBSET MayPass
    BY DEF MayPass
  <2>2. /\ Bytes(hint, MayPass) \in Nat /\ Bytes(hint, MayPass \ {t}) \in Nat
        /\ Bytes(hint, MayPass \ {t}) <= Bytes(hint, MayPass)
    BY <1>2, <2>1
  <2>3. QED
    BY <1>1, <1>3, <2>2 DEF Behind
<1>6. QED
  BY <1>4, <1>5 DEF Between

(* What is between the turns if a piece of k bytes passes.                 *)
LEMMA BetweenPiece ==
  ASSUME TypeOK, Woken, Sharing, Behind, NEW t \in Active, pc[t] = "below",
         NEW k \in Nat, k <= hint
  PROVE  Between(t, next + k, level + k)
<1>1. hint \in Nat /\ next \in Int /\ level \in Nat
  BY DEF TypeOK
<1>2. Active \subseteq Tasks /\ t \in Tasks
  BY ActiveTasks
<1>3. Bytes(hint, Active) \in Nat
  BY <1>1, Pieces
<1>4. ASSUME NEW x \in Nat
      PROVE  (next + k) + Bytes(hint, Ready(x) \ {t}) <= Bytes(hint, Active) + x
  <2>1. t \in Ready(x) /\ Ready(x) \in SUBSET Active
    BY <1>2 DEF Ready, InCall, Woken
  <2>2. Bytes(hint, Ready(x)) \in Nat
    BY <1>1, <2>1, Pieces
  <2>3. Bytes(hint, Ready(x) \ {t}) = Bytes(hint, Ready(x)) - hint
    BY <1>1, <1>2, <2>1, BytesWithout
  <2>4. next + Bytes(hint, Ready(x)) <= Bytes(hint, Active) + x
    BY DEF Sharing
  <2>5. QED
    BY <1>1, <1>3, <2>2, <2>3, <2>4
<1>5. \/ level + k <= next + k + Bytes(hint, Active)
      \/ next + k < 0 /\ (level + k) + Bytes(hint, MayPass \ {t}) <= Bytes(hint, Active)
  <2>1. t \in MayPass /\ MayPass \in SUBSET Active
    BY DEF MayPass, InCall
  <2>2. Bytes(hint, MayPass) \in Nat
    BY <1>1, <2>1, Pieces
  <2>3. Bytes(hint, MayPass \ {t}) = Bytes(hint, MayPass) - hint /\ hint <= Bytes(hint, MayPass)
    <3>1. Bytes(hint, MayPass \ {t}) = Bytes(hint, MayPass) - hint
      BY <1>1, <1>2, <2>1, BytesWithout
    <3>2. Bytes(hint, MayPass \ {t}) \in Nat
      <4>1. MayPass \ {t} \in SUBSET Active
        BY <2>1
      <4>2. QED
        BY <1>1, <4>1, Pieces
    <3>3. QED
      BY <1>1, <2>2, <3>1, <3>2
  <2>4. QED
    BY <1>1, <1>3, <2>2, <2>3 DEF Behind
<1>6. QED
  BY <1>4, <1>5 DEF Between

(* The bytes that t has read so far are in its buffer or returned.         *)
LEMMA PosSum ==
  ASSUME TypeOK, NEW t \in Active, NEW p \in 0..MaxLen, pos' = [pos EXCEPT ![t] = p]
  PROVE  /\ SumOver(pos, Tasks) \in Nat /\ SumOver(pos', Tasks) \in Nat
         /\ pos[t] \in Nat
         /\ SumOver(pos', Tasks) = SumOver(pos, Tasks) - pos[t] + p
<1>1. /\ t \in Tasks /\ IsFiniteSet(Tasks) /\ p \in Nat /\ pos'[t] = p
      /\ \A s \in Tasks : pos[s] \in Nat /\ pos'[s] \in Nat
      /\ \A s \in Tasks : s # t => pos'[s] = pos[s]
  BY ActiveTasks, SpeedAssumption DEF TypeOK
<1>2. SumOver(pos', Tasks) = SumOver(pos, Tasks) - pos[t] + pos'[t]
  <2> DEFINE h == pos'
  <2> HIDE DEF h
  <2>1. SumOver(h, Tasks) = SumOver(pos, Tasks) - pos[t] + h[t]
    <3>1. h[t] \in Nat /\ \A s \in Tasks : s # t => h[s] = pos[s]
      BY <1>1 DEF h
    <3>2. QED
      BY <1>1, <3>1, SumChange
  <2>2. QED
    BY <2>1 DEF h
<1>3. SumOver(pos, Tasks) \in Nat /\ SumOver(pos', Tasks) \in Nat
  BY <1>1, SumNat
<1>4. QED
  BY <1>1, <1>2, <1>3

LEMMA TurnCounts ==
  ASSUME TypeOK, NEW t \in Active, NEW l \in 1..MaxLen, NEW p \in 0..l,
         NEW i \in 0..MaxIter, NEW nx \in Int, Turn(t, l, p, i, nx), returned \in Nat
  PROVE  /\ SumOver(pos, Tasks) \in Nat /\ SumOver(pos', Tasks) \in Nat
         /\ returned' \in Nat /\ (dir # "read" => returned' = returned)
         /\ dir = "read" => returned' + SumOver(pos', Tasks)
                            = returned + SumOver(pos, Tasks) - pos[t] + p
<1>1. p \in Nat /\ 0 \in 0..MaxLen /\ p \in 0..MaxLen
  BY SpeedAssumption
<1>2. CASE i = MaxIter \/ p = l
  <2>1. /\ pos' = [pos EXCEPT ![t] = 0]
        /\ returned' = IF dir = "read" THEN returned + p ELSE returned
    BY <1>2 DEF Turn, Return, Leave
  <2>2. /\ SumOver(pos, Tasks) \in Nat /\ SumOver(pos', Tasks) \in Nat /\ pos[t] \in Nat
        /\ SumOver(pos', Tasks) = SumOver(pos, Tasks) - pos[t] + 0
    BY <1>1, <2>1, PosSum
  <2>3. QED
    BY <1>1, <2>1, <2>2
<1>3. CASE ~(i = MaxIter \/ p = l)
  <2>1. pos' = [pos EXCEPT ![t] = p] /\ returned' = returned
    BY <1>3 DEF Turn
  <2>2. /\ SumOver(pos, Tasks) \in Nat /\ SumOver(pos', Tasks) \in Nat /\ pos[t] \in Nat
        /\ SumOver(pos', Tasks) = SumOver(pos, Tasks) - pos[t] + p
    BY <1>1, <2>1, PosSum
  <2>3. QED
    BY <1>1, <2>1, <2>2
<1>4. QED
  BY <1>2, <1>3
-----------------------------------------------------------------------------
(* What the steps of a call leave to be shown: the counts of bytes.        *)
LEMMA CountsSuffice ==
  ASSUME TypeOK, CallTypes', Woken', Quiet', Sharing', Behind',
         UNCHANGED <<chosen, eof, sent>>, level' \in Nat, cancels' \in 0..NCancels,
         input' \in Nat, returned' \in Nat, lost' \in Nat,
         dir # "read" => UNCHANGED <<input, returned, lost>>,
         dir = "read" => sent = input' + returned' + lost' + SumOver(pos', Tasks),
         lost' > 0 => cancels' > 0 \/ eof = "transformer"
  PROVE  IInv'
<1>1. UNCHANGED <<dir, hint, eof, sent>> /\ sent \in Nat /\ sent <= MaxInput
  BY SpeedAssumption DEF chosen, TypeOK
<1>2. SumOver(pos', Tasks) \in Nat
  <2>1. \A t \in Tasks : pos'[t] \in Nat
    BY SpeedAssumption DEF CallTypes
  <2>2. QED
    BY <2>1, SpeedAssumption, SumNat
<1>3. /\ input' \in 0..MaxInput /\ returned' \in 0..sent' /\ lost' \in 0..sent'
  <2>1. CASE dir = "read"
    BY <1>1, <1>2, <2>1, SpeedAssumption
  <2>2. CASE dir # "read"
    BY <1>1, <2>2 DEF TypeOK
  <2>3. QED
    BY <2>1, <2>2
<1>4. TypeOK'
  BY <1>1, <1>3 DEF TypeOK, CallTypes
<1>5. ReadKeepsBytes'
  BY <1>1 DEF ReadKeepsBytes
<1>6. QED
  BY <1>4, <1>5 DEF IInv

LEMMA Numbers ==
  ASSUME IInv
  PROVE  /\ hint \in Nat /\ next \in Int /\ level \in Nat /\ cancels \in 0..NCancels
         /\ input \in Nat /\ returned \in Nat /\ lost \in Nat /\ sent \in Nat
         /\ SumOver(pos, Tasks) \in Nat
         /\ MaxIter \in Nat /\ MaxLen \in Nat /\ 1 \in 1..MaxLen /\ NCancels \in Nat
         /\ \A t \in Active : /\ t \in Tasks
                              /\ pos[t] \in Nat /\ pos[t] \in 0..MaxLen
                              /\ len[t] \in Nat /\ len[t] <= MaxLen /\ iter[t] \in 0..MaxIter
<1>1. \A t \in Tasks : pos[t] \in Nat
  BY SpeedAssumption DEF IInv, TypeOK
<1>2. SumOver(pos, Tasks) \in Nat
  BY <1>1, SpeedAssumption, SumNat
<1>3. QED
  BY <1>1, <1>2, ActiveTasks, SpeedAssumption DEF IInv, TypeOK

(* A call that ends with p bytes less in the buffer of t.                  *)
LEMMA LeaveStep ==
  ASSUME IInv, NEW t \in Active, NEW to \in {"idle", "raised"}, Leave(t, to),
         UNCHANGED <<chosen, input, eof, sent, level>>, next' = next,
         cancels' \in 0..NCancels, returned' \in Nat, lost' \in Nat,
         dir # "read" => UNCHANGED <<returned, lost>>,
         dir = "read" => returned' + lost' = returned + lost + pos[t],
         lost' > 0 => cancels' > 0 \/ eof = "transformer"
  PROVE  IInv'
<1>1. level' \in Nat /\ input' \in Nat /\ level' = level /\ next \in Int
  BY Numbers
<1>2. Between(t, next, level')
  BY <1>1, BetweenSame DEF IInv
<1>3. CallTypes' /\ Woken' /\ Quiet' /\ Sharing' /\ Behind'
  BY <1>1, <1>2, LeaveKeeps DEF IInv
<1>4. /\ SumOver(pos', Tasks) \in Nat
      /\ SumOver(pos', Tasks) = SumOver(pos, Tasks) - pos[t] + 0
  <2>1. pos' = [pos EXCEPT ![t] = 0] /\ 0 \in 0..MaxLen
    BY SpeedAssumption DEF Leave
  <2>2. QED
    BY <2>1, PosSum DEF IInv
<1>5. dir = "read" => sent = input' + returned' + lost' + SumOver(pos', Tasks)
  BY <1>4, Numbers DEF IInv, ReadKeepsBytes
<1>6. QED
  BY <1>1, <1>3, <1>5, CountsSuffice DEF IInv

LEMMA CallStep ==
  ASSUME IInv, NEW t \in Active, Call(t)
  PROVE  IInv'
<1>1. /\ UNCHANGED <<chosen, input, eof, sent, lost, cancels, level>>
      /\ t \in Tasks /\ pos[t] = 0 /\ level' \in Nat
  BY Numbers DEF Call, IInv, Quiet, InCall
<1>2. Between(t, next, level')
  BY <1>1, BetweenSame DEF IInv
<1>3. CASE hint = 0
  <2> DEFINE nx == IF next >= 0 THEN next ELSE 0
  <2>1. Leave(t, "raised") /\ next' = nx /\ returned' = returned /\ nx \in Int
    <3>1. Max({next, 0}) = nx
      BY Numbers, MaxOfTwo
    <3>2. QED
      BY <1>3, <3>1, Numbers DEF Call
  <2>2. Between(t, nx, level')
    <3>1. \A S \in SUBSET Active : Bytes(hint, S) = 0
      <4>1. ASSUME NEW S \in SUBSET Active PROVE Bytes(hint, S) = 0
        <5>1. IsFiniteSet(S)
          BY ActiveTasks, FS_Subset
        <5>2. Cardinality(S) \in Nat
          BY <5>1, FS_CardinalityType
        <5>3. QED
          BY <1>3, <5>2 DEF Bytes
      <4>2. QED
        BY <4>1
    <3>2. /\ \A x : Ready(x) \ {t} \in SUBSET Active
          /\ MayPass \ {t} \in SUBSET Active
      BY DEF Ready, MayPass
    <3>3. \A x \in Nat : next + 0 <= 0 + x
      <4>1. ASSUME NEW x \in Nat PROVE next + 0 <= 0 + x
        <5>1. next + Bytes(hint, Ready(x) \ {t}) <= Bytes(hint, Active) + x
          BY <1>2 DEF Between
        <5>2. Bytes(hint, Active) = 0 /\ Bytes(hint, Ready(x) \ {t}) = 0
          BY <3>1, <3>2
        <5>3. QED
          BY <5>1, <5>2
      <4>2. QED
        BY <4>1
    <3>4. \A x \in Nat : nx + 0 <= 0 + x
      BY <3>3, Numbers
    <3>5. level' <= nx + 0
      <4>1. level' <= next + 0 \/ (next < 0 /\ level' + 0 <= 0)
        <5>1. Bytes(hint, Active) = 0 /\ Bytes(hint, MayPass \ {t}) = 0
          BY <3>1, <3>2
        <5>2. \/ level' <= next + Bytes(hint, Active)
              \/ next < 0 /\ level' + Bytes(hint, MayPass \ {t}) <= Bytes(hint, Active)
          BY <1>2 DEF Between
        <5>3. QED
          BY <5>1, <5>2
      <4>2. QED
        BY <1>1, <4>1, Numbers
    <3> HIDE DEF nx
    <3>6. QED
      BY <3>1, <3>2, <3>4, <3>5 DEF Between
  <2> HIDE DEF nx
  <2>3. CallTypes' /\ Woken' /\ Quiet' /\ Sharing' /\ Behind'
    BY <1>1, <2>1, <2>2, LeaveKeeps DEF IInv
  <2>4. /\ SumOver(pos', Tasks) \in Nat
        /\ SumOver(pos', Tasks) = SumOver(pos, Tasks) - pos[t] + 0
    <3>1. pos' = [pos EXCEPT ![t] = 0] /\ 0 \in 0..MaxLen
      BY <2>1, SpeedAssumption DEF Leave
    <3>2. QED
      BY <3>1, PosSum DEF IInv
  <2>5. dir = "read" => sent = input' + returned' + lost' + SumOver(pos', Tasks)
    BY <1>1, <2>1, <2>4, Numbers DEF IInv, ReadKeepsBytes
  <2>6. QED
    BY <1>1, <2>1, <2>3, <2>5, Numbers, CountsSuffice DEF IInv, ReadKeepsBytes
<1>4. CASE hint # 0
  <2>1. PICK l \in 1..MaxLen : Turn(t, l, 0, 0, next)
    BY <1>4 DEF Call
  <2>2. 0 \in 0..l /\ 0 \in 0..MaxIter
    BY Numbers
  <2>3. CallTypes' /\ Woken' /\ Quiet' /\ Sharing' /\ Behind'
    BY <1>1, <1>2, <2>1, <2>2, Numbers, TurnKeeps DEF IInv
  <2>4. /\ SumOver(pos', Tasks) \in Nat
        /\ returned' \in Nat /\ (dir # "read" => returned' = returned)
        /\ dir = "read" => returned' + SumOver(pos', Tasks)
                           = returned + SumOver(pos, Tasks) - pos[t] + 0
    BY <2>1, <2>2, Numbers, TurnCounts DEF IInv
  <2>5. dir = "read" => sent = input' + returned' + lost' + SumOver(pos', Tasks)
    BY <1>1, <2>4, Numbers DEF IInv, ReadKeepsBytes
  <2>6. QED
    BY <1>1, <2>3, <2>4, <2>5, Numbers, CountsSuffice DEF IInv, ReadKeepsBytes
<1>5. QED
  BY <1>3, <1>4

LEMMA WakeStep ==
  ASSUME IInv, NEW t \in Active, Wake(t)
  PROVE  IInv'
<1>1. /\ t \in Tasks /\ pc[t] = "delay" /\ wait[t] = 0
      /\ \A s \in Tasks : pc'[s] = IF s = t THEN "below" ELSE pc[s]
      /\ pc' \in [Tasks -> {"idle", "delay", "below", "raised"}]
      /\ UNCHANGED <<dir, hint, wait, next, len, pos, iter, returned, lost, input, eof, sent,
                     cancels, level>>
  BY Numbers DEF Wake, chosen, IInv, TypeOK
<1>2. TypeOK' /\ ReadKeepsBytes'
  BY <1>1 DEF IInv, TypeOK, ReadKeepsBytes
<1>3. Woken' /\ Quiet'
  BY <1>1 DEF IInv, Woken, Quiet, InCall
<1>4. Active' = Active /\ Active \subseteq Tasks
  BY <1>1, ActiveTasks DEF Active
<1>5. \A s \in Tasks : InCall(s)' <=> InCall(s)
  BY <1>1 DEF InCall
<1>6. MayPass' = MayPass
  BY <1>4, <1>5 DEF MayPass
<1>7. ASSUME NEW x \in Nat PROVE Ready(x)' = Ready(x)
  BY <1>1, <1>4, <1>5 DEF Ready
<1>8. Sharing' /\ Behind'
  BY <1>1, <1>4, <1>6, <1>7 DEF IInv, Sharing, Behind
<1>9. QED
  BY <1>2, <1>3, <1>8 DEF IInv

LEMMA BelowStep ==
  ASSUME IInv, NEW t \in Active, Below(t)
  PROVE  IInv'
<1>1. PICK k \in 1..Min({hint, len[t] - pos[t]}) :
        /\ dir = "read" => k <= input
        /\ input' = IF dir = "read" THEN input - k ELSE input
        /\ level' = level + k
        /\ Turn(t, len[t], pos[t] + k, iter[t], next + k)
  BY DEF Below
<1>2. k \in Nat /\ k >= 1 /\ k <= hint /\ k <= len[t] - pos[t]
  <2>1. hint \in Int /\ len[t] - pos[t] \in Int
    BY Numbers
  <2>2. QED
    BY <2>1, MinOfTwo
<1>3. /\ len[t] \in 1..MaxLen /\ pos[t] + k \in 0..len[t] /\ iter[t] \in 0..MaxIter
      /\ next + k \in Int /\ level' \in Nat /\ input' \in Nat
  BY <1>1, <1>2, Numbers
<1>4. UNCHANGED <<chosen, eof, sent, lost, cancels>> /\ pc[t] = "below"
  BY DEF Below
<1>5. Between(t, next + k, level')
  BY <1>1, <1>2, <1>4, BetweenPiece DEF IInv
<1>6. CallTypes' /\ Woken' /\ Quiet' /\ Sharing' /\ Behind'
  BY <1>1, <1>3, <1>4, <1>5, TurnKeeps DEF IInv
<1>7. /\ SumOver(pos', Tasks) \in Nat
      /\ returned' \in Nat /\ (dir # "read" => returned' = returned)
      /\ dir = "read" => returned' + SumOver(pos', Tasks)
                         = returned + SumOver(pos, Tasks) - pos[t] + (pos[t] + k)
  BY <1>1, <1>3, Numbers, TurnCounts DEF IInv
<1>8. dir = "read" => sent = input' + returned' + lost' + SumOver(pos', Tasks)
  BY <1>1, <1>2, <1>4, <1>7, Numbers DEF IInv, ReadKeepsBytes
<1>9. QED
  BY <1>1, <1>3, <1>4, <1>6, <1>7, <1>8, Numbers, CountsSuffice DEF IInv, ReadKeepsBytes

LEMMA ReadEofStep ==
  ASSUME IInv, NEW t \in Active, ReadEof(t)
  PROVE  IInv'
<1>1. /\ UNCHANGED <<chosen, input, eof, sent, cancels, level>>
      /\ dir = "read" /\ eof # "open" /\ eof \in {"open", "adaptor", "transformer"}
  BY DEF ReadEof, IInv, TypeOK
<1>2. CASE eof = "adaptor" /\ pos[t] > 0
  <2>1. /\ Leave(t, "idle") /\ next' = next
        /\ returned' = returned + pos[t] /\ lost' = lost
    BY <1>1, <1>2 DEF ReadEof, Return
  <2>2. QED
    BY <1>1, <2>1, Numbers, LeaveStep DEF IInv, ReadKeepsBytes
<1>3. CASE ~(eof = "adaptor" /\ pos[t] > 0)
  <2>1. /\ Leave(t, "raised") /\ next' = next
        /\ returned' = returned /\ lost' = lost + pos[t]
    BY <1>3 DEF ReadEof
  <2>2. lost' > 0 => cancels' > 0 \/ eof = "transformer"
    BY <1>1, <1>3, <2>1, Numbers DEF IInv, ReadKeepsBytes
  <2>3. QED
    BY <1>1, <2>1, <2>2, Numbers, LeaveStep
<1>4. QED
  BY <1>2, <1>3

LEMMA CancelStep ==
  ASSUME IInv, NEW t \in Active, Cancel(t)
  PROVE  IInv'
<1>1. /\ Leave(t, "idle") /\ UNCHANGED <<chosen, next, returned, input, eof, sent, level>>
      /\ cancels' = cancels + 1 /\ cancels < NCancels
      /\ lost' = IF dir = "read" THEN lost + pos[t] ELSE lost
  BY DEF Cancel
<1>2. cancels' \in 0..NCancels /\ cancels' > 0 /\ lost' \in Nat
  BY <1>1, Numbers
<1>3. QED
  BY <1>1, <1>2, Numbers, LeaveStep

LEMMA PeerStep ==
  ASSUME IInv, PeerSends \/ PeerEnds
  PROVE  IInv'
<1>1. /\ UNCHANGED <<dir, hint, pc, wait, next, len, pos, iter, returned, lost, cancels, level>>
      /\ dir = "read" /\ eof = "open"
  BY DEF PeerSends, PeerEnds, chosen, calls
<1>2. /\ \/ sent' = sent + 1 /\ input' = input + 1 /\ sent < MaxInput /\ eof' = eof
         \/ UNCHANGED <<sent, input>> /\ eof' \in {"adaptor", "transformer"}
  BY DEF PeerSends, PeerEnds
<1>3. ReadKeepsBytes'
  BY <1>1, <1>2, Numbers DEF IInv, ReadKeepsBytes
<1>4. TypeOK'
  <2>1. /\ input' \in 0..MaxInput /\ sent' \in 0..MaxInput
        /\ returned \in 0..sent' /\ lost \in 0..sent'
    <3>1. sent = input + returned + lost + SumOver(pos, Tasks)
      BY <1>1 DEF IInv, ReadKeepsBytes
    <3>2. sent <= MaxInput /\ MaxInput \in Nat
      BY SpeedAssumption DEF IInv, TypeOK
    <3>3. QED
      BY <1>2, <3>1, <3>2, Numbers
  <2>2. QED
    BY <1>1, <1>2, <2>1 DEF IInv, TypeOK
<1>5. Woken' /\ Quiet'
  BY <1>1 DEF IInv, Woken, Quiet, InCall
<1>6. Active' = Active
  BY <1>1 DEF Active
<1>7. MayPass' = MayPass /\ \A x \in Nat : Ready(x)' = Ready(x)
  BY <1>1, <1>6 DEF MayPass, Ready, InCall
<1>8. Sharing' /\ Behind'
  BY <1>1, <1>6, <1>7 DEF IInv, Sharing, Behind
<1>9. QED
  BY <1>3, <1>4, <1>5, <1>8 DEF IInv

LEMMA TickStep ==
  ASSUME IInv, Tick
  PROVE  IInv'
<1>1. \A x \in Nat : Less(x) \in Nat /\ Less(x) = IF x = 0 THEN 0 ELSE x - 1
  <2>1. ASSUME NEW x \in Nat
        PROVE  Less(x) \in Nat /\ Less(x) = IF x = 0 THEN 0 ELSE x - 1
    <3>1. Max({0, x - 1}) = IF 0 >= x - 1 THEN 0 ELSE x - 1
      BY MaxOfTwo
    <3>2. QED
      BY <3>1 DEF Less
  <2>2. QED
    BY <2>1
<1>2. LongAgo \in Int /\ LongAgo <= 0
  <2>1. Cardinality(Tasks) \in Nat
    BY SpeedAssumption, FS_CardinalityType
  <2>2. hint * 2 * (Cardinality(Tasks) + 1) \in Nat
    BY <2>1, Numbers
  <2>3. QED
    BY <2>2 DEF LongAgo
<1>3. /\ \A t \in Tasks : wait'[t] = IF wait[t] = 0 THEN 0 ELSE wait[t] - 1
      /\ wait' \in [Tasks -> Nat]
      /\ next' = IF next - 1 >= LongAgo THEN next - 1 ELSE LongAgo
      /\ level' = IF level = 0 THEN 0 ELSE level - 1
      /\ UNCHANGED <<dir, hint, pc, len, pos, iter, returned, lost, input, eof, sent, cancels>>
  <2>1. next' = IF next - 1 >= LongAgo THEN next - 1 ELSE LongAgo
    <3>1. next - 1 \in Int
      BY Numbers
    <3>2. QED
      BY <1>2, <3>1, MaxOfTwo DEF Tick
  <2>2. \A t \in Tasks : wait[t] \in Nat
    BY DEF IInv, TypeOK
  <2>3. /\ \A t \in Tasks : wait'[t] = Less(wait[t])
        /\ wait' = [t \in Tasks |-> Less(wait[t])]
    BY DEF Tick
  <2>4. QED
    BY <1>1, <2>1, <2>2, <2>3, Numbers DEF Tick, chosen
<1>4. TypeOK'
  <2>1. next' \in Int /\ level' \in Nat
    BY <1>2, <1>3, Numbers
  <2>2. QED
    BY <1>3, <2>1 DEF IInv, TypeOK
<1>5. Woken' /\ Quiet' /\ ReadKeepsBytes'
  BY <1>3 DEF IInv, Woken, Quiet, InCall, ReadKeepsBytes
<1>6. Active' = Active /\ Active \subseteq Tasks
  BY <1>3, ActiveTasks DEF Active
<1>7. MayPass' = MayPass
  BY <1>3, <1>6 DEF MayPass, InCall
<1>8. ASSUME NEW x \in Nat
      PROVE  next' + Bytes(hint, Ready(x)') <= Bytes(hint, Active) + x
  <2>1. Ready(x)' = Ready(x + 1)
    <3>1. \A t \in Tasks : wait'[t] <= x <=> wait[t] <= x + 1
      BY <1>3 DEF IInv, TypeOK
    <3>2. QED
      BY <1>3, <1>6, <3>1 DEF Ready, InCall
  <2>2. next + Bytes(hint, Ready(x + 1)) <= Bytes(hint, Active) + (x + 1)
    BY DEF IInv, Sharing
  <2>3. /\ Bytes(hint, Ready(x + 1)) \in Nat /\ Bytes(hint, Active) \in Nat
        /\ Bytes(hint, Ready(x + 1)) <= Bytes(hint, Active)
    BY Numbers, Pieces
  <2>4. CASE next' = next - 1
    BY <2>1, <2>2, <2>3, <2>4, Numbers
  <2>5. CASE next' = LongAgo
    BY <1>2, <2>1, <2>3, <2>5
  <2>6. QED
    BY <1>3, <2>4, <2>5
<1>9. Sharing'
  BY <1>3, <1>6, <1>8 DEF Sharing
<1>10. \/ level' <= next' + Bytes(hint, Active)
       \/ next' < 0 /\ level' + Bytes(hint, MayPass) <= Bytes(hint, Active)
  <2>1. /\ Bytes(hint, MayPass) \in Nat /\ Bytes(hint, Active) \in Nat
        /\ Bytes(hint, MayPass) <= Bytes(hint, Active)
    BY Numbers, Pieces
  <2>2. next' \in Int /\ level' \in Nat /\ next' >= next - 1
    BY <1>2, <1>3, Numbers
  <2>3. CASE level = 0
    BY <1>3, <2>1, <2>2, <2>3
  <2>4. CASE level # 0
    <3>1. level' = level - 1
      BY <1>3, <2>4
    <3>2. CASE level <= next + Bytes(hint, Active)
      BY <2>1, <2>2, <3>1, <3>2, Numbers
    <3>3. CASE next < 0 /\ level + Bytes(hint, MayPass) <= Bytes(hint, Active)
      BY <2>1, <2>2, <3>1, <3>3, Numbers
    <3>4. QED
      BY <3>2, <3>3 DEF IInv, Behind
  <2>5. QED
    BY <2>3, <2>4
<1>11. Behind'
  BY <1>3, <1>6, <1>7, <1>10 DEF Behind
<1>12. QED
  BY <1>4, <1>5, <1>9, <1>11 DEF IInv
-----------------------------------------------------------------------------
LEMMA InitHolds == Init => IInv
<1> SUFFICES ASSUME Init PROVE IInv
  OBVIOUS
<1>1. hint \in Nat
  BY HintIsNat DEF Init
<1>2. TypeOK
  <2>1. /\ 0 \in 0..MaxLen /\ 0 \in 0..MaxIter /\ 0 \in 0..MaxInput /\ 0 \in 0..NCancels
        /\ 0 \in 0..0
    BY SpeedAssumption
  <2>2. /\ pc \in [Tasks -> {"idle", "delay", "below", "raised"}]
        /\ wait \in [Tasks -> Nat] /\ len \in [Tasks -> 0..MaxLen]
        /\ pos \in [Tasks -> 0..MaxLen] /\ iter \in [Tasks -> 0..MaxIter]
    BY <2>1 DEF Init
  <2>3. /\ input \in 0..MaxInput /\ sent \in 0..MaxInput /\ cancels \in 0..NCancels
        /\ returned \in 0..sent /\ lost \in 0..sent /\ next \in Int /\ level \in Nat
    BY <2>1 DEF Init
  <2>4. dir \in {"read", "write"} /\ eof \in {"open", "adaptor", "transformer"}
    BY DEF Init
  <2>5. QED
    BY <1>1, <2>2, <2>3, <2>4 DEF TypeOK
<1>3. Woken /\ Quiet
  BY DEF Init, Woken, Quiet
<1>4. Sharing /\ Behind
  <2>1. /\ Bytes(hint, Active) \in Nat /\ MayPass \subseteq Active
        /\ \A x : Ready(x) \subseteq Active
        /\ \A S \in SUBSET Active : /\ Bytes(hint, S) \in Nat
                                    /\ Bytes(hint, S) <= Bytes(hint, Active)
    BY <1>1, Pieces
  <2>2. next = 0 /\ level = 0
    BY DEF Init
  <2>3. QED
    BY <2>1, <2>2 DEF Sharing, Behind
<1>5. ReadKeepsBytes
  <2>1. SumOver(pos, Tasks) = 0
    BY SpeedAssumption, SumZero DEF Init
  <2>2. QED
    BY <2>1 DEF Init, ReadKeepsBytes
<1>6. QED
  BY <1>2, <1>3, <1>4, <1>5 DEF IInv

LEMMA NextHolds == IInv /\ [Next]_vars => IInv'
<1> SUFFICES ASSUME IInv, [Next]_vars PROVE IInv'
  OBVIOUS
<1>1. ASSUME NEW t \in Active, Call(t) \/ Step(t) \/ Cancel(t)
      PROVE  IInv'
  BY <1>1, CallStep, WakeStep, BelowStep, ReadEofStep, CancelStep DEF Step
<1>2. CASE PeerSends \/ PeerEnds
  BY <1>2, PeerStep
<1>3. CASE Tick
  BY <1>3, TickStep
<1>4. CASE UNCHANGED vars
  <2>1. Active' = Active
    BY <1>4 DEF vars, Active
  <2>2. MayPass' = MayPass /\ \A x \in Nat : Ready(x)' = Ready(x)
    BY <1>4, <2>1 DEF vars, MayPass, Ready, InCall
  <2>3. Sharing' /\ Behind'
    BY <1>4, <2>1, <2>2 DEF vars, IInv, Sharing, Behind
  <2>4. TypeOK' /\ Woken' /\ Quiet' /\ ReadKeepsBytes'
    BY <1>4 DEF vars, IInv, TypeOK, Woken, Quiet, InCall, ReadKeepsBytes
  <2>5. QED
    BY <2>3, <2>4 DEF IInv
<1>5. QED
  BY <1>1, <1>2, <1>3, <1>4 DEF Next

(* The inductive invariant of SpeedLimit.                                  *)
THEOREM SpeedLimitInvariance == Spec => []IInv
<1>1. Init => IInv
  BY InitHolds
<1>2. IInv /\ [Next]_vars => IInv'
  BY NextHolds
<1>3. QED
  BY <1>1, <1>2, PTL DEF Spec

LEMMA RateFollows == IInv => WithinRate
<1> SUFFICES ASSUME IInv PROVE WithinRate
  OBVIOUS
<1>1. Bytes(hint, Active) \in Nat /\ Bytes(hint, MayPass) \in Nat /\ Bytes(hint, Ready(0)) \in Nat
  BY Numbers, Pieces
<1>2. next + Bytes(hint, Ready(0)) <= Bytes(hint, Active) + 0
  BY DEF IInv, Sharing
<1>3. level <= 2 * Bytes(hint, Active)
  BY <1>1, <1>2, Numbers DEF IInv, Behind
<1>4. Cardinality(Active) \in Nat
  BY ActiveTasks, FS_CardinalityType
<1>5. 2 * Cardinality(Active) * hint = 2 * Bytes(hint, Active)
  BY <1>4, Numbers DEF Bytes
<1>6. QED
  BY <1>3, <1>5 DEF IInv, WithinRate

(* However many tasks write through a SpeedLimitTransformer, and whatever  *)
(* the layer below takes of their pieces, no more bytes go through in any  *)
(* stretch of time than the speed allows and two pieces per task.          *)
THEOREM RateIsKept == Spec => []WithinRate
<1>1. IInv => WithinRate
  BY RateFollows
<1>2. QED
  BY <1>1, SpeedLimitInvariance, PTL

(* read() returns every byte of the layer below, unless it is cancelled or *)
(* meets the end of a transformer.                                         *)
THEOREM BytesAreKept == Spec => []ReadKeepsBytes
<1>1. IInv => ReadKeepsBytes
  BY DEF IInv
<1>2. QED
  BY <1>1, SpeedLimitInvariance, PTL
-----------------------------------------------------------------------------
(* QpsPool.  That no more permits than the limit allows are given says     *)
(* nothing of the sleepers, each of which adds its permits when it is due; *)
(* PoolInv says where they are: each one's permits have an interval of     *)
(* time of their own before it is due, and none is due after `last`.       *)
(*                                                                         *)
LEMMA PoolOperators ==
  /\ \A g, S : Pool!SumOver(g, S) = SumOver(g, S)
  /\ \A S : Pool!Max(S) = Max(S)
  /\ \A S : Pool!IsFiniteSet(S) <=> IsFiniteSet(S)
<1>1. \A g, S : Pool!SumOver(g, S) = SumOver(g, S)
  BY DEF Pool!SumOver, SumOver, Pool!MapThenSumSet, MapThenSumSet,
     Pool!MapThenFoldSet, MapThenFoldSet
<1>2. \A S : Pool!Max(S) = Max(S)
  BY DEF Pool!Max, Max
<1>3. \A S : Pool!IsFiniteSet(S) <=> IsFiniteSet(S)
  BY DEF Pool!IsFiniteSet, IsFiniteSet
<1>4. QED
  BY <1>1, <1>2, <1>3

(* The time that n permits take, and that of the largest request.          *)
Cost(n) == n * Interval
Cap == MaxUnits * Interval

Pending(u) == ppc[u] = "sleep" /\ pwait[u] > 0

(* Pool!NextLast(n), when _last is l.                                           *)
After(l, n) == IF l + Cost(n) >= 0 THEN l + Cost(n) ELSE 0

(* Only one user is between the read and the store of _last, and it stores *)
(* what it sleeps for.                                                     *)
Decided == \A u \in Pool!Users : ppc[u] = "decide" =>
  /\ plan[u] >= 0
  /\ ~raced => /\ \A v \in Pool!Users : ppc[v] = "decide" => u = v
               /\ plan[u] = After(last, units[u]) /\ pwait[u] = plan[u]

(* Nobody sleeps for longer than to _last.                                 *)
Ahead == ~raced => \A u \in Pool!Users : Pending(u) => pwait[u] <= last

(* Of two sleepers one is due before the time of the other's permits.      *)
Apart == ~raced => \A u, v \in Pool!Users :
  Pending(u) /\ Pending(v) /\ u # v => \/ pwait[u] + Cost(units[v]) <= pwait[v]
                                       \/ pwait[v] + Cost(units[u]) <= pwait[u]

(* What was given is used up again when the next permits are due, and when *)
(* _last is as long ago as permits take that nobody asked for.             *)
Room == ~raced =>
  /\ plevel <= Cap
  /\ last <= 0 => plevel = 0 \/ plevel <= Cap + last
  /\ \A u \in Pool!Users : Pending(u) => plevel + Cost(units[u]) <= Cap + pwait[u]

PoolInv == Pool!TypeOK /\ Decided /\ Ahead /\ Apart /\ Room
-----------------------------------------------------------------------------
LEMMA Costs ==
  ASSUME Pool!Assumed
  PROVE  /\ Cap \in Nat /\ Pool!LongAgo \in Int /\ Pool!LongAgo = -(Cap + Cap)
         /\ \A n \in 0..MaxUnits : Cost(n) \in Nat /\ Cost(n) <= Cap
         /\ IsFiniteSet(Pool!Users)
<1>1. Interval \in Nat /\ MaxUnits \in Nat
  BY DEF Pool!Assumed
<1>2. Cap \in Nat /\ Pool!LongAgo = -(Cap + Cap)
  BY <1>1 DEF Cap, Pool!LongAgo
<1>3. ASSUME NEW n \in 0..MaxUnits
      PROVE  Cost(n) \in Nat /\ Cost(n) <= Cap
  <2>1. n \in Nat /\ MaxUnits - n \in Nat
    BY <1>1
  <2>2. n * Interval \in Nat /\ (MaxUnits - n) * Interval \in Nat
    BY <1>1, <2>1
  <2>3. MaxUnits * Interval = n * Interval + (MaxUnits - n) * Interval
    BY <1>1, <2>1
  <2>4. QED
    BY <1>1, <2>2, <2>3 DEF Cost, Cap
<1>4. IsFiniteSet(Pool!Users)
  BY PoolOperators, FS_Union DEF Pool!Assumed, Pool!Users
<1>5. QED
  BY <1>2, <1>3, <1>4

LEMMA NextLastIs ==
  ASSUME Pool!Assumed, Pool!TypeOK, NEW n \in 0..MaxUnits
  PROVE  Pool!NextLast(n) = After(last, n) /\ After(last, n) \in Nat
<1>1. Cost(n) \in Nat /\ last \in Int
  BY Costs DEF Pool!TypeOK
<1>2. last + Cost(n) \in Int
  BY <1>1
<1>3. Pool!NextLast(n) = IF 0 >= last + Cost(n) THEN 0 ELSE last + Cost(n)
  BY <1>2, PoolOperators, MaxOfTwo DEF Pool!NextLast, Cost
<1>4. QED
  BY <1>1, <1>3 DEF After

LEMMA PoolInitHolds ==
  ASSUME Pool!Assumed, Pool!Init
  PROVE  PoolInv
<1>1. Cap \in Nat /\ Pool!LongAgo = -(Cap + Cap) /\ 0 \in 0..MaxUnits
  BY Costs DEF Pool!Assumed
<1>2. Pool!TypeOK
  <2>1. last \in Int /\ last >= Pool!LongAgo
    BY <1>1 DEF Pool!Init
  <2>2. /\ units \in [Pool!Users -> 0..MaxUnits]
        /\ pwait \in [Pool!Users -> Nat] /\ plan \in [Pool!Users -> Int]
        /\ ppc \in [Pool!Users -> {"idle", "decide", "sleep"}]
    BY <1>1 DEF Pool!Init
  <2>3. \A u \in Pool!Users : ppc[u] = "idle" <=> units[u] = 0
    BY DEF Pool!Init
  <2>4. QED
    BY <2>1, <2>2, <2>3 DEF Pool!Init, Pool!TypeOK
<1>3. Decided /\ Ahead /\ Apart
  BY DEF Pool!Init, Decided, Ahead, Apart, Pending
<1>4. Room
  BY <1>1 DEF Pool!Init, Room, Pending
<1>5. QED
  BY <1>2, <1>3, <1>4 DEF PoolInv
-----------------------------------------------------------------------------
LEMMA GetWaitSecStep ==
  ASSUME Pool!Assumed, PoolInv, NEW u \in Pool!Users, Pool!GetWaitSec(u)
  PROVE  PoolInv'
<1>1. PICK n \in 1..MaxUnits :
        /\ units' = [units EXCEPT ![u] = n]
        /\ plan' = [plan EXCEPT ![u] = Pool!NextLast(n)]
        /\ pwait' = [pwait EXCEPT ![u] = Pool!Max({0, last + n * Interval})]
  BY DEF Pool!GetWaitSec
<1>2. /\ n \in 0..MaxUnits /\ n # 0 /\ n \in Nat
      /\ Pool!NextLast(n) = After(last, n) /\ After(last, n) \in Nat
  BY NextLastIs DEF Pool!Assumed, PoolInv
<1>3. /\ \A v \in Pool!Users : /\ ppc'[v] = IF v = u THEN "decide" ELSE ppc[v]
                               /\ units'[v] = IF v = u THEN n ELSE units[v]
                               /\ plan'[v] = IF v = u THEN After(last, n) ELSE plan[v]
                               /\ pwait'[v] = IF v = u THEN After(last, n) ELSE pwait[v]
      /\ last' = last
  BY <1>1, <1>2 DEF Pool!GetWaitSec, Pool!NextLast, PoolInv, Pool!TypeOK
<1>4. ~raced' => /\ ~raced /\ plevel' = plevel
                 /\ \A v \in Pool!Users : ppc[v] # "decide"
  BY DEF Pool!GetWaitSec, Pool!Deciding
<1>5. Pool!TypeOK'
  <2>1. /\ ppc' \in [Pool!Users -> {"idle", "decide", "sleep"}]
        /\ pwait' \in [Pool!Users -> Nat]
        /\ units' \in [Pool!Users -> 0..MaxUnits]
        /\ plan' \in [Pool!Users -> Int]
    <3>1. Pool!Max({0, last + n * Interval}) \in Nat
      BY <1>2 DEF Pool!NextLast
    <3>2. QED
      BY <1>1, <1>2, <3>1 DEF Pool!GetWaitSec, PoolInv, Pool!TypeOK
  <2>2. raced' \in BOOLEAN /\ plevel' \in Nat
    BY DEF Pool!GetWaitSec, PoolInv, Pool!TypeOK
  <2>3. last' \in Int /\ last' >= Pool!LongAgo
    BY <1>3 DEF PoolInv, Pool!TypeOK
  <2>4. \A v \in Pool!Users : ppc'[v] = "idle" <=> units'[v] = 0
    BY <1>2, <1>3 DEF PoolInv, Pool!TypeOK
  <2>5. QED
    BY <2>1, <2>2, <2>3, <2>4 DEF Pool!TypeOK
<1>6. Decided'
  BY <1>2, <1>3, <1>4 DEF PoolInv, Decided
<1>7. \A v \in Pool!Users : Pending(v)' => /\ Pending(v) /\ v # u
                                           /\ pwait'[v] = pwait[v] /\ units'[v] = units[v]
  BY <1>3 DEF Pending
<1>8. Ahead'
  BY <1>3, <1>4, <1>7 DEF PoolInv, Ahead
<1>9. Apart'
  BY <1>4, <1>7 DEF PoolInv, Apart
<1>10. Room'
  BY <1>3, <1>4, <1>7 DEF PoolInv, Room
<1>11. QED
  BY <1>5, <1>6, <1>8, <1>9, <1>10 DEF PoolInv

LEMMA StoreStep ==
  ASSUME Pool!Assumed, PoolInv, NEW u \in Pool!Users, Pool!Store(u)
  PROVE  PoolInv'
<1> DEFINE n == units[u]
<1>1. /\ Cap \in Nat /\ Pool!LongAgo = -(Cap + Cap)
      /\ n \in 0..MaxUnits /\ Cost(n) \in Nat /\ Cost(n) <= Cap
      /\ last \in Int /\ plevel \in Nat /\ plan[u] \in Int /\ pwait[u] \in Nat
      /\ \A v \in Pool!Users : /\ pwait[v] \in Nat /\ units[v] \in 0..MaxUnits
                               /\ Cost(units[v]) \in Nat /\ Cost(units[v]) <= Cap
  BY Costs DEF PoolInv, Pool!TypeOK
<1>2. /\ ppc[u] = "decide" /\ last' = plan[u] /\ plan[u] >= 0
      /\ UNCHANGED <<pwait, raced>>
      /\ \A v \in Pool!Users : v # u => ppc'[v] = ppc[v] /\ units'[v] = units[v]
      /\ \A v \in Pool!Users : plan'[v] = IF v = u THEN 0 ELSE plan[v]
  BY DEF Pool!Store, PoolInv, Decided, Pool!TypeOK
<1>3. ~raced => /\ \A v \in Pool!Users : v # u => ppc[v] # "decide"
                /\ plan[u] = After(last, n) /\ pwait[u] = plan[u]
  BY <1>2 DEF PoolInv, Decided
<1>4. CASE pwait[u] > 0
  <2>1. ppc'[u] = "sleep" /\ UNCHANGED <<units, plevel>>
    BY <1>4 DEF Pool!Store, PoolInv, Pool!TypeOK
  <2>2. Pool!TypeOK'
    <3>1. /\ ppc' \in [Pool!Users -> {"idle", "decide", "sleep"}]
          /\ plan' \in [Pool!Users -> Int]
      BY <1>4 DEF Pool!Store, PoolInv, Pool!TypeOK
    <3>2. last' \in Int /\ last' >= Pool!LongAgo
      BY <1>1, <1>2
    <3>3. \A v \in Pool!Users : ppc'[v] = "idle" <=> units'[v] = 0
      BY <1>2, <2>1 DEF PoolInv, Pool!TypeOK
    <3>4. QED
      BY <1>2, <2>1, <3>1, <3>2, <3>3 DEF PoolInv, Pool!TypeOK
  <2>3. Decided'
    BY <1>2, <1>3, <2>1 DEF PoolInv, Decided
  <2>4. \A v \in Pool!Users : Pending(v)' => v = u \/ Pending(v)
    BY <1>2 DEF Pending
  <2>5. ~raced => /\ last' = last + Cost(n) /\ pwait[u] = last'
    BY <1>1, <1>2, <1>3, <1>4 DEF After
  <2>6. Ahead'
    BY <1>1, <1>2, <2>4, <2>5 DEF PoolInv, Ahead
  <2>7. Apart'
    <3>1. ASSUME NEW v \in Pool!Users, ~raced, Pending(v)
          PROVE  pwait[v] + Cost(n) <= pwait[u]
      BY <1>1, <2>5, <3>1 DEF PoolInv, Ahead
    <3>2. QED
      BY <1>2, <2>1, <2>4, <3>1 DEF PoolInv, Apart
  <2>8. Room'
    <3>1. ~raced => plevel + Cost(n) <= Cap + pwait[u]
      <4>1. CASE last > 0
        BY <1>1, <2>5, <4>1 DEF PoolInv, Room
      <4>2. CASE last <= 0
        BY <1>1, <1>4, <2>5, <4>2 DEF PoolInv, Room
      <4>3. QED
        BY <1>1, <4>1, <4>2
    <3>2. ~raced => last' > 0
      BY <1>4, <2>5
    <3>3. QED
      BY <1>1, <1>2, <2>1, <2>4, <3>1, <3>2 DEF PoolInv, Room
  <2>9. QED
    BY <2>2, <2>3, <2>6, <2>7, <2>8 DEF PoolInv
<1>5. CASE pwait[u] = 0
  <2>1. /\ ppc'[u] = "idle" /\ units'[u] = 0
        /\ plevel' = IF raced THEN 0 ELSE plevel + Cost(n)
    BY <1>5 DEF Pool!Store, Cost, PoolInv, Pool!TypeOK
  <2>2. Pool!TypeOK'
    <3>1. /\ ppc' \in [Pool!Users -> {"idle", "decide", "sleep"}]
          /\ plan' \in [Pool!Users -> Int]
          /\ units' \in [Pool!Users -> 0..MaxUnits]
      BY <1>1, <1>5 DEF Pool!Store, PoolInv, Pool!TypeOK, Pool!Assumed
    <3>2. last' \in Int /\ last' >= Pool!LongAgo
      BY <1>1, <1>2
    <3>3. \A v \in Pool!Users : ppc'[v] = "idle" <=> units'[v] = 0
      BY <1>2, <2>1 DEF PoolInv, Pool!TypeOK
    <3>4. plevel' \in Nat
      BY <1>1, <2>1
    <3>5. QED
      BY <1>2, <3>1, <3>2, <3>3, <3>4 DEF PoolInv, Pool!TypeOK
  <2>3. Decided'
    BY <1>2, <1>3, <2>1 DEF PoolInv, Decided
  <2>4. \A v \in Pool!Users : Pending(v)' => Pending(v) /\ v # u
    BY <1>2, <2>1 DEF Pending
  <2>5. ~raced => last' = 0 /\ last <= 0 /\ last + Cost(n) <= 0
    BY <1>1, <1>2, <1>3, <1>5 DEF After
  <2>6. ~raced => \A v \in Pool!Users : ~Pending(v)
    BY <1>1, <2>5 DEF PoolInv, Ahead, Pending
  <2>7. Ahead' /\ Apart'
    BY <1>2, <2>4, <2>6 DEF Ahead, Apart
  <2>8. Room'
    <3>1. ~raced => plevel + Cost(n) <= Cap
      BY <1>1, <2>5 DEF PoolInv, Room
    <3>2. QED
      BY <1>1, <1>2, <2>1, <2>4, <2>5, <2>6, <3>1 DEF Room
  <2>9. QED
    BY <2>2, <2>3, <2>7, <2>8 DEF PoolInv
<1>6. QED
  BY <1>1, <1>4, <1>5

LEMMA AcquiredStep ==
  ASSUME Pool!Assumed, PoolInv, NEW u \in Pool!Users, Pool!Acquired(u)
  PROVE  PoolInv'
<1>1. /\ UNCHANGED <<pwait, plan, last, plevel, raced>> /\ pwait[u] = 0
      /\ \A v \in Pool!Users : /\ ppc'[v] = IF v = u THEN "idle" ELSE ppc[v]
                               /\ units'[v] = IF v = u THEN 0 ELSE units[v]
  BY DEF Pool!Acquired, PoolInv, Pool!TypeOK
<1>2. Pool!TypeOK'
  <2>1. /\ ppc' \in [Pool!Users -> {"idle", "decide", "sleep"}]
        /\ units' \in [Pool!Users -> 0..MaxUnits]
    BY DEF Pool!Acquired, PoolInv, Pool!TypeOK, Pool!Assumed
  <2>2. QED
    BY <1>1, <2>1 DEF PoolInv, Pool!TypeOK
<1>3. Decided'
  BY <1>1 DEF PoolInv, Decided
<1>4. \A v \in Pool!Users : Pending(v)' => Pending(v) /\ v # u
  BY <1>1 DEF Pending
<1>5. Ahead' /\ Apart' /\ Room'
  BY <1>1, <1>4 DEF PoolInv, Ahead, Apart, Room
<1>6. QED
  BY <1>2, <1>3, <1>5 DEF PoolInv

(* The permits that one tick makes due are those of one sleeper, for two   *)
(* are due at once only if permits take no time.                           *)
LEMMA DuePermits ==
  ASSUME Pool!Assumed, PoolInv, ~raced,
         NEW due, due = {u \in Pool!Users : ppc[u] = "sleep" /\ pwait[u] = 1}
  PROVE  \/ due = {} /\ Interval * Pool!SumOver(units, due) = 0
         \/ \E u \in due : Interval * Pool!SumOver(units, due) = Cost(units[u])
<1>1. /\ due \subseteq Pool!Users /\ IsFiniteSet(due)
      /\ \A u \in due : units[u] \in Nat
  BY Costs, FS_Subset DEF Pool!Assumed, PoolInv, Pool!TypeOK
<1>2. Pool!SumOver(units, due) \in Nat
  BY <1>1, PoolOperators, SumNat
<1>3. CASE due = {}
  BY <1>3, PoolOperators, SumEmpty DEF Pool!Assumed
<1>4. CASE due # {} /\ Interval = 0
  <2>1. PICK u \in due : TRUE
    BY <1>4
  <2>2. Interval * Pool!SumOver(units, due) = 0 /\ Cost(units[u]) = 0
    BY <1>1, <1>2, <1>4 DEF Cost
  <2>3. QED
    BY <2>1, <2>2
<1>5. CASE due # {} /\ Interval # 0
  <2>1. PICK u \in due : TRUE
    BY <1>5
  <2>2. ASSUME NEW v \in due, v # u
        PROVE  FALSE
    <3>1. /\ u \in Pool!Users /\ v \in Pool!Users /\ Pending(u) /\ Pending(v)
          /\ pwait[u] = 1 /\ pwait[v] = 1 /\ units[u] # 0 /\ units[v] # 0
      BY <1>1, <2>1, <2>2 DEF PoolInv, Pool!TypeOK, Pending
    <3>2. Cost(units[u]) >= 1 /\ Cost(units[v]) >= 1
      BY <1>1, <1>5, <2>1, <2>2, <3>1 DEF Cost, Pool!Assumed
    <3>3. 1 + Cost(units[v]) <= 1 \/ 1 + Cost(units[u]) <= 1
      BY <2>2, <3>1 DEF PoolInv, Apart
    <3>4. Cost(units[u]) \in Int /\ Cost(units[v]) \in Int
      BY <1>1, <2>1, <2>2 DEF Cost, Pool!Assumed
    <3>5. QED
      BY <3>2, <3>3, <3>4
  <2>3. due \ {u} = {}
    BY <2>2
  <2>4. Pool!SumOver(units, due) = units[u] + 0
    <3>1. Pool!SumOver(units, due) = units[u] + Pool!SumOver(units, due \ {u})
      BY <1>1, <2>1, PoolOperators, SumTake
    <3>2. Pool!SumOver(units, due \ {u}) = 0
      BY <2>3, PoolOperators, SumEmpty
    <3>3. QED
      BY <3>1, <3>2
  <2>5. Interval * Pool!SumOver(units, due) = Cost(units[u])
    BY <1>1, <2>4 DEF Cost, Pool!Assumed
  <2>6. QED
    BY <2>5
<1>6. QED
  BY <1>3, <1>4, <1>5

LEMMA PoolTickStep ==
  ASSUME Pool!Assumed, PoolInv, Pool!Tick
  PROVE  PoolInv'
<1> DEFINE due == {u \in Pool!Users : ppc[u] = "sleep" /\ pwait[u] = 1}
           given == Interval * Pool!SumOver(units, due)
<1>1. /\ Cap \in Nat /\ Pool!LongAgo \in Int /\ Pool!LongAgo = -(Cap + Cap)
      /\ last \in Int /\ last >= Pool!LongAgo /\ plevel \in Nat
      /\ \A v \in Pool!Users : /\ pwait[v] \in Nat /\ units[v] \in 0..MaxUnits
                               /\ Cost(units[v]) \in Nat /\ Cost(units[v]) <= Cap
  BY Costs DEF PoolInv, Pool!TypeOK
<1>2. \A x \in Nat : Pool!Less(x) = IF x = 0 THEN 0 ELSE x - 1
  <2>1. ASSUME NEW x \in Nat
        PROVE  Pool!Less(x) = IF x = 0 THEN 0 ELSE x - 1
    <3>1. Pool!Max({0, x - 1}) = IF 0 >= x - 1 THEN 0 ELSE x - 1
      BY PoolOperators, MaxOfTwo
    <3>2. QED
      BY <3>1 DEF Pool!Less
  <2>2. QED
    BY <2>1
<1>3. /\ \A v \in Pool!Users : pwait'[v] = IF pwait[v] = 0 THEN 0 ELSE pwait[v] - 1
      /\ last' = IF last - 1 >= Pool!LongAgo THEN last - 1 ELSE Pool!LongAgo
      /\ plevel' = IF raced THEN 0 ELSE Pool!Less(plevel) + given
      /\ \A v \in Pool!Users : ppc[v] # "decide"
      /\ UNCHANGED <<ppc, units, plan, raced>>
  <2>1. last' = IF last - 1 >= Pool!LongAgo THEN last - 1 ELSE Pool!LongAgo
    <3>1. last - 1 \in Int
      BY <1>1
    <3>2. QED
      BY <1>1, <3>1, PoolOperators, MaxOfTwo DEF Pool!Tick
  <2>2. QED
    BY <1>1, <1>2, <2>1 DEF Pool!Tick, Pool!Deciding
<1>4. given \in Nat
  <2>1. due \subseteq Pool!Users /\ IsFiniteSet(due) /\ \A u \in due : units[u] \in Nat
    BY Costs, FS_Subset DEF Pool!Assumed, PoolInv, Pool!TypeOK
  <2>2. Pool!SumOver(units, due) \in Nat
    BY <2>1, PoolOperators, SumNat
  <2>3. QED
    BY <2>2 DEF Pool!Assumed
<1>5. ~raced => \/ due = {} /\ given = 0
                \/ \E u \in due : given = Cost(units[u])
  BY DuePermits
<1>6. /\ plevel' \in Nat
      /\ ~raced => plevel' = (IF plevel = 0 THEN 0 ELSE plevel - 1) + given
  BY <1>1, <1>2, <1>3, <1>4
<1> HIDE DEF given
<1>7. Pool!TypeOK'
  <2>1. pwait' \in [Pool!Users -> Nat]
    <3>1. \A v \in Pool!Users : Pool!Less(pwait[v]) \in Nat
      BY <1>1, <1>2
    <3>2. QED
      BY <3>1 DEF Pool!Tick
  <2>2. last' \in Int /\ last' >= Pool!LongAgo
    BY <1>1, <1>3
  <2>3. QED
    BY <1>3, <1>6, <2>1, <2>2 DEF PoolInv, Pool!TypeOK
<1>8. Decided'
  BY <1>3 DEF Decided
<1>9. \A v \in Pool!Users : Pending(v)' => Pending(v) /\ pwait'[v] = pwait[v] - 1 /\ pwait[v] >= 2
  BY <1>1, <1>3 DEF Pending
<1>10. Ahead'
  BY <1>1, <1>3, <1>9 DEF PoolInv, Ahead
<1>11. Apart'
  <2>1. ASSUME NEW u \in Pool!Users, NEW v \in Pool!Users, ~raced,
               Pending(u)', Pending(v)', u # v
        PROVE  \/ pwait'[u] + Cost(units[v]) <= pwait'[v]
               \/ pwait'[v] + Cost(units[u]) <= pwait'[u]
    <3>1. \/ pwait[u] + Cost(units[v]) <= pwait[v]
          \/ pwait[v] + Cost(units[u]) <= pwait[u]
      BY <1>9, <2>1 DEF PoolInv, Apart
    <3>2. QED
      BY <1>1, <1>9, <2>1, <3>1
  <2>2. QED
    BY <1>3, <2>1 DEF Apart
<1>12. Room'
  <2>1. SUFFICES ASSUME ~raced
        PROVE  /\ plevel' <= Cap
               /\ last' <= 0 => plevel' = 0 \/ plevel' <= Cap + last'
               /\ \A v \in Pool!Users : Pending(v)' =>
                    plevel' + Cost(units[v]) <= Cap + pwait'[v]
    BY <1>3 DEF Room
  <2>2. CASE due = {} /\ given = 0
    <3>1. plevel' = IF plevel = 0 THEN 0 ELSE plevel - 1
      BY <1>1, <1>6, <2>1, <2>2
    <3>2. plevel' <= Cap
      BY <1>1, <2>1, <3>1 DEF PoolInv, Room
    <3>3. last' <= 0 => plevel' = 0 \/ plevel' <= Cap + last'
      BY <1>1, <1>3, <2>1, <3>1 DEF PoolInv, Room
    <3>4. \A v \in Pool!Users : Pending(v)' => plevel' + Cost(units[v]) <= Cap + pwait'[v]
      BY <1>1, <1>9, <2>1, <3>1 DEF PoolInv, Room
    <3>5. QED
      BY <3>2, <3>3, <3>4
  <2>3. ASSUME NEW u \in due, given = Cost(units[u])
        PROVE  /\ plevel' <= Cap
               /\ last' <= 0 => plevel' = 0 \/ plevel' <= Cap + last'
               /\ \A v \in Pool!Users : Pending(v)' =>
                    plevel' + Cost(units[v]) <= Cap + pwait'[v]
    <3>1. u \in Pool!Users /\ Pending(u) /\ pwait[u] = 1
      BY DEF Pending
    <3>2. plevel' = (IF plevel = 0 THEN 0 ELSE plevel - 1) + Cost(units[u])
      BY <1>6, <2>1, <2>3
    <3>3. plevel' <= Cap
      BY <1>1, <2>1, <3>1, <3>2 DEF PoolInv, Room
    <3>4. last' >= 0
      BY <1>1, <1>3, <2>1, <3>1 DEF PoolInv, Ahead
    <3>5. ASSUME NEW v \in Pool!Users, Pending(v)'
          PROVE  plevel' + Cost(units[v]) <= Cap + pwait'[v]
      <4>1. Pending(v) /\ pwait'[v] = pwait[v] - 1 /\ pwait[v] >= 2 /\ v # u
        BY <1>9, <3>1, <3>5
      <4>2. \/ pwait[u] + Cost(units[v]) <= pwait[v]
            \/ pwait[v] + Cost(units[u]) <= pwait[u]
        BY <2>1, <3>1, <4>1 DEF PoolInv, Apart
      <4>3. Cost(units[v]) <= pwait'[v]
        BY <1>1, <3>1, <4>1, <4>2
      <4>4. QED
        BY <1>1, <1>6, <3>3, <4>1, <4>3
    <3>6. last' <= 0 => plevel' <= Cap + last'
      <4>1. last' \in Int
        BY <1>1, <1>3
      <4>2. last' <= 0 => last' = 0
        BY <3>4, <4>1
      <4>3. QED
        BY <1>1, <3>3, <4>2
    <3>7. QED
      BY <3>3, <3>5, <3>6
  <2>4. QED
    BY <1>5, <2>1, <2>2, <2>3
<1>13. QED
  BY <1>7, <1>8, <1>10, <1>11, <1>12 DEF PoolInv
-----------------------------------------------------------------------------
LEMMA PoolNextHolds ==
  ASSUME Pool!Assumed, PoolInv, [Pool!Next]_Pool!vars
  PROVE  PoolInv'
<1>1. CASE Pool!Tick
  BY <1>1, PoolTickStep
<1>2. ASSUME NEW u \in Pool!Users, Pool!GetWaitSec(u) \/ Pool!Store(u) \/ Pool!Acquired(u)
      PROVE  PoolInv'
  BY <1>2, GetWaitSecStep, StoreStep, AcquiredStep
<1>3. CASE UNCHANGED Pool!vars
  BY <1>3 DEF Pool!vars, PoolInv, Pool!TypeOK, Decided, Ahead, Apart, Room, Pending
<1>4. QED
  BY <1>1, <1>2, <1>3 DEF Pool!Next
-----------------------------------------------------------------------------
(* Each component takes its own steps, and rests in those of the other.    *)
THEOREM RatesInvariance == Rates => [](IInv /\ PoolInv)
<1>1. Pool!Assumed
  BY PoolAssumption DEF PoolAssumption
<1>2. RatesInit => IInv /\ PoolInv
  BY <1>1, InitHolds, PoolInitHolds DEF RatesInit
<1>3. ASSUME IInv, PoolInv, [RatesNext]_<<follows, vars, pvars>>
      PROVE  IInv' /\ PoolInv'
  <2>1. [Next]_vars
    BY <1>3 DEF RatesNext, Speed, Qps
  <2>2. [Pool!Next]_Pool!vars
    BY <1>3 DEF RatesNext, Speed, Qps, pvars, Pool!vars
  <2>3. QED
    BY <1>1, <1>3, <2>1, <2>2, NextHolds, PoolNextHolds
<1>4. QED
  BY <1>2, <1>3, PTL DEF Rates

(* Whatever the interval, a QpsPool gives in no stretch of time more       *)
(* permits than the limit allows for it and one largest request, unless    *)
(* two users were in _get_wait_sec at once.                                *)
THEOREM PermitsStaySpaced == Rates => []PermitsSpaced
<1>1. PoolInv => PermitsSpaced
  BY DEF PoolInv, Room, PermitsSpaced, Pool!PermitsSpaced, Cap
<1>2. QED
  BY <1>1, RatesInvariance, PTL
=============================================================================
