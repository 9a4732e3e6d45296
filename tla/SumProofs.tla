------------------------------ MODULE SumProofs ------------------------------
(***************************************************************************)
(* Sums over finite sets of any size.  SumFunctionOnSet is a fold, that is *)
(* a recursive function over the subsets of its index set which takes one  *)
(* chosen index at a time; the lemmas here say that the sum does not       *)
(* depend on the choice.                                                   *)
(*                                                                         *)
(* Induction is by least counterexample: natural numbers are well-founded. *)
(***************************************************************************)
EXTENDS FiniteSetsExt, Functions, FiniteSetTheorems, TLAPS

(* A set of natural numbers has a least element, the one Min chooses.      *)
LEMMA LeastNumber ==
  ASSUME NEW S \in SUBSET Nat, S # {}
  PROVE  Min(S) \in S /\ \A n \in S : Min(S) <= n
<1>1. PICK m \in S : \A n \in S : ~ (<<n, m>> \in OpToRel(<, Nat))
  <2>1. S \subseteq Nat /\ S # {} OBVIOUS
  <2> QED BY <2>1, NatLessThanWellFounded, WFMin
<1>2. \A n \in S : ~ (n < m) BY <1>1 DEF OpToRel
<1>3. \A n \in S : m <= n BY <1>2
<1> QED BY <1>3 DEF Min

(* Induction over the numbers, for a property given as a set.              *)
LEMMA NumberInduction ==
  ASSUME NEW P, 0 \in P, \A n \in Nat : n \in P => n + 1 \in P
  PROVE  Nat \subseteq P
<1> DEFINE Bad == Nat \ P
<1> SUFFICES ASSUME Bad # {} PROVE FALSE
  OBVIOUS
<1>1. PICK m \in Bad : \A n \in Bad : m <= n
  <2>1. Bad \in SUBSET Nat OBVIOUS
  <2> HIDE DEF Bad
  <2> QED BY <2>1, LeastNumber
<1>2. m # 0 /\ m - 1 \in Nat BY <1>1
<1>3. m - 1 \in P BY <1>1, <1>2
<1>4. (m - 1) + 1 \in P BY <1>2, <1>3
<1> QED BY <1>1, <1>2, <1>4

(* The size of a subset.                                                   *)
LEMMA SubsetSize ==
  ASSUME NEW S, IsFiniteSet(S), NEW T \in SUBSET S
  PROVE  IsFiniteSet(T) /\ Cardinality(T) \in Nat /\ (Cardinality(T) = 0 <=> T = {})
<1>1. IsFiniteSet(T) BY FS_Subset
<1>2. Cardinality(T) \in Nat BY <1>1, FS_CardinalityType
<1>3. Cardinality(T) = 0 <=> T = {} BY <1>1, FS_EmptySet
<1> QED BY <1>1, <1>2, <1>3

LEMMA RemoveOne ==
  ASSUME NEW S, IsFiniteSet(S), NEW T \in SUBSET S, NEW x \in T, NEW n \in Nat, Cardinality(T) = n + 1
  PROVE  Cardinality(T \ {x}) = n
<1>1. IsFiniteSet(T) BY SubsetSize
<1>2. Cardinality(T \ {x}) = Cardinality(T) - 1 BY <1>1, FS_RemoveElement
<1>3. Cardinality(T \ {x}) = (n + 1) - 1 BY <1>2
<1>4. (n + 1) - 1 = n OBVIOUS
<1> QED BY <1>3, <1>4

(* Induction over the subsets of a finite set, for a property given as a   *)
(* set of them.                                                            *)
LEMMA SetInduction ==
  ASSUME NEW S, IsFiniteSet(S), NEW P, {} \in P,
         \A T \in SUBSET S : \A x \in S \ T : T \in P => T \cup {x} \in P
  PROVE  SUBSET S \subseteq P
<1> DEFINE Q == {n \in Nat : \A T \in SUBSET S : Cardinality(T) = n => T \in P}
<1>1. 0 \in Q
  <2>1. \A T \in SUBSET S : Cardinality(T) = 0 => T = {}
    BY SubsetSize
  <2> QED BY <2>1
<1>2. ASSUME NEW n \in Nat, n \in Q PROVE n + 1 \in Q
  <2> SUFFICES ASSUME NEW T \in SUBSET S, Cardinality(T) = n + 1 PROVE T \in P
    OBVIOUS
  <2>1. IsFiniteSet(T) BY FS_Subset
  <2>2. PICK x : x \in T
    <3>1. T # {} BY SubsetSize
    <3> QED BY <3>1
  <2>3. Cardinality(T \ {x}) = n BY <2>2, RemoveOne
  <2>4. T \ {x} \in P BY <1>2, <2>3
  <2>5. (T \ {x}) \cup {x} = T BY <2>2
  <2> QED BY <2>2, <2>4, <2>5
<1>3. Nat \subseteq Q
  <2> HIDE DEF Q
  <2> QED BY <1>1, <1>2, NumberInduction
<1> QED
  <2> SUFFICES ASSUME NEW T \in SUBSET S PROVE T \in P
    OBVIOUS
  <2>1. Cardinality(T) \in Nat BY SubsetSize
  <2> QED BY <1>3, <2>1

-----------------------------------------------------------------------------
(* The fold.                                                               *)

Pick(s) == CHOOSE x \in s : TRUE

Unfolds(iter, f, S) ==
  iter = [s \in SUBSET S |-> IF s = {} THEN 0 ELSE f[Pick(s)] + iter[s \ {Pick(s)}]]

(* The fold as far as sets of n elements.                                  *)
Small(S, n) == {s \in SUBSET S : Cardinality(s) <= n}
UnfoldsTo(h, f, S, n) ==
  /\ h \in [Small(S, n) -> Nat]
  /\ \A s \in Small(S, n) : h[s] = IF s = {} THEN 0 ELSE f[Pick(s)] + h[s \ {Pick(s)}]

LEMMA PickOne ==
  ASSUME NEW S, IsFiniteSet(S), NEW s \in SUBSET S, s # {}
  PROVE  /\ Pick(s) \in s /\ Pick(s) \in S /\ s \ {Pick(s)} \in SUBSET S
         /\ Cardinality(s) \in Nat /\ Cardinality(s \ {Pick(s)}) = Cardinality(s) - 1
<1>1. Pick(s) \in s BY DEF Pick
<1>2. IsFiniteSet(s) BY FS_Subset
<1> QED BY <1>1, <1>2, FS_RemoveElement, FS_CardinalityType

LEMMA UnfoldOnce ==
  ASSUME NEW S, NEW f, NEW iter, Unfolds(iter, f, S), NEW s \in SUBSET S
  PROVE  /\ s = {} => iter[s] = 0
         /\ s # {} => iter[s] = f[Pick(s)] + iter[s \ {Pick(s)}]
<1> DEFINE body(t) == IF t = {} THEN 0 ELSE f[Pick(t)] + iter[t \ {Pick(t)}]
<1>1. iter = [t \in SUBSET S |-> body(t)] BY DEF Unfolds
<1> HIDE DEF body
<1>2. iter[s] = body(s) BY <1>1
<1> QED BY <1>2 DEF body

LEMMA FoldExists ==
  ASSUME NEW S, IsFiniteSet(S), NEW f, \A x \in S : f[x] \in Nat
  PROVE  \E iter : Unfolds(iter, f, S)
<1> DEFINE P == {n \in Nat : \E h : UnfoldsTo(h, f, S, n)}
<1>1. 0 \in P
  <2> DEFINE h == [s \in Small(S, 0) |-> 0]
  <2>1. \A s \in Small(S, 0) : s = {}
    <3> SUFFICES ASSUME NEW s \in SUBSET S, Cardinality(s) <= 0 PROVE s = {}
      BY DEF Small
    <3>1. Cardinality(s) \in Nat /\ (Cardinality(s) = 0 <=> s = {}) BY SubsetSize
    <3> QED BY <3>1
  <2>2. UnfoldsTo(h, f, S, 0) BY <2>1 DEF UnfoldsTo
  <2> QED BY <2>2
<1>2. ASSUME NEW n \in Nat, n \in P PROVE n + 1 \in P
  <2>1. PICK h : UnfoldsTo(h, f, S, n) BY <1>2
  <2> DEFINE g == [s \in Small(S, n + 1) |-> IF s = {} THEN 0 ELSE f[Pick(s)] + h[s \ {Pick(s)}]]
  <2>2. ASSUME NEW s \in Small(S, n + 1), s # {}
        PROVE  /\ s \ {Pick(s)} \in Small(S, n) /\ f[Pick(s)] \in Nat /\ h[s \ {Pick(s)}] \in Nat
    <3>1. s \in SUBSET S /\ Cardinality(s) <= n + 1 BY DEF Small
    <3>2. s \ {Pick(s)} \in Small(S, n) BY <2>2, <3>1, PickOne DEF Small
    <3> QED BY <2>1, <2>2, <3>1, <3>2, PickOne DEF UnfoldsTo
  <2>3. g \in [Small(S, n + 1) -> Nat]
    <3> DEFINE v(s) == IF s = {} THEN 0 ELSE f[Pick(s)] + h[s \ {Pick(s)}]
    <3>1. ASSUME NEW s \in Small(S, n + 1) PROVE v(s) \in Nat
      <4>1. CASE s = {} BY <4>1
      <4>2. CASE s # {}
        <5>1. f[Pick(s)] \in Nat /\ h[s \ {Pick(s)}] \in Nat BY <2>2, <4>2
        <5>2. v(s) = f[Pick(s)] + h[s \ {Pick(s)}] BY <4>2
        <5> QED BY <5>1, <5>2
      <4> QED BY <4>1, <4>2
    <3>2. g = [s \in Small(S, n + 1) |-> v(s)] OBVIOUS
    <3> HIDE DEF v, g
    <3> QED BY <3>1, <3>2
  <2>4. \A s \in Small(S, n) : s \in Small(S, n + 1) /\ g[s] = h[s]
    <3> SUFFICES ASSUME NEW s \in Small(S, n) PROVE s \in Small(S, n + 1) /\ g[s] = h[s]
      OBVIOUS
    <3>1. s \in Small(S, n + 1)
      <4>1. Cardinality(s) \in Nat BY SubsetSize DEF Small
      <4> QED BY <4>1 DEF Small
    <3> QED BY <2>1, <3>1 DEF UnfoldsTo
  <2>5. \A s \in Small(S, n + 1) : g[s] = IF s = {} THEN 0 ELSE f[Pick(s)] + g[s \ {Pick(s)}]
    BY <2>2, <2>4
  <2> HIDE DEF g
  <2>6. UnfoldsTo(g, f, S, n + 1) BY <2>3, <2>5 DEF UnfoldsTo
  <2> QED BY <2>6
<1>3. Cardinality(S) \in P
  <2> HIDE DEF P
  <2>1. Nat \subseteq P BY <1>1, <1>2, NumberInduction
  <2> QED BY <2>1, FS_CardinalityType
<1>4. PICK h : UnfoldsTo(h, f, S, Cardinality(S)) BY <1>3
<1>5. Small(S, Cardinality(S)) = SUBSET S BY FS_Subset DEF Small
<1>6. Unfolds(h, f, S) BY <1>4, <1>5 DEF UnfoldsTo, Unfolds
<1> QED BY <1>6

(* What the fold computes: a number, and the sum of any one index and the  *)
(* fold of the others.                                                     *)
LEMMA FoldType ==
  ASSUME NEW S, IsFiniteSet(S), NEW f, \A x \in S : f[x] \in Nat, NEW iter, Unfolds(iter, f, S)
  PROVE  \A s \in SUBSET S : iter[s] \in Nat
<1> DEFINE Q == {n \in Nat : \A s \in SUBSET S : Cardinality(s) = n => iter[s] \in Nat}
<1>1. 0 \in Q
  <2>1. \A T \in SUBSET S : Cardinality(T) = 0 => T = {}
    BY SubsetSize
  <2> QED BY <2>1 DEF Unfolds
<1>2. ASSUME NEW n \in Nat, n \in Q PROVE n + 1 \in Q
  <2> SUFFICES ASSUME NEW s \in SUBSET S, Cardinality(s) = n + 1 PROVE iter[s] \in Nat
    OBVIOUS
  <2>1. s # {} BY SubsetSize
  <2>2. Pick(s) \in s /\ Pick(s) \in S /\ s \ {Pick(s)} \in SUBSET S BY <2>1, PickOne
  <2>3. Cardinality(s \ {Pick(s)}) = n BY <2>2, RemoveOne
  <2>4. iter[s \ {Pick(s)}] \in Nat /\ f[Pick(s)] \in Nat BY <1>2, <2>2, <2>3
  <2>5. iter[s] = f[Pick(s)] + iter[s \ {Pick(s)}] BY <2>1, UnfoldOnce
  <2> QED BY <2>4, <2>5
<1>3. Nat \subseteq Q
  <2> HIDE DEF Q
  <2> QED BY <1>1, <1>2, NumberInduction
<1> SUFFICES ASSUME NEW s \in SUBSET S PROVE iter[s] \in Nat
  OBVIOUS
<1>4. Cardinality(s) \in Nat BY SubsetSize
<1> QED BY <1>3, <1>4

LEMMA FoldAdds ==
  ASSUME NEW S, IsFiniteSet(S), NEW f, \A x \in S : f[x] \in Nat, NEW iter, Unfolds(iter, f, S)
  PROVE  \A s \in SUBSET S : \A x \in s : iter[s] = f[x] + iter[s \ {x}]
<1> DEFINE Q == {n \in Nat : \A s \in SUBSET S :
                   Cardinality(s) = n => \A x \in s : iter[s] = f[x] + iter[s \ {x}]}
<1>1. 0 \in Q
  <2>1. \A T \in SUBSET S : Cardinality(T) = 0 => T = {}
    BY SubsetSize
  <2> QED BY <2>1
<1>2. ASSUME NEW n \in Nat, n \in Q PROVE n + 1 \in Q
  <2> SUFFICES ASSUME NEW s \in SUBSET S, Cardinality(s) = n + 1, NEW x \in s
               PROVE  iter[s] = f[x] + iter[s \ {x}]
    OBVIOUS
  <2> DEFINE p == Pick(s)
  <2>1. /\ p \in s /\ s \ {p} \in SUBSET S /\ Cardinality(s \ {p}) = n
        /\ iter[s] = f[p] + iter[s \ {p}]
    <3>1. s # {} OBVIOUS
    <3>2. p \in s /\ s \ {p} \in SUBSET S BY <3>1, PickOne
    <3>3. Cardinality(s \ {p}) = n BY <3>2, RemoveOne
    <3>4. iter[s] = f[p] + iter[s \ {p}] BY <3>1, UnfoldOnce
    <3> QED BY <3>2, <3>3, <3>4
  <2> HIDE DEF p
  <2>2. CASE x = p BY <2>1, <2>2
  <2>3. CASE x # p
    <3>1. iter[s \ {p}] = f[x] + iter[(s \ {p}) \ {x}]
      BY <1>2, <2>1, <2>3
    <3>2. iter[s \ {x}] = f[p] + iter[(s \ {x}) \ {p}]
      <4>1. s \ {x} \in SUBSET S /\ p \in s \ {x} BY <2>1, <2>3
      <4>2. Cardinality(s \ {x}) = n BY RemoveOne
      <4> QED BY <1>2, <4>1, <4>2
    <3>3. (s \ {p}) \ {x} = (s \ {x}) \ {p} OBVIOUS
    <3>4. iter[(s \ {x}) \ {p}] \in Nat /\ f[x] \in Nat /\ f[p] \in Nat
      BY <2>1, FoldType
    <3>5. f[p] + (f[x] + iter[(s \ {x}) \ {p}]) = f[x] + (f[p] + iter[(s \ {x}) \ {p}])
      <4> DEFINE r == iter[(s \ {x}) \ {p}]
                 a == f[p]
                 b == f[x]
      <4>1. r \in Nat /\ a \in Nat /\ b \in Nat BY <3>4
      <4> HIDE DEF r, a, b
      <4>2. a + (b + r) = b + (a + r) BY <4>1
      <4> QED BY <4>2 DEF r, a, b
    <3> QED BY <2>1, <3>1, <3>2, <3>3, <3>5
  <2> QED BY <2>2, <2>3
<1>3. Nat \subseteq Q
  <2> HIDE DEF Q
  <2> QED BY <1>1, <1>2, NumberInduction
<1> SUFFICES ASSUME NEW s \in SUBSET S PROVE \A x \in s : iter[s] = f[x] + iter[s \ {x}]
  OBVIOUS
<1>4. Cardinality(s) \in Nat BY SubsetSize
<1> QED BY <1>3, <1>4

-----------------------------------------------------------------------------
(* The sum of a function over a finite set of indices.                     *)

LEMMA SumIsFold ==
  ASSUME NEW S, IsFiniteSet(S), NEW f, \A x \in S : f[x] \in Nat
  PROVE  \E iter : Unfolds(iter, f, S) /\ SumFunctionOnSet(f, S) = iter[S]
<1> DEFINE it == CHOOSE iter : Unfolds(iter, f, S)
<1>1. SumFunctionOnSet(f, S) = it[S]
  BY DEF SumFunctionOnSet, FoldFunctionOnSet, MapThenFoldSet, Unfolds, Pick
<1>2. Unfolds(it, f, S) BY FoldExists
<1> QED BY <1>1, <1>2

(* Two folds agree on the sets that both of them know.                     *)
LEMMA FoldsAgree ==
  ASSUME NEW S, IsFiniteSet(S), NEW f, \A x \in S : f[x] \in Nat,
         NEW iter, Unfolds(iter, f, S),
         NEW T \in SUBSET S, NEW jter, Unfolds(jter, f, T)
  PROVE  iter[T] = jter[T]
<1> DEFINE Q == {s \in SUBSET T : iter[s] = jter[s]}
<1>1. {} \in Q
  <2>1. {} \in SUBSET S /\ {} \in SUBSET T OBVIOUS
  <2>2. iter[{}] = 0 BY <2>1, UnfoldOnce
  <2>3. jter[{}] = 0 BY <2>1, UnfoldOnce
  <2> QED BY <2>1, <2>2, <2>3
<1>2. ASSUME NEW s \in SUBSET T, NEW x \in T \ s, s \in Q PROVE s \cup {x} \in Q
  <2> DEFINE u == s \cup {x}
  <2>1. u \in SUBSET T /\ u \in SUBSET S /\ x \in u /\ u \ {x} = s OBVIOUS
  <2>2. IsFiniteSet(T) /\ \A y \in T : f[y] \in Nat BY SubsetSize
  <2> HIDE DEF u
  <2>3. iter[u] = f[x] + iter[s] BY <2>1, FoldAdds
  <2>4. jter[u] = f[x] + jter[s] BY <2>1, <2>2, FoldAdds
  <2>5. iter[s] = jter[s] BY <1>2
  <2>6. iter[u] = jter[u] BY <2>3, <2>4, <2>5
  <2> QED BY <2>1, <2>6 DEF u
<1>3. IsFiniteSet(T) BY SubsetSize
<1> HIDE DEF Q
<1>4. SUBSET T \subseteq Q BY <1>1, <1>2, <1>3, SetInduction
<1> QED BY <1>4 DEF Q

LEMMA SumEmpty == ASSUME NEW f PROVE SumFunctionOnSet(f, {}) = 0
<1>1. IsFiniteSet({}) BY FS_EmptySet
<1>2. PICK iter : Unfolds(iter, f, {}) /\ SumFunctionOnSet(f, {}) = iter[{}] BY <1>1, SumIsFold
<1>3. {} \in SUBSET {} OBVIOUS
<1> QED BY <1>2, <1>3, UnfoldOnce

LEMMA SumType ==
  ASSUME NEW S, IsFiniteSet(S), NEW f, \A x \in S : f[x] \in Nat
  PROVE  SumFunctionOnSet(f, S) \in Nat
<1>1. PICK iter : Unfolds(iter, f, S) /\ SumFunctionOnSet(f, S) = iter[S] BY SumIsFold
<1>2. S \in SUBSET S OBVIOUS
<1> QED BY <1>1, <1>2, FoldType

(* Any one index can be taken out first.                                   *)
LEMMA SumTakesOut ==
  ASSUME NEW S, IsFiniteSet(S), NEW f, \A x \in S : f[x] \in Nat, NEW x \in S
  PROVE  SumFunctionOnSet(f, S) = f[x] + SumFunctionOnSet(f, S \ {x})
<1> DEFINE T == S \ {x}
<1>1. T \in SUBSET S OBVIOUS
<1>2. IsFiniteSet(T) BY <1>1, SubsetSize
<1>3. \A y \in T : f[y] \in Nat OBVIOUS
<1> HIDE DEF T
<1>4. PICK iter : Unfolds(iter, f, S) /\ SumFunctionOnSet(f, S) = iter[S] BY SumIsFold
<1>5. PICK jter : Unfolds(jter, f, T) /\ SumFunctionOnSet(f, T) = jter[T] BY <1>2, <1>3, SumIsFold
<1>6. iter[T] = jter[T] BY <1>1, <1>4, <1>5, FoldsAgree
<1>7. iter[S] = f[x] + iter[S \ {x}]
  <2>1. S \in SUBSET S OBVIOUS
  <2> QED BY <1>4, <2>1, FoldAdds
<1> QED BY <1>4, <1>5, <1>6, <1>7 DEF T

(* A sum does not change when its indices are renamed one to one.          *)
LEMMA SumRenamed ==
  ASSUME NEW S, IsFiniteSet(S), NEW f, \A x \in S : f[x] \in Nat,
         NEW h, NEW g, \A x \in S : g[h[x]] = f[x],
         \A x, y \in S : h[x] = h[y] => x = y
  PROVE  SumFunctionOnSet(g, {h[x] : x \in S}) = SumFunctionOnSet(f, S)
<1> DEFINE Im(s) == {h[x] : x \in s}
           Q == {s \in SUBSET S : IsFiniteSet(Im(s)) /\ SumFunctionOnSet(g, Im(s)) = SumFunctionOnSet(f, s)}
<1>1. {} \in Q
  <2>1. Im({}) = {} OBVIOUS
  <2>2. IsFiniteSet({}) BY FS_EmptySet
  <2> HIDE DEF Im
  <2> QED BY <2>1, <2>2, SumEmpty
<1>2. ASSUME NEW s \in SUBSET S, NEW x \in S \ s, s \in Q PROVE s \cup {x} \in Q
  <2> DEFINE u == s \cup {x}
  <2>1. u \in SUBSET S /\ x \in u /\ u \ {x} = s OBVIOUS
  <2>2. Im(u) = Im(s) \cup {h[x]} OBVIOUS
  <2>3. h[x] \notin Im(s) OBVIOUS
  <2>4. \A y \in Im(u) : g[y] \in Nat OBVIOUS
  <2>5. IsFiniteSet(Im(s)) /\ SumFunctionOnSet(g, Im(s)) = SumFunctionOnSet(f, s) BY <1>2
  <2>6. g[h[x]] = f[x] OBVIOUS
  <2> HIDE DEF u, Im
  <2>7. IsFiniteSet(Im(u)) BY <2>2, <2>5, FS_AddElement
  <2>8. Im(u) \ {h[x]} = Im(s) /\ h[x] \in Im(u) BY <2>2, <2>3
  <2>9. SumFunctionOnSet(g, Im(u)) = g[h[x]] + SumFunctionOnSet(g, Im(u) \ {h[x]})
    BY <2>4, <2>7, <2>8, SumTakesOut
  <2>10. IsFiniteSet(u) /\ \A y \in u : f[y] \in Nat BY <2>1, SubsetSize
  <2>11. SumFunctionOnSet(f, u) = f[x] + SumFunctionOnSet(f, u \ {x}) BY <2>1, <2>10, SumTakesOut
  <2>12. SumFunctionOnSet(g, Im(u)) = SumFunctionOnSet(f, u)
    BY <2>1, <2>5, <2>6, <2>8, <2>9, <2>11
  <2> QED BY <2>1, <2>7, <2>12 DEF u
<1> HIDE DEF Q
<1>3. SUBSET S \subseteq Q BY <1>1, <1>2, SetInduction
<1>4. S \in Q BY <1>3
<1> QED BY <1>4 DEF Q

(* The sum over two sets of indices with none in common.                   *)
LEMMA SumUnion ==
  ASSUME NEW S, IsFiniteSet(S), NEW f, \A x \in S : f[x] \in Nat,
         NEW A \in SUBSET S, NEW B \in SUBSET S, A \cap B = {}
  PROVE  SumFunctionOnSet(f, A \cup B) = SumFunctionOnSet(f, A) + SumFunctionOnSet(f, B)
<1> DEFINE Q == {s \in SUBSET B :
                   SumFunctionOnSet(f, A \cup s) = SumFunctionOnSet(f, A) + SumFunctionOnSet(f, s)}
<1>0. IsFiniteSet(A) /\ IsFiniteSet(B) BY SubsetSize
<1>1. {} \in Q
  <2>1. A \cup {} = A OBVIOUS
  <2>2. SumFunctionOnSet(f, A) \in Nat BY <1>0, SumType
  <2>3. SumFunctionOnSet(f, {}) = 0 BY SumEmpty
  <2> QED BY <2>1, <2>2, <2>3
<1>2. ASSUME NEW s \in SUBSET B, NEW x \in B \ s, s \in Q PROVE s \cup {x} \in Q
  <2> DEFINE u == s \cup {x}
             w == A \cup u
  <2>1. /\ u \in SUBSET S /\ x \in u /\ u \ {x} = s
        /\ w \in SUBSET S /\ x \in w /\ w \ {x} = A \cup s /\ s \in SUBSET S
    OBVIOUS
  <2>2. SumFunctionOnSet(f, A \cup s) = SumFunctionOnSet(f, A) + SumFunctionOnSet(f, s) BY <1>2
  <2>3. f[x] \in Nat /\ u \in SUBSET B OBVIOUS
  <2> HIDE DEF u, w
  <2>4. IsFiniteSet(u) /\ IsFiniteSet(w) /\ IsFiniteSet(s) BY <2>1, SubsetSize
  <2>5. SumFunctionOnSet(f, u) = f[x] + SumFunctionOnSet(f, u \ {x}) BY <2>1, <2>4, SumTakesOut
  <2>6. SumFunctionOnSet(f, w) = f[x] + SumFunctionOnSet(f, w \ {x}) BY <2>1, <2>4, SumTakesOut
  <2>7. SumFunctionOnSet(f, A) \in Nat /\ SumFunctionOnSet(f, s) \in Nat BY <1>0, <2>1, <2>4, SumType
  <2>8. /\ SumFunctionOnSet(f, w) = f[x] + (SumFunctionOnSet(f, A) + SumFunctionOnSet(f, s))
        /\ SumFunctionOnSet(f, u) = f[x] + SumFunctionOnSet(f, s)
    BY <2>1, <2>2, <2>5, <2>6
  <2>9. SumFunctionOnSet(f, w) = SumFunctionOnSet(f, A) + SumFunctionOnSet(f, u)
    BY <2>3, <2>7, <2>8
  <2> QED BY <2>3, <2>9 DEF u, w
<1> HIDE DEF Q
<1>3. IsFiniteSet(B) BY <1>0
<1>4. \A s \in SUBSET B : \A x \in B \ s : s \in Q => s \cup {x} \in Q BY <1>2
<1>5. SUBSET B \subseteq Q BY ONLY <1>3, <1>1, <1>4, SetInduction
<1>6. B \in Q BY <1>5
<1> QED BY <1>6 DEF Q
=============================================================================
