------------------------------- MODULE FoldLaws -------------------------------
(***************************************************************************)
(* What FoldLeft computes: the laws by which the proofs reason about the   *)
(* sums and the replays of a log, for every operation and every sequence.  *)
(* FoldLeft is a recursion over the subsets of the sequence's domain; the  *)
(* recursion is well founded because these subsets are finite.             *)
(***************************************************************************)
EXTENDS SequencesExt, Integers, FiniteSetTheorems, TLAPS

CONSTANT Op(_, _)  \* the operation folded

\* The fold of s that starts from b.
Fold(b, s) == FoldLeft(Op, b, s)

\* g folds s on every subset of A, where p picks the element folded last.
Folds(b, g, A, s, p) ==
    g = [t \in SUBSET A |-> IF t = {} THEN b ELSE Op(g[t \ {p[t]}], s[p[t]])]

Picks(p, A) == \A t \in SUBSET A : t # {} => p[t] \in t

\* A fold of a sequence picks the greatest index.
Greatest(A) == [t \in SUBSET A |-> Max(t)]

-----------------------------------------------------------------------------
(* Induction over the subsets of a finite set *)

\* T is a family of subsets of the finite set S; x is a smallest of T.
Family(T, S) == IsFiniteSet(S) /\ T \subseteq SUBSET S /\ T # {}
Smallest(x, T) == x \in T /\ \A y \in T : y \subseteq x => y = x

\* A family of subsets of a finite set has a smallest.
LEMMA SmallestSet ==
    ASSUME NEW S, NEW T, Family(T, S)
    PROVE  \E x : Smallest(x, T)
<1>. IsFiniteSet(S) /\ T \subseteq SUBSET S /\ T # {}
  BY DEF Family
<1>1. FiniteSubsetsOf(S) = SUBSET S
  BY FS_FiniteSubsetsOfFinite
<1>2. IsWellFoundedOn(StrictSubsetOrdering(S), SUBSET S)
  BY <1>1, FS_StrictSubsetOrderingWellFounded
<1>3. PICK x \in T : \A y \in T : <<y, x>> \notin StrictSubsetOrdering(S)
  BY <1>2, WFMin
<1>4. QED
  BY <1>3 DEF StrictSubsetOrdering, Smallest

\* A finite set of integers that is not empty has a greatest element.
LEMMA MaxIsGreatest ==
    ASSUME NEW t \in SUBSET Int, IsFiniteSet(t), t # {}
    PROVE  Max(t) \in t /\ \A y \in t : Max(t) >= y
<1>. DEFINE Above(x) == {y \in t : y > x}
            T == {Above(x) : x \in t}
<1>1. Family(T, t)
  BY DEF Family
<1>2. \A z \in t : Above(z) \in T
  OBVIOUS
<1>3. \A u \in T : \E x \in t : u = Above(x)
  OBVIOUS
<1>. HIDE DEF T
<1>4. PICK u : Smallest(u, T)
  BY <1>1, SmallestSet
<1>5. PICK x \in t : u = Above(x)
  BY <1>3, <1>4 DEF Smallest
<1>6. \A z \in Above(x) : FALSE
  <2>. SUFFICES ASSUME NEW z \in Above(x) PROVE FALSE
    OBVIOUS
  <2>1. z \in t /\ z > x /\ \A y \in t : y \in Int
    OBVIOUS
  <2>2. Above(z) \subseteq Above(x) /\ z \notin Above(z)
    <3>1. \A y \in t : y > z => y > x
      BY <2>1
    <3>2. ~ (z > z)
      BY <2>1
    <3>3. QED
      BY <3>1, <3>2
  <2>3. Above(z) = Above(x)
    BY <1>2, <1>4, <1>5, <2>1, <2>2 DEF Smallest
  <2>4. QED
    BY <2>2, <2>3
<1>7. x \in t /\ \A y \in t : x >= y
  BY <1>6
<1>8. QED
  BY <1>7 DEF Max

\* A finite set of integers that is not empty.
Numbers(t) == t \subseteq Int /\ IsFiniteSet(t) /\ t # {}

\* One of them is the greatest.
LEMMA GreatestOf ==
    ASSUME NEW t, Numbers(t)
    PROVE  \E n \in t : \A y \in t : n >= y
<1>1. Max(t) \in t /\ \A y \in t : Max(t) >= y
  BY MaxIsGreatest DEF Numbers
<1> QED
  BY <1>1

\* s and r have the same elements at the places of A.
SameAt(s, r, A) == \A i \in A : s[i] = r[i]

-----------------------------------------------------------------------------
(* The recursion of a fold has one solution *)

\* g folds s on A, and h folds on B, a part of A, what s is there.
FoldPart(b, g, A, s, h, B, r, p, q) ==
    /\ IsFiniteSet(A) /\ B \subseteq A
    /\ Picks(p, A) /\ SameAt(p, q, SUBSET B)
    /\ Folds(b, g, A, s, p) /\ Folds(b, h, B, r, q)
    /\ SameAt(s, r, B)

\* Two solutions agree wherever the sequences they fold do.
LEMMA FoldsAgree ==
    ASSUME NEW b, NEW g, NEW A, NEW s, NEW h, NEW B, NEW r, NEW p, NEW q,
           FoldPart(b, g, A, s, h, B, r, p, q)
    PROVE  g[B] = h[B]
<1>. /\ IsFiniteSet(A) /\ B \subseteq A
     /\ Picks(p, A) /\ SameAt(p, q, SUBSET B)
     /\ Folds(b, g, A, s, p) /\ Folds(b, h, B, r, q)
     /\ SameAt(s, r, B)
  BY DEF FoldPart
<1>. DEFINE T == {u \in SUBSET B : g[u] # h[u]}
<1>. SUFFICES ASSUME g[B] # h[B] PROVE FALSE
  OBVIOUS
<1>0. Family(T, B)
  BY FS_Subset DEF Family
<1>9. \A u \in SUBSET B : g[u] # h[u] => u \in T
  OBVIOUS
<1>10. \A u \in T : u \in SUBSET B /\ g[u] # h[u]
  OBVIOUS
<1>. HIDE DEF T
<1>1. PICK u : Smallest(u, T)
  BY <1>0, SmallestSet
<1>2. u \in SUBSET B /\ u \in SUBSET A /\ g[u] # h[u]
  BY <1>1, <1>10 DEF Smallest
<1>3. /\ g[u] = IF u = {} THEN b ELSE Op(g[u \ {p[u]}], s[p[u]])
      /\ h[u] = IF u = {} THEN b ELSE Op(h[u \ {p[u]}], r[p[u]])
  BY <1>2 DEF Folds, SameAt
<1>4. u # {}
  BY <1>2, <1>3
<1>5. p[u] \in u
  BY <1>2, <1>4 DEF Picks
<1>6. g[u \ {p[u]}] = h[u \ {p[u]}]
  BY <1>1, <1>2, <1>5, <1>9 DEF Smallest
<1>7. s[p[u]] = r[p[u]]
  BY <1>2, <1>5 DEF SameAt
<1>8. QED
  BY <1>2, <1>3, <1>4, <1>6, <1>7

\* There is a solution.
LEMMA FoldsExist ==
    ASSUME NEW b, NEW A, IsFiniteSet(A), NEW s, NEW p, Picks(p, A)
    PROVE  \E g : Folds(b, g, A, s, p)
<1>. DEFINE T == {a \in SUBSET A : ~ \E g : Folds(b, g, a, s, p)}
<1>. SUFFICES ASSUME ~ \E g : Folds(b, g, A, s, p) PROVE FALSE
  OBVIOUS
<1>0. Family(T, A)
  BY DEF Family
<1>10. \A u \in SUBSET A : u \notin T => \E g : Folds(b, g, u, s, p)
  OBVIOUS
<1>11. \A u \in T : u \in SUBSET A /\ ~ \E g : Folds(b, g, u, s, p)
  OBVIOUS
<1>. HIDE DEF T
<1>1. PICK a : Smallest(a, T)
  BY <1>0, SmallestSet
<1>2. a \in SUBSET A /\ ~ \E g : Folds(b, g, a, s, p)
  BY <1>1, <1>11 DEF Smallest
<1>. DEFINE Sol(u) == CHOOSE g : Folds(b, g, u, s, p)
            Less(t) == t \ {p[t]}
            G == [t \in SUBSET a |-> IF t = {} THEN b ELSE Op(Sol(Less(t))[Less(t)], s[p[t]])]
<1>3. \A u \in SUBSET a : u # a => \E g : Folds(b, g, u, s, p)
  BY <1>1, <1>2, <1>10 DEF Smallest
<1>4. \A u \in SUBSET a : u # a => Folds(b, Sol(u), u, s, p)
  <2>. SUFFICES ASSUME NEW u \in SUBSET a, u # a PROVE Folds(b, Sol(u), u, s, p)
    OBVIOUS
  <2>1. \E g : Folds(b, g, u, s, p)
    BY <1>3
  <2>2. QED
    BY <2>1
<1>. HIDE DEF Sol
<1>5. \A t \in SUBSET a : t # {} => Less(t) \in SUBSET a /\ Less(t) # a /\ Less(t) \subseteq t
  <2>. SUFFICES ASSUME NEW t \in SUBSET a, t # {} PROVE Less(t) # a
    OBVIOUS
  <2>1. p[t] \in t
    BY <1>2 DEF Picks
  <2>2. QED
    BY <2>1
<1>. HIDE DEF Less
<1>6. \A u \in SUBSET a : u # a => G[u] = Sol(u)[u]
  <2>. SUFFICES ASSUME NEW u \in SUBSET a, u # a PROVE G[u] = Sol(u)[u]
    OBVIOUS
  <2>1. G[u] = IF u = {} THEN b ELSE Op(Sol(Less(u))[Less(u)], s[p[u]])
    OBVIOUS
  <2>2. Sol(u)[u] = IF u = {} THEN b ELSE Op(Sol(u)[Less(u)], s[p[u]])
    BY <1>4 DEF Folds, Less
  <2>3. CASE u = {}
    BY <2>1, <2>2, <2>3
  <2>4. CASE u # {}
    <3>1. Less(u) \in SUBSET a /\ Less(u) # a /\ Less(u) \subseteq u
      BY <1>5, <2>4
    <3>2. Folds(b, Sol(u), u, s, p) /\ Folds(b, Sol(Less(u)), Less(u), s, p)
      BY <1>4, <3>1
    <3>3. IsFiniteSet(u) /\ Picks(p, u)
      BY <1>2, FS_Subset DEF Picks
    <3>4. FoldPart(b, Sol(u), u, s, Sol(Less(u)), Less(u), s, p, p)
      BY <3>1, <3>2, <3>3 DEF FoldPart, SameAt
    <3>5. Sol(u)[Less(u)] = Sol(Less(u))[Less(u)]
      BY <3>4, FoldsAgree
    <3>6. QED
      BY <2>1, <2>2, <2>4, <3>5
  <2>5. QED
    BY <2>3, <2>4
<1>. HIDE DEF G
<1>7. \A t \in SUBSET a : t # {} => Sol(Less(t))[Less(t)] = G[t \ {p[t]}]
  BY <1>5, <1>6 DEF Less
<1>8. G = [t \in SUBSET a |-> IF t = {} THEN b ELSE Op(G[t \ {p[t]}], s[p[t]])]
  <2>1. G = [t \in SUBSET a |-> IF t = {} THEN b ELSE Op(Sol(Less(t))[Less(t)], s[p[t]])]
    BY DEF G
  <2>2. \A t \in SUBSET a :
           (IF t = {} THEN b ELSE Op(Sol(Less(t))[Less(t)], s[p[t]]))
              = (IF t = {} THEN b ELSE Op(G[t \ {p[t]}], s[p[t]]))
    BY <1>7
  <2>3. QED
    BY <2>1, <2>2
<1>9. QED
  BY <1>2, <1>8 DEF Folds

-----------------------------------------------------------------------------
(* The laws *)

\* FoldLeft is such a solution.
LEMMA FoldIsASolution ==
    ASSUME NEW b, NEW s, IsFiniteSet(DOMAIN s), DOMAIN s \subseteq Int
    PROVE  /\ Picks(Greatest(DOMAIN s), DOMAIN s)
           /\ \E g : Folds(b, g, DOMAIN s, s, Greatest(DOMAIN s)) /\ Fold(b, s) = g[DOMAIN s]
<1>. DEFINE iter == CHOOSE g : g = [t \in SUBSET DOMAIN s |->
                                      IF t = {} THEN b ELSE Op(g[t \ {Max(t)}], s[Max(t)])]
            p == Greatest(DOMAIN s)
<1>1. Fold(b, s) = iter[DOMAIN s]
  BY DEF Fold, FoldLeft, MapThenFoldSet
<1>2. \A t \in SUBSET DOMAIN s : p[t] = Max(t)
  BY DEF Greatest
<1>3. Picks(p, DOMAIN s)
  BY <1>2, FS_Subset, MaxIsGreatest DEF Picks
<1>. HIDE DEF p
<1>4. \A g : Folds(b, g, DOMAIN s, s, p) <=>
             g = [t \in SUBSET DOMAIN s |-> IF t = {} THEN b ELSE Op(g[t \ {Max(t)}], s[Max(t)])]
  <2>. SUFFICES ASSUME NEW g
                PROVE  Folds(b, g, DOMAIN s, s, p) <=>
                         g = [t \in SUBSET DOMAIN s |->
                                IF t = {} THEN b ELSE Op(g[t \ {Max(t)}], s[Max(t)])]
    OBVIOUS
  <2>1. [t \in SUBSET DOMAIN s |-> IF t = {} THEN b ELSE Op(g[t \ {p[t]}], s[p[t]])]
          = [t \in SUBSET DOMAIN s |-> IF t = {} THEN b ELSE Op(g[t \ {Max(t)}], s[Max(t)])]
    BY <1>2
  <2>2. QED
    BY <2>1 DEF Folds
<1>5. \E g : Folds(b, g, DOMAIN s, s, p)
  BY <1>3, FoldsExist
<1>6. iter = [t \in SUBSET DOMAIN s |-> IF t = {} THEN b ELSE Op(iter[t \ {Max(t)}], s[Max(t)])]
  BY <1>4, <1>5
<1>. HIDE DEF iter
<1>7. Folds(b, iter, DOMAIN s, s, p)
  BY <1>4, <1>6
<1>8. QED
  BY <1>1, <1>3, <1>7 DEF p

\* Nothing is folded of the empty sequence.
LEMMA FoldEmpty ==
    ASSUME NEW b
    PROVE  Fold(b, <<>>) = b
<1>1. DOMAIN <<>> = {} /\ IsFiniteSet({})
  BY FS_EmptySet
<1>2. PICK g : /\ Folds(b, g, DOMAIN <<>>, <<>>, Greatest(DOMAIN <<>>))
               /\ Fold(b, <<>>) = g[DOMAIN <<>>]
  BY <1>1, FoldIsASolution
<1>3. g[{}] = b
  BY <1>1, <1>2 DEF Folds
<1>4. QED
  BY <1>1, <1>2, <1>3

\* The last element is folded last.
LEMMA FoldAppend ==
    ASSUME NEW b, NEW S, NEW s \in Seq(S), NEW e
    PROVE  Fold(b, Append(s, e)) = Op(Fold(b, s), e)
<1>. DEFINE n == Len(s)
            r == Append(s, e)
<1>1. /\ n \in Nat /\ DOMAIN s = 1 .. n /\ DOMAIN r = 1 .. n + 1
      /\ r[n + 1] = e /\ \A i \in 1 .. n : r[i] = s[i]
  OBVIOUS
<1>. HIDE DEF n, r
<1>2. /\ 1 .. n \subseteq Int /\ 1 .. n + 1 \subseteq Int
      /\ (1 .. n + 1) \ {n + 1} = 1 .. n /\ n + 1 \in 1 .. n + 1
      /\ 1 .. n \subseteq 1 .. n + 1
  BY <1>1
<1>9. IsFiniteSet(1 .. n) /\ IsFiniteSet(1 .. n + 1)
  <2>1. 1 \in Int /\ n \in Int /\ n + 1 \in Int
    BY <1>1
  <2>2. QED
    BY <2>1, FS_Interval
<1>3. PICK g : Folds(b, g, 1 .. n, s, Greatest(1 .. n)) /\ Fold(b, s) = g[1 .. n]
  BY <1>1, <1>2, <1>9, FoldIsASolution
<1>4. /\ Picks(Greatest(1 .. n + 1), 1 .. n + 1)
      /\ \E h : Folds(b, h, 1 .. n + 1, r, Greatest(1 .. n + 1)) /\ Fold(b, r) = h[1 .. n + 1]
  <2>1. IsFiniteSet(DOMAIN r) /\ DOMAIN r \subseteq Int
    BY <1>1, <1>2, <1>9
  <2>2. /\ Picks(Greatest(DOMAIN r), DOMAIN r)
        /\ \E h : Folds(b, h, DOMAIN r, r, Greatest(DOMAIN r)) /\ Fold(b, r) = h[DOMAIN r]
    BY <2>1, FoldIsASolution
  <2>3. QED
    BY <1>1, <2>2
<1>10. PICK h : Folds(b, h, 1 .. n + 1, r, Greatest(1 .. n + 1)) /\ Fold(b, r) = h[1 .. n + 1]
  BY <1>4
<1>5. Max(1 .. n + 1) = n + 1
  <2>1. Max(1 .. n + 1) \in 1 .. n + 1 /\ \A y \in 1 .. n + 1 : Max(1 .. n + 1) >= y
    BY <1>2, <1>9, MaxIsGreatest
  <2>2. QED
    BY <1>1, <1>2, <2>1
<1>6. h[1 .. n + 1] = Op(h[1 .. n], e)
  <2>1. h[1 .. n + 1] = Op(h[(1 .. n + 1) \ {Max(1 .. n + 1)}], r[Max(1 .. n + 1)])
    BY <1>2, <1>10 DEF Folds, Greatest
  <2>2. QED
    BY <1>1, <1>2, <1>5, <2>1
<1>7. g[1 .. n] = h[1 .. n]
  <2>1. SameAt(r, s, 1 .. n)
    BY <1>1 DEF SameAt
  <2>4. SameAt(Greatest(1 .. n + 1), Greatest(1 .. n), SUBSET (1 .. n))
    BY <1>2 DEF SameAt, Greatest
  <2>2. FoldPart(b, h, 1 .. n + 1, r, g, 1 .. n, s, Greatest(1 .. n + 1), Greatest(1 .. n))
    BY <1>2, <1>3, <1>4, <1>9, <1>10, <2>1, <2>4 DEF FoldPart
  <2>3. h[1 .. n] = g[1 .. n]
    BY <2>2, FoldsAgree
  <2>5. QED
    BY <2>3
<1>8. QED
  BY <1>3, <1>10, <1>6, <1>7 DEF r

\* A sequence that is not empty is folded up to its last element, then by it.
LEMMA FoldLast ==
    ASSUME NEW b, NEW S, NEW s \in Seq(S), Len(s) > 0
    PROVE  Fold(b, s) = Op(Fold(b, SubSeq(s, 1, Len(s) - 1)), s[Len(s)])
<1>. DEFINE f == SubSeq(s, 1, Len(s) - 1)
<1>1. f \in Seq(S) /\ s = Append(f, s[Len(s)])
  OBVIOUS
<1>. HIDE DEF f
<1>2. Fold(b, Append(f, s[Len(s)])) = Op(Fold(b, f), s[Len(s)])
  BY <1>1, FoldAppend
<1>3. QED
  BY <1>1, <1>2 DEF f

\* The operation leads from R into R by what is in S.
Keeps(R, S) == \A x \in R, e \in S : Op(x, e) \in R

\* g folds s on A from a b in R, and s has its values on A in S.
FoldWithin(b, g, A, s, p, R, S) ==
    /\ IsFiniteSet(A) /\ Picks(p, A)
    /\ Folds(b, g, A, s, p)
    /\ b \in R /\ \A i \in A : s[i] \in S

\* The solution stays where the operation keeps it.
LEMMA FoldsStay ==
    ASSUME NEW b, NEW g, NEW A, NEW s, NEW p, NEW R, NEW S,
           FoldWithin(b, g, A, s, p, R, S), Keeps(R, S)
    PROVE  g[A] \in R
<1>. /\ IsFiniteSet(A) /\ Picks(p, A)
     /\ Folds(b, g, A, s, p)
     /\ b \in R /\ \A i \in A : s[i] \in S
  BY DEF FoldWithin
<1>. DEFINE T == {u \in SUBSET A : g[u] \notin R}
<1>. SUFFICES ASSUME g[A] \notin R PROVE FALSE
  OBVIOUS
<1>1. Family(T, A)
  BY DEF Family
<1>2. \A u \in SUBSET A : u \notin T => g[u] \in R
  OBVIOUS
<1>3. \A u \in T : u \in SUBSET A /\ g[u] \notin R
  OBVIOUS
<1>. HIDE DEF T
<1>4. PICK u : Smallest(u, T)
  BY <1>1, SmallestSet
<1>5. u \in SUBSET A /\ g[u] \notin R
  BY <1>3, <1>4 DEF Smallest
<1>6. g[u] = IF u = {} THEN b ELSE Op(g[u \ {p[u]}], s[p[u]])
  BY <1>5 DEF Folds
<1>7. u # {} /\ p[u] \in u
  BY <1>5, <1>6 DEF Picks
<1>8. u \ {p[u]} \in SUBSET A /\ u \ {p[u]} \notin T
  BY <1>4, <1>5, <1>7 DEF Smallest
<1>9. g[u \ {p[u]}] \in R /\ s[p[u]] \in S
  BY <1>2, <1>5, <1>7, <1>8
<1>10. QED
  BY <1>5, <1>6, <1>7, <1>9 DEF Keeps

\* The fold stays where the operation keeps it.
LEMMA FoldStays ==
    ASSUME NEW R, NEW b \in R, NEW S, NEW s \in Seq(S), Keeps(R, S)
    PROVE  Fold(b, s) \in R
<1>. DEFINE A == DOMAIN s
            p == Greatest(A)
<1>1. A = 1 .. Len(s) /\ Len(s) \in Nat /\ \A i \in A : s[i] \in S
  OBVIOUS
<1>2. IsFiniteSet(A) /\ A \subseteq Int
  <2>1. 1 \in Int /\ Len(s) \in Int
    BY <1>1
  <2>2. QED
    BY <1>1, <2>1, FS_Interval
<1>. HIDE DEF A
<1>3. Picks(p, A) /\ \E g : Folds(b, g, A, s, p) /\ Fold(b, s) = g[A]
  BY <1>2, FoldIsASolution DEF A
<1>. HIDE DEF p
<1>4. PICK g : Folds(b, g, A, s, p) /\ Fold(b, s) = g[A]
  BY <1>3
<1>5. FoldWithin(b, g, A, s, p, R, S)
  BY <1>1, <1>2, <1>3, <1>4 DEF FoldWithin
<1>6. QED
  BY <1>4, <1>5, FoldsStay

=============================================================================
