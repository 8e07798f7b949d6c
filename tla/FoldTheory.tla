----------------------------- MODULE FoldTheory -----------------------------
(***************************************************************************)
(* What a fold over a finite set computes.  MapThenFoldSet, and with it    *)
(* FoldLeft and MapThenSumSet, is a recursive function over the subsets of *)
(* the set; the lemmas here say that this recursion has a solution and     *)
(* what it gives for one element more.  The operation and the order of the *)
(* elements are constants: a module that folds with others instantiates    *)
(* this one.                                                               *)
(***************************************************************************)
EXTENDS Naturals, Sequences, FiniteSets, Folds, FiniteSetTheorems,
        SequenceTheorems, WellFoundedInduction, TLAPS

CONSTANTS
    Op(_, _),    \* combines an element with the fold of the others
    Choose(_)    \* the element that is combined last

Fold(base, f, S) == MapThenFoldSet(Op, base, LAMBDA x : f[x], Choose, S)

(* Choose picks a member of every set it will be asked about.              *)
Chooses(S) == \A T \in SUBSET S : T # {} => Choose(T) \in T

(* g solves the recursion of Fold over the subsets of S.                   *)
Step(base, f, g, s) == IF s = {} THEN base ELSE Op(f[Choose(s)], g[s \ {Choose(s)}])
IsFold(base, f, S, g) == g = [s \in SUBSET S |-> Step(base, f, g, s)]

-----------------------------------------------------------------------------
(* ---- Induction ---- *)

(* Every set of naturals has a least member.                               *)
LEMMA NatMinimum ==
    ASSUME NEW T, T \subseteq Nat, T # {}
    PROVE  \E x \in T : \A y \in T : x <= y
  <1> DEFINE R == OpToRel(<, Nat)
  <1>1. IsWellFoundedOn(R, Nat)
    BY NatLessThanWellFounded
  <1> HIDE DEF R
  <1>2. PICK x \in T : \A y \in T : ~ (<<y, x>> \in R)
    BY <1>1, WFMin
  <1>3. ASSUME NEW y \in T PROVE x <= y
    <2>1. x \in Nat /\ y \in Nat
      OBVIOUS
    <2>2. ~(y < x)
      BY <1>2, <2>1 DEF R, OpToRel
    <2> QED
      BY <2>1, <2>2
  <1> QED
    BY <1>3

(* Induction over the naturals, the induction hypothesis being a set.      *)
LEMMA NatInduct ==
    ASSUME NEW S, 0 \in S, \A n \in Nat : n \in S => n + 1 \in S
    PROVE  \A n \in Nat : n \in S
  <1> DEFINE T == Nat \ S
  <1> SUFFICES ASSUME T # {} PROVE FALSE
    OBVIOUS
  <1>1. PICK x \in T : \A y \in T : x <= y
    BY NatMinimum
  <1>2. x \in Nat /\ x # 0 /\ x \notin S
    OBVIOUS
  <1>3. x - 1 \in Nat /\ ~(x <= x - 1) /\ (x - 1) + 1 = x
    BY <1>2
  <1> QED
    BY <1>1, <1>2, <1>3

(* Induction over the subsets of a finite set: what holds of a set if it   *)
(* holds of the set without any one of its members, holds of all.          *)
LEMMA SubsetInduct ==
    ASSUME NEW S, IsFiniteSet(S), NEW P,
           \A T \in SUBSET S : (\A x \in T : T \ {x} \in P) => T \in P
    PROVE  \A T \in SUBSET S : T \in P
  <1> DEFINE Bad == {T \in SUBSET S : T \notin P}
             K == {Cardinality(T) : T \in Bad}
  <1> SUFFICES ASSUME Bad # {} PROVE FALSE
    OBVIOUS
  <1>1. \A T \in SUBSET S : IsFiniteSet(T) /\ Cardinality(T) \in Nat
    BY FS_Subset, FS_CardinalityType
  <1>2. K \subseteq Nat /\ K # {}
    BY <1>1
  <1>3. PICK k \in K : \A j \in K : k <= j
    BY <1>2, NatMinimum
  <1>4. PICK T \in Bad : Cardinality(T) = k
    OBVIOUS
  <1>5. ASSUME NEW x \in T PROVE T \ {x} \in P
    <2>1. /\ Cardinality(T \ {x}) = Cardinality(T) - 1
          /\ Cardinality(T) \in Nat /\ Cardinality(T \ {x}) \in Nat
          /\ T \ {x} \in SUBSET S
      BY <1>1, FS_RemoveElement
    <2>2. ~(k <= Cardinality(T \ {x}))
      BY <1>4, <2>1
    <2>3. T \ {x} \notin Bad
      BY <1>3, <2>2
    <2> QED
      BY <2>1, <2>3
  <1> QED
    BY <1>5

(* Induction over sequences, by what is appended to them.                  *)
LEMMA SeqInduct ==
    ASSUME NEW D, NEW P, <<>> \in P,
           \A q \in Seq(D), e \in D : q \in P => Append(q, e) \in P
    PROVE  \A q \in Seq(D) : q \in P
  <1> DEFINE N == {n \in Nat : \A q \in Seq(D) : Len(q) = n => q \in P}
  <1>1. 0 \in N
    <2>1. \A q \in Seq(D) : Len(q) = 0 => q = <<>>
      BY EmptySeq
    <2> QED
      BY <2>1
  <1>2. ASSUME NEW n \in Nat, n \in N PROVE n + 1 \in N
    <2> SUFFICES ASSUME NEW q \in Seq(D), Len(q) = n + 1 PROVE q \in P
      OBVIOUS
    <2>1. q # <<>>
      OBVIOUS
    <2>2. PICK s \in Seq(D), e \in D : q = Append(s, e)
      BY <2>1, SequenceEmptyOrAppend
    <2>3. Len(s) = n
      BY <2>2, AppendProperties
    <2> QED
      BY <1>2, <2>2, <2>3
  <1> HIDE DEF N
  <1>3. \A n \in Nat : n \in N
    BY <1>1, <1>2, NatInduct
  <1>4. \A q \in Seq(D) : Len(q) \in Nat
    OBVIOUS
  <1> QED
    BY <1>3, <1>4 DEF N

-----------------------------------------------------------------------------
(* ---- The recursion of a fold ---- *)

(* Fold is what the solution of its recursion gives for the whole set.     *)
LEMMA FoldDef ==
    ASSUME NEW base, NEW f, NEW S
    PROVE  Fold(base, f, S) = (CHOOSE g : IsFold(base, f, S, g))[S]
  BY DEF Fold, MapThenFoldSet, IsFold, Step

(* The recursion has a solution: it is built up by cardinality.            *)
LEMMA FoldExists ==
    ASSUME NEW base, NEW f, NEW S, IsFiniteSet(S), Chooses(S)
    PROVE  \E g : IsFold(base, f, S, g)
  <1> DEFINE D(n) == {s \in SUBSET S : Cardinality(s) <= n}
             Solves(n, g) == g = [s \in D(n) |-> Step(base, f, g, s)]
             P == {n \in Nat : \E g : Solves(n, g)}
  <1>1. \A s \in SUBSET S : IsFiniteSet(s) /\ Cardinality(s) \in Nat
                            /\ (Cardinality(s) = 0 <=> s = {})
    BY FS_Subset, FS_CardinalityType, FS_EmptySet
  <1>2. 0 \in P
    <2> DEFINE g == [s \in D(0) |-> base]
    <2>1. \A s \in D(0) : s = {}
      BY <1>1
    <2>2. Solves(0, g)
      BY <2>1 DEF Step
    <2> QED
      BY <2>2
  <1>3. ASSUME NEW n \in Nat, n \in P PROVE n + 1 \in P
    <2>1. PICK g : Solves(n, g)
      BY <1>3
    <2> DEFINE h == [s \in D(n + 1) |-> Step(base, f, g, s)]
    <2>2. ASSUME NEW s \in D(n + 1) PROVE Step(base, f, g, s) = Step(base, f, h, s)
      <3>1. CASE s = {}
        BY <3>1 DEF Step
      <3>2. CASE s # {}
        <4> DEFINE r == s \ {Choose(s)}
        <4>1. Choose(s) \in s /\ s \in SUBSET S
          BY <3>2 DEF Chooses
        <4>2. Cardinality(r) = Cardinality(s) - 1 /\ r \in SUBSET S
          BY <1>1, <4>1, FS_RemoveElement
        <4>3. r \in D(n) /\ r \in D(n + 1)
          BY <1>1, <4>1, <4>2
        <4> HIDE DEF D, r
        <4>4. g[r] = Step(base, f, g, r)
          BY <2>1, <4>3
        <4>5. h[r] = g[r]
          BY <4>3, <4>4
        <4> QED
          BY <3>2, <4>5 DEF Step, r
      <3> QED
        BY <3>1, <3>2
    <2> HIDE DEF D
    <2>3. Solves(n + 1, h)
      BY <2>2
    <2> HIDE DEF Solves, h
    <2> QED
      BY <2>3
  <1> HIDE DEF P
  <1>4. \A n \in Nat : n \in P
    BY <1>2, <1>3, NatInduct
  <1>5. Cardinality(S) \in Nat /\ D(Cardinality(S)) = SUBSET S
    BY <1>1, FS_Subset, FS_CardinalityType
  <1>6. PICK g : Solves(Cardinality(S), g)
    BY <1>4, <1>5 DEF P
  <1> HIDE DEF D
  <1> QED
    BY <1>5, <1>6 DEF IsFold

(* Two solutions agree where their sets and their functions do.            *)
LEMMA FoldAgrees ==
    ASSUME NEW base, NEW f, NEW S, NEW g, IsFold(base, f, S, g),
           NEW h, NEW T, NEW k, IsFold(base, h, T, k),
           IsFiniteSet(T), Chooses(T), T \subseteq S, \A x \in T : f[x] = h[x]
    PROVE  \A U \in SUBSET T : g[U] = k[U]
  <1> DEFINE P == {U \in SUBSET T : g[U] = k[U]}
  <1>1. ASSUME NEW U \in SUBSET T, \A x \in U : U \ {x} \in P PROVE U \in P
    <2>1. g[U] = Step(base, f, g, U) /\ k[U] = Step(base, h, k, U)
      BY DEF IsFold
    <2>2. CASE U = {}
      BY <2>1, <2>2 DEF Step
    <2>3. CASE U # {}
      <3>1. Choose(U) \in U
        BY <2>3 DEF Chooses
      <3>2. g[U \ {Choose(U)}] = k[U \ {Choose(U)}] /\ f[Choose(U)] = h[Choose(U)]
        BY <1>1, <3>1
      <3> QED
        BY <2>1, <2>3, <3>2 DEF Step
    <2> QED
      BY <2>2, <2>3
  <1> HIDE DEF P
  <1>2. \A U \in SUBSET T : U \in P
    BY <1>1, SubsetInduct
  <1> QED
    BY <1>2 DEF P

-----------------------------------------------------------------------------
(* ---- What a fold gives ---- *)

(* The fold of nothing is the base.                                        *)
LEMMA FoldEmpty ==
    ASSUME NEW base, NEW f
    PROVE  Fold(base, f, {}) = base
  <1>1. Chooses({}) /\ IsFiniteSet({})
    BY FS_EmptySet DEF Chooses
  <1>2. \E g : IsFold(base, f, {}, g)
    BY <1>1, FoldExists
  <1>3. IsFold(base, f, {}, CHOOSE g : IsFold(base, f, {}, g))
    BY <1>2
  <1> QED
    BY <1>3, FoldDef DEF IsFold, Step

(* A fold depends on its function only through the set's own elements.     *)
LEMMA FoldEqual ==
    ASSUME NEW base, NEW f, NEW h, NEW S, IsFiniteSet(S), Chooses(S),
           \A x \in S : f[x] = h[x]
    PROVE  Fold(base, f, S) = Fold(base, h, S)
  <1> DEFINE g == CHOOSE e : IsFold(base, f, S, e)
             k == CHOOSE e : IsFold(base, h, S, e)
  <1>1. IsFold(base, f, S, g) /\ IsFold(base, h, S, k)
    BY FoldExists
  <1>2. Fold(base, f, S) = g[S] /\ Fold(base, h, S) = k[S]
    BY FoldDef
  <1> HIDE DEF g, k
  <1> QED
    BY <1>1, <1>2, FoldAgrees

(* The element chosen from a set is combined with the fold of the others.  *)
LEMMA FoldStep ==
    ASSUME NEW base, NEW f, NEW S, IsFiniteSet(S), Chooses(S), S # {}
    PROVE  Fold(base, f, S) = Op(f[Choose(S)], Fold(base, f, S \ {Choose(S)}))
  <1> DEFINE T == S \ {Choose(S)}
             g == CHOOSE e : IsFold(base, f, S, e)
             k == CHOOSE e : IsFold(base, f, T, e)
  <1>1. IsFiniteSet(T) /\ Chooses(T) /\ T \subseteq S
    BY FS_RemoveElement DEF Chooses
  <1>2. IsFold(base, f, S, g)
    BY FoldExists
  <1>3. IsFold(base, f, T, k)
    BY <1>1, FoldExists
  <1>4. Fold(base, f, S) = g[S] /\ Fold(base, f, T) = k[T]
    BY FoldDef
  <1> HIDE DEF g, k, T
  <1>5. g[T] = k[T]
    BY <1>1, <1>2, <1>3, FoldAgrees
  <1>6. g[S] = Op(f[Choose(S)], g[T])
    BY <1>2 DEF IsFold, Step, T
  <1> QED
    BY <1>4, <1>5, <1>6 DEF T

(* If the operation stays within a set, so does the fold.                  *)
LEMMA FoldType ==
    ASSUME NEW D, NEW base \in D, NEW f, NEW S, IsFiniteSet(S), Chooses(S),
           \A x \in S : \A d \in D : Op(f[x], d) \in D
    PROVE  Fold(base, f, S) \in D
  <1> DEFINE P == {T \in SUBSET S : Fold(base, f, T) \in D}
  <1>1. ASSUME NEW T \in SUBSET S, \A x \in T : T \ {x} \in P PROVE T \in P
    <2>1. IsFiniteSet(T) /\ Chooses(T)
      BY FS_Subset DEF Chooses
    <2>2. CASE T = {}
      BY <2>2, FoldEmpty
    <2>3. CASE T # {}
      <3>1. Choose(T) \in T
        BY <2>1, <2>3 DEF Chooses
      <3>2. Fold(base, f, T \ {Choose(T)}) \in D
        BY <1>1, <3>1
      <3>3. Fold(base, f, T) = Op(f[Choose(T)], Fold(base, f, T \ {Choose(T)}))
        BY <2>1, <2>3, FoldStep
      <3> QED
        BY <3>1, <3>2, <3>3
    <2> QED
      BY <2>2, <2>3
  <1> HIDE DEF P
  <1>2. \A T \in SUBSET S : T \in P
    BY <1>1, SubsetInduct
  <1> QED
    BY <1>2 DEF P

(* On D the operation may be applied in any order.                         *)
Commutes(D) ==
    /\ \A a, b \in D : Op(a, b) \in D
    /\ \A a, b, c \in D : Op(a, Op(b, c)) = Op(b, Op(a, c))

(* If the operation is associative and commutative, any element may be the *)
(* one that is combined last.                                              *)
LEMMA FoldAny ==
    ASSUME NEW D, NEW base \in D, NEW f, NEW S, IsFiniteSet(S), Chooses(S),
           Commutes(D), \A x \in S : f[x] \in D, NEW e \in S
    PROVE  Fold(base, f, S) = Op(f[e], Fold(base, f, S \ {e}))
  <1> DEFINE F(T) == Fold(base, f, T)
             P == {T \in SUBSET S : \A x \in T : F(T) = Op(f[x], F(T \ {x}))}
  <1>1. \A T \in SUBSET S : IsFiniteSet(T) /\ Chooses(T)
    BY FS_Subset DEF Chooses
  <1>2. ASSUME NEW T \in SUBSET S PROVE F(T) \in D
    BY <1>1, FoldType DEF Commutes
  <1>3. \A T \in SUBSET S : T # {} => Choose(T) \in T /\ F(T) = Op(f[Choose(T)], F(T \ {Choose(T)}))
    BY <1>1, FoldStep DEF Chooses
  <1> HIDE DEF F
  <1>4. ASSUME NEW T \in SUBSET S, \A x \in T : T \ {x} \in P PROVE T \in P
    <2> SUFFICES ASSUME NEW x \in T PROVE F(T) = Op(f[x], F(T \ {x}))
      OBVIOUS
    <2> DEFINE c == Choose(T)
               U == T \ {c, x}
    <2>1. c \in T /\ F(T) = Op(f[c], F(T \ {c}))
      BY <1>3
    <2>2. CASE c = x
      BY <2>1, <2>2
    <2>3. CASE c # x
      <3>1. /\ (T \ {c}) \ {x} = U /\ (T \ {x}) \ {c} = U
            /\ x \in T \ {c} /\ c \in T \ {x} /\ U \in SUBSET S
        BY <2>1, <2>3
      <3>2. F(T \ {c}) = Op(f[x], F(U))
        <4>1. \A y \in T \ {c} : F(T \ {c}) = Op(f[y], F((T \ {c}) \ {y}))
          BY <1>4, <2>1
        <4> QED
          BY <3>1, <4>1
      <3>3. F(T \ {x}) = Op(f[c], F(U))
        <4>1. \A y \in T \ {x} : F(T \ {x}) = Op(f[y], F((T \ {x}) \ {y}))
          BY <1>4
        <4> QED
          BY <3>1, <4>1
      <3>4. f[c] \in D /\ f[x] \in D /\ F(U) \in D
        BY <1>2, <2>1, <3>1
      <3> HIDE DEF c, U
      <3>5. Op(f[c], Op(f[x], F(U))) = Op(f[x], Op(f[c], F(U)))
        BY <3>4 DEF Commutes
      <3> QED
        BY <2>1, <3>2, <3>3, <3>5
    <2> QED
      BY <2>2, <2>3
  <1> HIDE DEF P
  <1>5. \A T \in SUBSET S : T \in P
    BY <1>4, SubsetInduct
  <1> QED
    BY <1>5 DEF P, F

-----------------------------------------------------------------------------
(* ---- Sequences and their folds ---- *)

(* An element appended to the second part is appended to both.             *)
LEMMA AppendToConcat ==
    ASSUME NEW S, NEW p \in Seq(S), NEW q \in Seq(S), NEW e \in S
    PROVE  p \o Append(q, e) = Append(p \o q, e)
  <1>1. <<e>> \in Seq(S) /\ p \o q \in Seq(S)
    BY ConcatProperties
  <1>2. Append(q, e) = q \o <<e>> /\ Append(p \o q, e) = (p \o q) \o <<e>>
    BY <1>1, AppendIsConcat
  <1>3. (p \o q) \o <<e>> = p \o (q \o <<e>>)
    BY <1>1, ConcatAssociative
  <1> QED
    BY <1>2, <1>3

(* A concatenation is cut back into its two parts.                         *)
LEMMA CutConcat ==
    ASSUME NEW S, NEW s \in Seq(S), NEW t \in Seq(S)
    PROVE  /\ SubSeq(s \o t, 1, Len(s)) = s
           /\ SubSeq(s \o t, Len(s) + 1, Len(s \o t)) = t
  <1>1. Len(s) \in Nat /\ Len(t) \in Nat /\ Len(s \o t) = Len(s) + Len(t) /\ s \o t \in Seq(S)
    BY ConcatProperties, LenProperties
  <1>2. SubSeq(s \o t, 1, Len(s)) = s
    <2>1. CASE Len(s) = 0
      <3>1. s = <<>>
        BY <2>1, EmptySeq
      <3> QED
        BY <1>1, <2>1, <3>1, SubSeqEmpty
    <2>2. CASE Len(s) # 0
      <3>1. 1 \in 1 .. Len(s) /\ Len(s) \in 1 .. Len(s)
        BY <1>1, <2>2
      <3>2. SubSeq(s \o t, 1, Len(s)) = SubSeq(s, 1, Len(s))
        BY <3>1, SubSeqOfConcat1
      <3> QED
        BY <3>2, SubSeqFull
    <2> QED
      BY <2>1, <2>2
  <1>3. SubSeq(s \o t, Len(s) + 1, Len(s \o t)) = t
    <2>1. CASE Len(t) = 0
      <3>1. t = <<>>
        BY <2>1, EmptySeq
      <3> QED
        BY <1>1, <2>1, <3>1, SubSeqEmpty
    <2>2. CASE Len(t) # 0
      <3> DEFINE m == Len(s) + 1
                 n == Len(s) + Len(t)
      <3>1. /\ m \in Len(s) + 1 .. Len(s) + Len(t)
            /\ n \in Len(s) + 1 .. Len(s) + Len(t)
            /\ m - Len(s) = 1 /\ n - Len(s) = Len(t)
        BY <1>1, <2>2
      <3> HIDE DEF m, n
      <3>2. SubSeq(s \o t, m, n) = SubSeq(t, m - Len(s), n - Len(s))
        BY <3>1, SubSeqOfConcat2
      <3>3. SubSeq(s \o t, m, n) = t
        BY <3>1, <3>2, SubSeqFull
      <3> QED
        BY <1>1, <3>3 DEF m, n
    <2> QED
      BY <2>1, <2>2
  <1> QED
    BY <1>2, <1>3

(* The middle of three parts, and what follows it.                         *)
LEMMA CutMiddle ==
    ASSUME NEW S, NEW a \in Seq(S), NEW b \in Seq(S), NEW c \in Seq(S)
    PROVE  LET s == a \o b \o c
           IN  /\ s \in Seq(S) /\ Len(s) = Len(a) + Len(b) + Len(c)
               /\ SubSeq(s, Len(a) + 1, Len(a) + Len(b)) = b
               /\ SubSeq(s, Len(a) + Len(b) + 1, Len(s)) = c
  <1> DEFINE s == a \o b \o c
             m == Len(a)
             n == Len(a) + Len(b)
             w == SubSeq(s, m + 1, n)
  <1>1. /\ a \o b \in Seq(S) /\ Len(a \o b) = n
        /\ m \in Nat /\ Len(b) \in Nat /\ Len(c) \in Nat /\ n \in Nat
        /\ \A i \in 1 .. n : (a \o b)[i] = IF i <= m THEN a[i] ELSE b[i - m]
    BY ConcatProperties, LenProperties
  <1>2. s \in Seq(S) /\ Len(s) = n + Len(c) /\ \A i \in 1 .. n : s[i] = (a \o b)[i]
    <2>1. /\ (a \o b) \o c \in Seq(S) /\ Len((a \o b) \o c) = Len(a \o b) + Len(c)
          /\ \A i \in 1 .. Len(a \o b) + Len(c) :
                ((a \o b) \o c)[i] = IF i <= Len(a \o b) THEN (a \o b)[i] ELSE c[i - Len(a \o b)]
      BY <1>1, ConcatProperties
    <2> HIDE DEF n
    <2> QED
      BY <1>1, <2>1
  <1>3. SubSeq(s, n + 1, Len(s)) = c
    <2>1. SubSeq((a \o b) \o c, Len(a \o b) + 1, Len((a \o b) \o c)) = c
      BY <1>1, CutConcat
    <2> QED
      BY <1>1, <2>1
  <1> HIDE DEF s
  <1>4. \A i \in m + 1 .. n : s[i] \in S /\ s[i] = b[i - m]
    <2>1. \A i \in m + 1 .. n : i \in 1 .. n /\ ~(i <= m) /\ i - m \in 1 .. Len(b)
      BY <1>1
    <2>2. \A i \in 1 .. Len(b) : b[i] \in S
      BY ElementOfSeq
    <2> QED
      BY <1>1, <1>2, <2>1, <2>2
  <1>5. /\ w \in Seq(S) /\ Len(w) = IF m + 1 <= n THEN n - (m + 1) + 1 ELSE 0
        /\ \A i \in 1 .. n - (m + 1) + 1 : w[i] = s[(m + 1) + i - 1]
    <2> HIDE DEF m, n
    <2>1. m + 1 \in Int /\ n \in Int
      BY <1>1
    <2> QED
      BY <1>4, <2>1, SubSeqProperties
  <1>6. Len(w) = Len(b)
    BY <1>1, <1>5
  <1>7. ASSUME NEW i \in 1 .. Len(b) PROVE w[i] = b[i]
    <2>1. /\ i \in 1 .. n - (m + 1) + 1 /\ (m + 1) + i - 1 \in m + 1 .. n
          /\ ((m + 1) + i - 1) - m = i
      BY <1>1
    <2> HIDE DEF w, m, n
    <2> QED
      BY <1>4, <1>5, <2>1
  <1>8. w = b
    <2> HIDE DEF w
    <2> QED
      BY <1>5, <1>6, <1>7, SeqEqual
  <1> QED
    BY <1>2, <1>3, <1>8 DEF s

(* Choose picks the last index of a sequence's domain, as FoldLeft does.   *)
ChoosesLast ==
    \A n \in Nat : \A T \in SUBSET (1 .. n) :
        T # {} => Choose(T) \in T /\ \A y \in T : y <= Choose(T)

(* Every set of indices has a greatest one.                                *)
LEMMA IndexMaximum ==
    ASSUME NEW n \in Nat, NEW T \in SUBSET (1 .. n), T # {}
    PROVE  \E x \in T : \A y \in T : y <= x
  <1> DEFINE B == {m \in Nat : \A y \in T : y <= m}
  <1>1. n \in B
    OBVIOUS
  <1>2. PICK m \in B : \A k \in B : m <= k
    BY <1>1, NatMinimum
  <1>3. m \in T
    <2> SUFFICES ASSUME m \notin T PROVE FALSE
      OBVIOUS
    <2>1. PICK y \in T : TRUE
      OBVIOUS
    <2>2. y \in Nat /\ 1 <= y /\ y <= m /\ m \in Nat
      BY <1>2
    <2>3. m - 1 \in Nat /\ ~(m <= m - 1)
      BY <2>2
    <2>4. ASSUME NEW z \in T PROVE z <= m - 1
      <3>1. z \in Nat /\ z <= m /\ z # m
        OBVIOUS
      <3> QED
        BY <2>2, <3>1
    <2> QED
      BY <1>2, <2>3, <2>4
  <1> QED
    BY <1>3

(* The maximum of a set of indices is its greatest one.                    *)
LEMMA LastOfIndices ==
    ASSUME NEW n \in Nat, NEW T \in SUBSET (1 .. n), T # {},
           NEW m, m = CHOOSE x \in T : \A y \in T : x >= y
    PROVE  m \in T /\ \A y \in T : y <= m
  <1>1. \E x \in T : \A y \in T : y <= x
    BY IndexMaximum
  <1>2. \A x, y \in T : x >= y <=> y <= x
    OBVIOUS
  <1>3. \E x \in T : \A y \in T : x >= y
    BY <1>1, <1>2
  <1>4. m \in T /\ \A y \in T : m >= y
    BY <1>3
  <1> QED
    BY <1>2, <1>4

(* The empty sequence folds to the base.                                   *)
LEMMA FoldEmptySeq ==
    ASSUME NEW base
    PROVE  Fold(base, <<>>, DOMAIN <<>>) = base
  <1>1. DOMAIN <<>> = {}
    OBVIOUS
  <1> QED
    BY <1>1, FoldEmpty

(* An element appended to a sequence is combined with the fold before it.  *)
LEMMA FoldAppend ==
    ASSUME ChoosesLast, NEW D, NEW q \in Seq(D), NEW e \in D, NEW base
    PROVE  Fold(base, Append(q, e), DOMAIN Append(q, e))
           = Op(e, Fold(base, q, DOMAIN q))
  <1> DEFINE r == Append(q, e)
             n == Len(q)
  <1>1. /\ n \in Nat /\ DOMAIN q = 1 .. n /\ DOMAIN r = 1 .. n + 1
        /\ r[n + 1] = e /\ \A i \in 1 .. n : r[i] = q[i]
    OBVIOUS
  <1> HIDE DEF r, n
  <1>2. IsFiniteSet(1 .. n) /\ IsFiniteSet(1 .. n + 1)
    BY <1>1, FS_Interval
  <1>3. n + 1 \in Nat /\ Chooses(1 .. n) /\ Chooses(1 .. n + 1)
    <2>1. \A m \in Nat : Chooses(1 .. m)
      BY DEF Chooses, ChoosesLast
    <2>2. n + 1 \in Nat
      BY <1>1
    <2> QED
      BY <1>1, <2>1, <2>2
  <1>4. Choose(1 .. n + 1) = n + 1
    <2>1. n + 1 \in 1 .. n + 1
      BY <1>1
    <2>2. Choose(1 .. n + 1) \in 1 .. n + 1 /\ n + 1 <= Choose(1 .. n + 1)
      BY <1>3, <2>1 DEF ChoosesLast
    <2> QED
      BY <1>1, <2>2
  <1>5. (1 .. n + 1) \ {n + 1} = 1 .. n /\ 1 .. n + 1 # {}
    <2>1. \A i : i \in (1 .. n + 1) \ {n + 1} <=> i \in 1 .. n
      BY <1>1
    <2>2. n + 1 \in 1 .. n + 1
      BY <1>1
    <2> QED
      BY <2>1, <2>2
  <1>6. Fold(base, r, 1 .. n + 1) = Op(r[n + 1], Fold(base, r, 1 .. n))
    <2> DEFINE S == 1 .. n + 1
    <2>1. IsFiniteSet(S) /\ Chooses(S) /\ S # {}
      BY <1>2, <1>3, <1>5
    <2>2. Choose(S) = n + 1 /\ S \ {n + 1} = 1 .. n
      BY <1>4, <1>5
    <2> HIDE DEF S
    <2>3. Fold(base, r, S) = Op(r[Choose(S)], Fold(base, r, S \ {Choose(S)}))
      BY <2>1, FoldStep
    <2> QED
      BY <2>2, <2>3 DEF S
  <1>7. Fold(base, r, 1 .. n) = Fold(base, q, 1 .. n)
    BY <1>1, <1>2, <1>3, FoldEqual
  <1> QED
    BY <1>1, <1>6, <1>7 DEF r
=============================================================================
