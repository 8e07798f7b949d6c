--------------------------- MODULE DbWorkerProofs ---------------------------
(***************************************************************************)
(* Proofs about DbWorker, for any number of miners, shares, events and     *)
(* minutes and every batch size and retention time.                        *)
(***************************************************************************)
EXTENDS DbWorker, FiniteSetTheorems, SequenceTheorems, TLAPS

-----------------------------------------------------------------------------
(* ---- The folds of DbWorker ---- *)

Plus(x, y) == x + y
SomeOf(s) == CHOOSE x \in s : TRUE
Sums == INSTANCE FoldTheory WITH Op <- Plus, Choose <- SomeOf

LastIndex(s) == Max(s)
Upsert(s, t) == [t EXCEPT ![s.addr] = UpsertStats(@, s)]
Stored == INSTANCE FoldTheory WITH Op <- Upsert, Choose <- LastIndex

TakeShare(ev, q) == IF ev.kind = "share" THEN Append(q, ev.share) ELSE q
Queued == INSTANCE FoldTheory WITH Op <- TakeShare, Choose <- LastIndex

Sum(f, S) == MapThenSumSet(LAMBDA x : f[x], S)
SharesOf(q) ==
    FoldLeft(LAMBDA s, ev : IF ev.kind = "share" THEN Append(s, ev.share) ELSE s, <<>>, q)

(* The operators are the ones the theory speaks about.                     *)
LEMMA SumIsFold == ASSUME NEW f, NEW S PROVE Sum(f, S) = Sums!Fold(0, f, S)
  BY DEF Sum, MapThenSumSet, MapThenFoldSet, Sums!Fold, Sums!MapThenFoldSet, Plus, SomeOf

(* WithShares is a fold of the batch.                                      *)
LEMMA WithSharesIsFold ==
    ASSUME NEW st, NEW b
    PROVE  WithShares(st, b) = Stored!Fold(st, b, DOMAIN b)
  BY DEF WithShares, FoldLeft, MapThenFoldSet, Stored!Fold, Stored!MapThenFoldSet, Upsert, LastIndex

(* The queued shares are a fold of the queue.                              *)
LEMMA SharesOfIsFold ==
    ASSUME NEW q
    PROVE  SharesOf(q) = Queued!Fold(<<>>, q, DOMAIN q)
  BY DEF SharesOf, FoldLeft, MapThenFoldSet, Queued!Fold, Queued!MapThenFoldSet, TakeShare, LastIndex

(* Finite sets are the same in every instance.                             *)
LEMMA SameFinite == ASSUME NEW S PROVE IsFiniteSet(S) <=> Sums!IsFiniteSet(S)
  BY DEF IsFiniteSet, Sums!IsFiniteSet

(* SomeOf picks a member of every set.                                     *)
LEMMA AnyChooses == ASSUME NEW S PROVE Sums!Chooses(S)
  BY DEF Sums!Chooses, SomeOf

(* LastIndex is the last index of a sequence's domain.                     *)
LEMMA LastChooses == Stored!ChoosesLast /\ Queued!ChoosesLast
  <1>1. ASSUME NEW n \in Nat, NEW T \in SUBSET (1 .. n), T # {}
        PROVE  LastIndex(T) \in T /\ \A y \in T : y <= LastIndex(T)
    <2>1. LastIndex(T) = CHOOSE x \in T : \A y \in T : x >= y
      BY DEF LastIndex, Max
    <2> QED
      BY <1>1, <2>1, Sums!LastOfIndices
  <1> QED
    BY <1>1 DEF Stored!ChoosesLast, Queued!ChoosesLast

-----------------------------------------------------------------------------
(* ---- Sums ---- *)

(* The sum over no elements is 0.                                          *)
LEMMA SumEmpty == ASSUME NEW f PROVE Sum(f, {}) = 0
  BY SumIsFold, Sums!FoldEmpty

(* A sum of naturals is a natural.                                         *)
LEMMA SumType ==
    ASSUME NEW S, IsFiniteSet(S), NEW f, \A x \in S : f[x] \in Nat
    PROVE  Sum(f, S) \in Nat
  <1>1. \A x \in S : \A d \in Nat : Plus(f[x], d) \in Nat
    BY DEF Plus
  <1>2. 0 \in Nat /\ Sums!IsFiniteSet(S) /\ Sums!Chooses(S)
    BY SameFinite, AnyChooses
  <1>3. Sums!Fold(0, f, S) \in Nat
    BY <1>1, <1>2, Sums!FoldType
  <1> QED
    BY <1>3, SumIsFold

(* A sum only looks at its own elements.                                   *)
LEMMA SumEqual ==
    ASSUME NEW S, IsFiniteSet(S), NEW f, NEW g, \A x \in S : f[x] = g[x]
    PROVE  Sum(f, S) = Sum(g, S)
  <1>1. Sums!IsFiniteSet(S) /\ Sums!Chooses(S)
    BY SameFinite, AnyChooses
  <1>2. Sums!Fold(0, f, S) = Sums!Fold(0, g, S)
    BY <1>1, Sums!FoldEqual
  <1> QED
    BY <1>2, SumIsFold

(* An element counts once, whatever the order of the sum.                  *)
LEMMA SumSplit ==
    ASSUME NEW S, IsFiniteSet(S), NEW f, \A x \in S : f[x] \in Nat, NEW e \in S
    PROVE  Sum(f, S) = f[e] + Sum(f, S \ {e})
  <1>1. Sums!IsFiniteSet(S) /\ Sums!Chooses(S) /\ 0 \in Nat
    BY SameFinite, AnyChooses
  <1>2. Sums!Commutes(Nat)
    BY DEF Sums!Commutes, Plus
  <1>3. Sums!Fold(0, f, S) = Plus(f[e], Sums!Fold(0, f, S \ {e}))
    BY <1>1, <1>2, Sums!FoldAny
  <1> QED
    BY <1>3, SumIsFold DEF Plus

(* Larger terms do not make a smaller sum.                                 *)
LEMMA SumMonotone ==
    ASSUME NEW S, IsFiniteSet(S), NEW f, NEW g,
           \A x \in S : f[x] \in Nat /\ g[x] \in Nat /\ f[x] <= g[x]
    PROVE  Sum(f, S) <= Sum(g, S)
  <1> DEFINE P == {T \in SUBSET S : Sum(f, T) <= Sum(g, T)}
  <1>1. ASSUME NEW T \in SUBSET S, \A x \in T : T \ {x} \in P PROVE T \in P
    <2>1. CASE T = {}
      <3>1. Sum(f, T) = 0 /\ Sum(g, T) = 0
        BY <2>1, SumEmpty
      <3> QED
        BY <3>1
    <2>2. CASE T # {}
      <3>1. PICK x \in T : TRUE
        BY <2>2
      <3>2. IsFiniteSet(T) /\ IsFiniteSet(T \ {x})
        BY FS_Subset
      <3>3. /\ Sum(f, T) = f[x] + Sum(f, T \ {x})
            /\ Sum(g, T) = g[x] + Sum(g, T \ {x})
        BY <3>2, SumSplit
      <3>4. Sum(f, T \ {x}) \in Nat /\ Sum(g, T \ {x}) \in Nat
        BY <3>2, SumType
      <3>5. Sum(f, T \ {x}) <= Sum(g, T \ {x}) /\ f[x] \in Nat /\ g[x] \in Nat /\ f[x] <= g[x]
        BY <1>1
      <3>6. Sum(f, T) <= Sum(g, T)
        BY <3>3, <3>4, <3>5
      <3> QED
        BY <3>6
    <2> QED
      BY <2>1, <2>2
  <1> HIDE DEF P
  <1>2. \A T \in SUBSET S : T \in P
    BY <1>1, SameFinite, Sums!SubsetInduct
  <1> QED
    BY <1>2 DEF P

(* The terms g are the naturals f, but for the term e, which is w larger.  *)
TermGrows(f, g, S, e, w) ==
    /\ \A x \in S : f[x] \in Nat
    /\ g[e] = f[e] + w
    /\ \A x \in S \ {e} : g[x] = f[x]

(* One term that grows makes the sum grow by as much.                      *)
LEMMA SumGrows ==
    ASSUME NEW S, IsFiniteSet(S), NEW f, NEW g, NEW e \in S, NEW w \in Nat,
           TermGrows(f, g, S, e, w)
    PROVE  Sum(g, S) = Sum(f, S) + w
  <1>0. (\A x \in S : f[x] \in Nat) /\ g[e] = f[e] + w /\ \A x \in S \ {e} : g[x] = f[x]
    BY DEF TermGrows
  <1>1. \A x \in S : g[x] \in Nat
    <2> TAKE x \in S
    <2>1. CASE x = e
      BY <1>0, <2>1
    <2> QED
      BY <1>0, <2>1
  <1>2. IsFiniteSet(S \ {e})
    BY FS_Subset
  <1>3. Sum(f, S) = f[e] + Sum(f, S \ {e}) /\ Sum(g, S) = g[e] + Sum(g, S \ {e})
    BY <1>0, <1>1, SumSplit
  <1>4. Sum(g, S \ {e}) = Sum(f, S \ {e}) /\ Sum(f, S \ {e}) \in Nat /\ f[e] \in Nat
    BY <1>0, <1>2, SumEqual, SumType
  <1> QED
    BY <1>0, <1>3, <1>4

(* A sum of zeros is 0.                                                    *)
LEMMA SumZero ==
    ASSUME NEW S, IsFiniteSet(S), NEW f, \A x \in S : f[x] = 0
    PROVE  Sum(f, S) = 0
  <1> DEFINE P == {T \in SUBSET S : Sum(f, T) = 0}
  <1>1. ASSUME NEW T \in SUBSET S, \A x \in T : T \ {x} \in P PROVE T \in P
    <2>1. CASE T = {}
      BY <2>1, SumEmpty
    <2>2. CASE T # {}
      <3>1. PICK x \in T : TRUE
        BY <2>2
      <3>2. IsFiniteSet(T)
        BY FS_Subset
      <3>3. Sum(f, T) = f[x] + Sum(f, T \ {x})
        BY <3>2, SumSplit
      <3>4. f[x] = 0 /\ Sum(f, T \ {x}) = 0
        BY <1>1
      <3> QED
        BY <3>3, <3>4
    <2> QED
      BY <2>1, <2>2
  <1> HIDE DEF P
  <1>2. \A T \in SUBSET S : T \in P
    BY <1>1, SameFinite, Sums!SubsetInduct
  <1> QED
    BY <1>2 DEF P

-----------------------------------------------------------------------------
(* ---- The batch and the queue ---- *)

(* Nothing to write changes no row.                                        *)
LEMMA WithNoShares == ASSUME NEW st PROVE WithShares(st, <<>>) = st
  BY WithSharesIsFold, Stored!FoldEmptySeq

(* The flush of a batch with one share more upserts that share last.       *)
LEMMA WithOneMore ==
    ASSUME NEW st, NEW b \in Seq(ShareEvent), NEW s \in ShareEvent
    PROVE  WithShares(st, Append(b, s))
           = [WithShares(st, b) EXCEPT ![s.addr] = UpsertStats(@, s)]
  <1>1. Stored!Fold(st, Append(b, s), DOMAIN Append(b, s))
        = Upsert(s, Stored!Fold(st, b, DOMAIN b))
    BY LastChooses, Stored!FoldAppend
  <1> QED
    BY <1>1, WithSharesIsFold DEF Upsert

(* There is no share in an empty queue.                                    *)
LEMMA NoShares == SharesOf(<<>>) = <<>>
  BY SharesOfIsFold, Queued!FoldEmptySeq

(* A share enters at the end of the queue.                                 *)
LEMMA OneMoreQueued ==
    ASSUME NEW q \in Seq(DbEvent), NEW ev \in DbEvent
    PROVE  SharesOf(Append(q, ev)) = TakeShare(ev, SharesOf(q))
  <1>1. Queued!Fold(<<>>, Append(q, ev), DOMAIN Append(q, ev))
        = TakeShare(ev, Queued!Fold(<<>>, q, DOMAIN q))
    BY LastChooses, Queued!FoldAppend
  <1> QED
    BY <1>1, SharesOfIsFold

(* What is queued is a sequence of shares.                                 *)
LEMMA SharesOfType == ASSUME NEW q \in Seq(DbEvent) PROVE SharesOf(q) \in Seq(ShareEvent)
  <1> DEFINE P == {r \in Seq(DbEvent) : SharesOf(r) \in Seq(ShareEvent)}
  <1>1. <<>> \in P
    <2>1. <<>> \in Seq(DbEvent) /\ <<>> \in Seq(ShareEvent)
      BY EmptySeq
    <2> QED
      BY <2>1, NoShares, Zenon
  <1>2. ASSUME NEW r \in Seq(DbEvent), NEW ev \in DbEvent, r \in P PROVE Append(r, ev) \in P
    <2>1. SharesOf(Append(r, ev)) = TakeShare(ev, SharesOf(r))
      BY OneMoreQueued
    <2>2. SharesOf(r) \in Seq(ShareEvent) /\ (ev.kind = "share" => ev.share \in ShareEvent)
      BY <1>2 DEF DbEvent
    <2>3. Append(r, ev) \in Seq(DbEvent)
      OBVIOUS
    <2>4. TakeShare(ev, SharesOf(r)) \in Seq(ShareEvent)
      <3>1. ev.kind = "share" => Append(SharesOf(r), ev.share) \in Seq(ShareEvent)
        BY <2>2
      <3> QED
        BY <2>2, <3>1, Zenon DEF TakeShare
    <2> QED
      BY <2>1, <2>3, <2>4, Zenon
  <1> HIDE DEF P
  <1>3. \A r \in Seq(DbEvent) : r \in P
    BY <1>1, <1>2, Sums!SeqInduct
  <1> QED
    BY <1>3 DEF P

(* The event at the head of the queue has the first share, if it has one.  *)
LEMMA HeadOfQueue ==
    ASSUME NEW q \in Seq(DbEvent), q # <<>>
    PROVE  SharesOf(q) = TakeShare(Head(q), <<>>) \o SharesOf(Tail(q))
  <1> DEFINE Good(r) == r # <<>> => SharesOf(r) = TakeShare(Head(r), <<>>) \o SharesOf(Tail(r))
             P == {r \in Seq(DbEvent) : Good(r)}
  <1>1. <<>> \in P
    OBVIOUS
  <1>2. ASSUME NEW r \in Seq(DbEvent), NEW ev \in DbEvent, r \in P PROVE Append(r, ev) \in P
    <2>0. Append(r, ev) \in Seq(DbEvent) /\ (ev.kind = "share" => ev.share \in ShareEvent)
      BY DEF DbEvent
    <2>1. SharesOf(Append(r, ev)) = TakeShare(ev, SharesOf(r))
      BY OneMoreQueued
    <2>2. CASE r = <<>>
      <3>1. Head(Append(r, ev)) = ev /\ Tail(Append(r, ev)) = <<>>
        BY <2>2, HeadTailAppend
      <3>2. SharesOf(Append(r, ev)) = TakeShare(ev, <<>>)
        BY <2>1, <2>2, NoShares
      <3>3. TakeShare(ev, <<>>) \in Seq(ShareEvent)
        BY <2>0 DEF TakeShare
      <3>4. TakeShare(ev, <<>>) = TakeShare(ev, <<>>) \o <<>>
        BY <3>3, ConcatEmptySeq
      <3>5. Good(Append(r, ev))
        BY <3>1, <3>2, <3>4, NoShares
      <3> QED
        BY <2>0, <3>5
    <2>3. CASE r # <<>>
      <3> DEFINE h == TakeShare(Head(r), <<>>)
                 t == SharesOf(Tail(r))
      <3>1. Head(Append(r, ev)) = Head(r) /\ Tail(Append(r, ev)) = Append(Tail(r), ev)
        BY <2>3, HeadTailAppend
      <3>2. Tail(r) \in Seq(DbEvent) /\ Head(r) \in DbEvent
        BY <2>3, HeadTailProperties
      <3>3. h \in Seq(ShareEvent) /\ t \in Seq(ShareEvent)
        <4>1. Head(r).kind = "share" => Head(r).share \in ShareEvent
          BY <3>2 DEF DbEvent
        <4>2. h \in Seq(ShareEvent)
          BY <4>1 DEF TakeShare
        <4>3. t \in Seq(ShareEvent)
          BY <3>2, SharesOfType
        <4> QED
          BY <4>2, <4>3
      <3>4. SharesOf(r) = h \o t
        BY <1>2, <2>3
      <3>5. SharesOf(Tail(Append(r, ev))) = TakeShare(ev, t)
        BY <3>1, <3>2, OneMoreQueued
      <3> HIDE DEF h, t
      <3>6. TakeShare(ev, h \o t) = h \o TakeShare(ev, t)
        <4>1. CASE ev.kind = "share"
          <5>1. /\ ev.share \in ShareEvent /\ <<ev.share>> \in Seq(ShareEvent)
                /\ h \o t \in Seq(ShareEvent)
            BY <2>0, <3>3, <4>1, ConcatProperties
          <5>2. Append(h \o t, ev.share) = (h \o t) \o <<ev.share>>
            BY <5>1, AppendIsConcat
          <5>3. Append(t, ev.share) = t \o <<ev.share>>
            BY <3>3, <5>1, AppendIsConcat
          <5>4. (h \o t) \o <<ev.share>> = h \o (t \o <<ev.share>>)
            BY <3>3, <5>1, ConcatAssociative, SMTT(30)
          <5> QED
            BY <4>1, <5>2, <5>3, <5>4 DEF TakeShare
        <4>2. CASE ev.kind # "share"
          BY <4>2 DEF TakeShare
        <4> QED
          BY <4>1, <4>2
      <3>7. Good(Append(r, ev))
        BY <2>1, <3>1, <3>4, <3>5, <3>6 DEF h
      <3> QED
        BY <2>0, <3>7
    <2> QED
      BY <2>2, <2>3
  <1> HIDE DEF P
  <1>3. \A r \in Seq(DbEvent) : r \in P
    BY <1>1, <1>2, Sums!SeqInduct
  <1> QED
    BY <1>3 DEF P

-----------------------------------------------------------------------------
(* ---- The statistics of a sequence of shares ---- *)

RowsOf(q, a) == {i \in DOMAIN q : q[i].addr = a}
DifficultyOf(q, a) == [i \in RowsOf(q, a) |-> Difficulty[q[i].hash]]
HashesOf(q, a) == {q[i].hash : i \in RowsOf(q, a)} \cup {NoHash}

(* The rows of statistics st are those of the shares q.                    *)
Matches(st, q) ==
    \A a \in Addresses :
        /\ st[a].count = Cardinality(RowsOf(q, a))
        /\ st[a].total = Sum(DifficultyOf(q, a), RowsOf(q, a))
        /\ st[a].best = Min(HashesOf(q, a))

(* The property of DbWorker is that epoch_stats matches shares.            *)
LEMMA StatsMatch == StatsMatchShares <=> Matches(epoch_stats, shares)
  <1>1. ASSUME NEW a
        PROVE  MapThenSumSet(LAMBDA i : Difficulty[shares[i].hash], RowsOf(shares, a))
               = Sum(DifficultyOf(shares, a), RowsOf(shares, a))
    <2> DEFINE R == RowsOf(shares, a)
    <2> HIDE DEF R
    <2>1. MapThenSumSet(LAMBDA i : Difficulty[shares[i].hash], R)
          = Sum([i \in R |-> Difficulty[shares[i].hash]], R)
      BY ZenonT(60) DEF Sum, MapThenSumSet, MapThenFoldSet
    <2> QED
      BY <2>1 DEF R, DifficultyOf
  <1>2. ASSUME NEW a PROVE Rows(a) = RowsOf(shares, a)
    BY DEF Rows, RowsOf
  <1> QED
    BY <1>1, <1>2 DEF StatsMatchShares, Matches, HashesOf

(* NoHash is above every hash.                                             *)
LEMMA NoHashAbove == NoHash \in Nat /\ \A h \in Hashes : h < NoHash
  <1> DEFINE P == {T \in SUBSET Hashes : T # {} => \E x \in T : \A y \in T : x >= y}
  <1>0. Hashes \subseteq Nat /\ IsFiniteSet(Hashes) /\ Hashes # {}
    BY DbAssumption
  <1>1. ASSUME NEW T \in SUBSET Hashes, \A x \in T : T \ {x} \in P PROVE T \in P
    <2> SUFFICES ASSUME T # {} PROVE \E x \in T : \A y \in T : x >= y
      OBVIOUS
    <2>1. PICK x \in T : TRUE
      OBVIOUS
    <2>2. CASE T \ {x} = {}
      BY <1>0, <2>2
    <2>3. CASE T \ {x} # {}
      <3>1. PICK z \in T \ {x} : \A y \in T \ {x} : z >= y
        BY <1>1, <2>3
      <3>2. CASE z >= x
        BY <3>1, <3>2
      <3>3. CASE ~(z >= x)
        <4>1. \A y \in T : y \in Nat
          BY <1>0
        <4>2. ASSUME NEW y \in T PROVE x >= y
          BY <3>1, <3>3, <4>1
        <4> QED
          BY <4>2
      <3> QED
        BY <3>2, <3>3
    <2> QED
      BY <2>2, <2>3
  <1> HIDE DEF P
  <1>2. \A T \in SUBSET Hashes : T \in P
    BY <1>0, <1>1, SameFinite, Sums!SubsetInduct
  <1>3. \E x \in Hashes : \A y \in Hashes : x >= y
    BY <1>0, <1>2 DEF P
  <1>4. Max(Hashes) \in Hashes /\ \A y \in Hashes : Max(Hashes) >= y
    BY <1>3 DEF Max
  <1> DEFINE m == Max(Hashes)
  <1>5. NoHash = m + 1 /\ m \in Nat
    BY <1>0, <1>4 DEF NoHash
  <1>6. ASSUME NEW h \in Hashes PROVE h \in Nat /\ m >= h
    BY <1>0, <1>4
  <1> HIDE DEF m
  <1>7. ASSUME NEW h \in Hashes PROVE h < NoHash
    BY <1>5, <1>6
  <1> QED
    BY <1>5, <1>7

(* The least member of a set of naturals, and of one with a member more.   *)
LEMMA LeastMember ==
    ASSUME NEW S \in SUBSET Nat, S # {}
    PROVE  Min(S) \in S /\ \A y \in S : Min(S) <= y
  <1>1. \E x \in S : \A y \in S : x <= y
    BY Sums!NatMinimum
  <1> QED
    BY <1>1 DEF Min

(* A member more is the least one if it is below the least of the others.  *)
LEMMA LeastOfMore ==
    ASSUME NEW S \in SUBSET Nat, S # {}, NEW h \in Nat
    PROVE  Min(S \cup {h}) = IF h < Min(S) THEN h ELSE Min(S)
  <1> DEFINE m == Min(S)
             n == Min(S \cup {h})
  <1>1. m \in S /\ \A y \in S : m <= y
    BY LeastMember
  <1>2. n \in S \cup {h} /\ \A y \in S \cup {h} : n <= y
    BY LeastMember
  <1> HIDE DEF m, n
  <1>3. m \in Nat /\ n \in Nat /\ n <= m /\ n <= h
    BY <1>1, <1>2
  <1>4. n = h \/ m <= n
    BY <1>1, <1>2
  <1>5. CASE h < m
    BY <1>3, <1>4, <1>5 DEF m, n
  <1>6. CASE ~(h < m)
    BY <1>3, <1>4, <1>6 DEF m, n
  <1> QED
    BY <1>5, <1>6

(* r has the rows of q and one more, n, which is a's if s is a share of a. *)
OneRowMore(q, s, r, n, a) ==
    /\ IsFiniteSet(RowsOf(q, a)) /\ n \notin RowsOf(q, a)
    /\ s.addr = a => RowsOf(r, a) = RowsOf(q, a) \cup {n}
    /\ s.addr # a => RowsOf(r, a) = RowsOf(q, a)
    /\ \A i \in RowsOf(q, a) : r[i] = q[i] /\ q[i] \in ShareEvent
    /\ r[n] = s

(* The rows of a miner in a sequence with a share more.                    *)
LEMMA RowsOfMore ==
    ASSUME NEW q \in Seq(ShareEvent), NEW s \in ShareEvent, NEW r, r = Append(q, s),
           NEW a \in Addresses
    PROVE  OneRowMore(q, s, r, Len(q) + 1, a)
  <1> DEFINE n == Len(q)
  <1>1. /\ n \in Nat /\ DOMAIN q = 1 .. n /\ DOMAIN r = 1 .. n + 1
        /\ r[n + 1] = s /\ \A i \in 1 .. n : r[i] = q[i] /\ q[i] \in ShareEvent
    OBVIOUS
  <1> HIDE DEF n
  <1>2. RowsOf(q, a) \in SUBSET (1 .. n) /\ n + 1 \notin 1 .. n
    BY <1>1 DEF RowsOf
  <1>3. IsFiniteSet(RowsOf(q, a))
    <2>1. IsFiniteSet(1 .. n)
      BY <1>1, FS_Interval
    <2> QED
      BY <1>2, <2>1, FS_Subset
  <1>4. /\ s.addr = a => RowsOf(r, a) = RowsOf(q, a) \cup {n + 1}
        /\ s.addr # a => RowsOf(r, a) = RowsOf(q, a)
    <2>1. 1 .. n + 1 = (1 .. n) \cup {n + 1}
      BY <1>1
    <2> QED
      BY <1>1, <2>1 DEF RowsOf
  <1> QED
    BY <1>1, <1>2, <1>3, <1>4 DEF n, OneRowMore

(* The upsert of a share keeps the statistics those of the shares.         *)
LEMMA MatchesMore ==
    ASSUME NEW st \in [Addresses -> Stats], NEW q \in Seq(ShareEvent), Matches(st, q),
           NEW s \in ShareEvent
    PROVE  Matches([st EXCEPT ![s.addr] = UpsertStats(@, s)], Append(q, s))
  <1> DEFINE r == Append(q, s)
             n == Len(q) + 1
             new == [st EXCEPT ![s.addr] = UpsertStats(@, s)]
  <1>0. s.addr \in Addresses /\ s.hash \in Hashes /\ Hashes \subseteq Nat
    BY DbAssumption DEF ShareEvent
  <1> SUFFICES ASSUME NEW a \in Addresses
               PROVE  /\ new[a].count = Cardinality(RowsOf(r, a))
                      /\ new[a].total = Sum(DifficultyOf(r, a), RowsOf(r, a))
                      /\ new[a].best = Min(HashesOf(r, a))
    BY DEF Matches
  <1> DEFINE R == RowsOf(q, a)
             T == RowsOf(r, a)
  <1>1. /\ IsFiniteSet(R) /\ n \notin R
        /\ s.addr = a => T = R \cup {n}
        /\ s.addr # a => T = R
        /\ \A i \in R : r[i] = q[i] /\ q[i] \in ShareEvent
        /\ r[n] = s
    <2>1. OneRowMore(q, s, r, n, a)
      BY RowsOfMore
    <2> HIDE DEF r, n
    <2> QED
      BY <2>1 DEF OneRowMore
  <1>2. /\ st[a].count = Cardinality(R)
        /\ st[a].total = Sum(DifficultyOf(q, a), R)
        /\ st[a].best = Min(HashesOf(q, a))
        /\ st[a] \in Stats
    BY DEF Matches
  <1>3. /\ DifficultyOf(q, a) = [i \in R |-> Difficulty[q[i].hash]]
        /\ DifficultyOf(r, a) = [i \in T |-> Difficulty[r[i].hash]]
        /\ HashesOf(q, a) = {q[i].hash : i \in R} \cup {NoHash}
        /\ HashesOf(r, a) = {r[i].hash : i \in T} \cup {NoHash}
    BY DEF DifficultyOf, HashesOf
  <1> HIDE DEF r, n, R, T
  <1>4. CASE s.addr # a
    <2>1. T = R /\ new[a] = st[a]
      BY <1>1, <1>4
    <2>2. DifficultyOf(r, a) = DifficultyOf(q, a)
      BY <1>1, <1>3, <2>1
    <2>3. {r[i].hash : i \in R} = {q[i].hash : i \in R}
      BY <1>1
    <2>4. HashesOf(r, a) = HashesOf(q, a)
      BY <1>3, <2>1, <2>3
    <2> QED
      BY <1>2, <2>1, <2>2, <2>4 DEF T
  <1>5. CASE s.addr = a
    <2>1. T = R \cup {n} /\ T \ {n} = R /\ n \in T /\ IsFiniteSet(T)
      BY <1>1, <1>5, FS_AddElement
    <2>2. new[a] = UpsertStats(st[a], s)
      BY <1>5
    <2>3. Cardinality(T) = Cardinality(R) + 1
      BY <1>1, <2>1, FS_AddElement
    <2>4. /\ \A i \in R : DifficultyOf(r, a)[i] = DifficultyOf(q, a)[i]
          /\ \A i \in T : DifficultyOf(r, a)[i] \in Nat
          /\ DifficultyOf(r, a)[n] = Difficulty[s.hash]
      <3>1. \A i \in R : q[i].hash \in Hashes
        BY <1>1 DEF ShareEvent
      <3>2. \A h \in Hashes : Difficulty[h] \in Nat
        BY DbAssumption
      <3>3. DifficultyOf(r, a)[n] = Difficulty[s.hash]
        BY <1>1, <1>3, <2>1
      <3>4. ASSUME NEW i \in R
            PROVE  /\ DifficultyOf(r, a)[i] = DifficultyOf(q, a)[i]
                   /\ DifficultyOf(r, a)[i] \in Nat
        BY <1>1, <1>3, <2>1, <3>1, <3>2
      <3> QED
        BY <1>0, <2>1, <3>2, <3>3, <3>4
    <2>5. Sum(DifficultyOf(r, a), T) = Difficulty[s.hash] + Sum(DifficultyOf(q, a), R)
      <3>1. Sum(DifficultyOf(r, a), T) = DifficultyOf(r, a)[n] + Sum(DifficultyOf(r, a), T \ {n})
        BY <2>1, <2>4, SumSplit
      <3>2. Sum(DifficultyOf(r, a), R) = Sum(DifficultyOf(q, a), R)
        BY <1>1, <2>4, SumEqual
      <3> QED
        BY <2>1, <2>4, <3>1, <3>2
    <2>6. HashesOf(r, a) = HashesOf(q, a) \cup {s.hash}
      <3>1. {r[i].hash : i \in T} = {q[i].hash : i \in R} \cup {s.hash}
        BY <1>1, <2>1
      <3> QED
        BY <1>3, <3>1
    <2>7. HashesOf(q, a) \in SUBSET Nat /\ HashesOf(q, a) # {}
      <3>1. \A i \in R : q[i].hash \in Nat
        BY <1>0, <1>1 DEF ShareEvent
      <3> QED
        BY <1>3, <3>1, NoHashAbove
    <2>8. Min(HashesOf(r, a)) = IF s.hash < st[a].best THEN s.hash ELSE st[a].best
      <3>1. s.hash \in Nat
        BY <1>0
      <3>2. Min(HashesOf(q, a) \cup {s.hash})
            = IF s.hash < Min(HashesOf(q, a)) THEN s.hash ELSE Min(HashesOf(q, a))
        BY <2>7, <3>1, LeastOfMore
      <3> QED
        BY <1>2, <2>6, <3>2
    <2>9. st[a].best = NoHash => s.hash < st[a].best
      BY <1>0, NoHashAbove
    <2>10. /\ new[a].count = st[a].count + 1
           /\ new[a].total = st[a].total + Difficulty[s.hash]
           /\ new[a].best = IF st[a].best = NoHash \/ s.hash < st[a].best
                            THEN s.hash ELSE st[a].best
      BY <1>2, <2>2 DEF UpsertStats, Stats
    <2>11. st[a].total \in Nat /\ Difficulty[s.hash] \in Nat
      BY <1>0, <1>2, DbAssumption DEF Stats
    <2> HIDE DEF new
    <2>12. new[a].total = Sum(DifficultyOf(r, a), T)
      BY <1>2, <2>5, <2>10, <2>11
    <2>13. new[a].best = Min(HashesOf(r, a))
      BY <2>8, <2>9, <2>10
    <2> QED
      BY <1>2, <2>3, <2>10, <2>12, <2>13 DEF T
  <1> QED
    BY <1>4, <1>5

(* The upsert of a share keeps the type of the rows.                       *)
LEMMA UpsertType ==
    ASSUME NEW st \in [Addresses -> Stats], NEW s \in ShareEvent
    PROVE  [st EXCEPT ![s.addr] = UpsertStats(@, s)] \in [Addresses -> Stats]
  <1>1. s.addr \in Addresses /\ s.hash \in Hashes /\ Difficulty[s.hash] \in Nat
    BY DbAssumption DEF ShareEvent
  <1>2. UpsertStats(st[s.addr], s) \in Stats
    <2> DEFINE row == st[s.addr]
               best == IF row.best = NoHash \/ s.hash < row.best THEN s.hash ELSE row.best
    <2>1. row \in Stats
      BY <1>1
    <2> HIDE DEF row
    <2>2. row.count + 1 \in Nat /\ row.total + Difficulty[s.hash] \in Nat
      BY <1>1, <2>1 DEF Stats
    <2>3. best \in Hashes \cup {NoHash}
      BY <1>1, <2>1 DEF Stats
    <2>4. UpsertStats(row, s) = [row EXCEPT !.count = @ + 1, !.total = @ + Difficulty[s.hash],
                                           !.best = best]
      BY DEF UpsertStats
    <2> HIDE DEF best
    <2>5. UpsertStats(row, s) \in Stats
      BY <2>1, <2>2, <2>3, <2>4 DEF Stats
    <2> QED
      BY <2>5 DEF row
  <1> QED
    BY <1>1, <1>2

-----------------------------------------------------------------------------
(* ---- The inductive invariant ---- *)

(* The rows of epoch_stats as the next flush will leave them.              *)
NextStats == WithShares(epoch_stats, share_batch)

(* The statistics are those of the shares on disk, and will be after the   *)
(* next flush.                                                             *)
StatsInv ==
    /\ Matches(epoch_stats, shares)
    /\ NextStats \in [Addresses -> Stats]
    /\ Matches(NextStats, shares \o share_batch)

(* The window of a miner is what the next flush adds to its total.         *)
WindowsInv ==
    \A a \in Addresses : NextStats[a].total = epoch_stats[a].total + minute_windows[a]

MinutesInv ==
    Minute <= Retention =>
        \A a \in Addresses : Sum(minute_hashrates[a], Minutes) = epoch_stats[a].total

(* The miners on disk after the next flush.                                *)
Recorded == miners \cup Range(miner_batch)

(* The miner is announced before the n-th event of queue q.                *)
AnnouncedBefore(q, a, n) ==
    \E j \in DOMAIN q : j < n /\ q[j].kind = "connected" /\ q[j].addr = a

(* A share never overtakes the announcement of its miner: not on its way   *)
(* to disk, not in the batches, not in the queue.                          *)
MinersInv ==
    /\ MinersKnown
    /\ \A i \in DOMAIN share_batch : share_batch[i].addr \in Recorded
    /\ \A i \in DOMAIN dbQ : dbQ[i].kind = "share" =>
          dbQ[i].share.addr \in Recorded \/ AnnouncedBefore(dbQ, dbQ[i].share.addr, i)
    /\ \A a \in online : a \in Recorded \/ AnnouncedBefore(dbQ, a, Len(dbQ) + 1)

WorkerInv == TypeOK /\ StatsInv /\ WindowsInv /\ MinutesInv /\ MinersInv

(* The table of minutes is finite, and has a row for the present one.      *)
LEMMA MinutesFinite == IsFiniteSet(Minutes)
  <1>1. MaxTime \div TicksPerMinute \in Nat
    BY DbAssumption
  <1> QED
    BY <1>1, FS_Interval DEF Minutes

(* The members of a sequence with one more.                                *)
LEMMA RangeOfMore ==
    ASSUME NEW S, NEW q \in Seq(S), NEW e \in S
    PROVE  Range(Append(q, e)) = Range(q) \cup {e}
  <1> DEFINE n == Len(q)
             r == Append(q, e)
  <1>1. /\ n \in Nat /\ DOMAIN q = 1 .. n /\ DOMAIN r = (1 .. n) \cup {n + 1}
        /\ r[n + 1] = e /\ \A i \in 1 .. n : r[i] = q[i]
    OBVIOUS
  <1> HIDE DEF n, r
  <1>2. Range(r) = Range(q) \cup {e}
    BY <1>1 DEF Range
  <1> QED
    BY <1>2 DEF r

(* An event that the worker takes from the queue keeps the announcements   *)
(* before the shares: a share was announced on its way, and an             *)
(* announcement goes to the batch.                                         *)
LEMMA ReceiveMiners == ASSUME TypeOK, MinersInv, Receive PROVE MinersInv'
  <1> DEFINE n == Len(dbQ)
  <1>1. /\ dbQ # <<>> /\ dbQ \in Seq(DbEvent) /\ Push(dbQ[1]) /\ dbQ' = Tail(dbQ)
        /\ UNCHANGED <<online, miners, shares>>
    BY DEF Receive, TypeOK, tables
  <1>2. /\ n \in Nat \ {0} /\ DOMAIN dbQ = 1 .. n /\ DOMAIN dbQ' = 1 .. n - 1
        /\ Len(dbQ') = n - 1 /\ \A i \in 1 .. n - 1 : dbQ'[i] = dbQ[i + 1]
        /\ dbQ[1] \in DbEvent
    BY <1>1
  <1>3. miner_batch \in Seq(Addresses) /\ share_batch \in Seq(ShareEvent)
    BY DEF TypeOK
  <1> HIDE DEF n
  <1>4. /\ dbQ[1].kind = "share" => /\ share_batch' = Append(share_batch, dbQ[1].share)
                                    /\ miner_batch' = miner_batch
        /\ dbQ[1].kind # "share" => /\ share_batch' = share_batch
                                    /\ miner_batch' = Append(miner_batch, dbQ[1].addr)
        /\ dbQ[1].kind = "share" => dbQ[1].share \in ShareEvent
        /\ dbQ[1].kind # "share" => dbQ[1].addr \in Addresses
    BY <1>1, <1>2 DEF Push, DbEvent
  <1>5. /\ Range(miner_batch) \subseteq Range(miner_batch')
        /\ dbQ[1].kind # "share" => dbQ[1].addr \in Range(miner_batch')
    <2>1. CASE dbQ[1].kind = "share"
      BY <1>4, <2>1
    <2>2. CASE dbQ[1].kind # "share"
      <3>1. Range(Append(miner_batch, dbQ[1].addr)) = Range(miner_batch) \cup {dbQ[1].addr}
        BY <1>3, <1>4, <2>2, RangeOfMore
      <3> QED
        BY <1>4, <2>2, <3>1
    <2> QED
      BY <2>1, <2>2
  <1>6. Recorded \subseteq Recorded'
    BY <1>1, <1>5 DEF Recorded
  <1>7. ASSUME NEW a, NEW k \in Int, AnnouncedBefore(dbQ, a, k + 1)
        PROVE  a \in Recorded' \/ AnnouncedBefore(dbQ', a, k)
    <2>1. PICK j \in 1 .. n : j < k + 1 /\ dbQ[j].kind = "connected" /\ dbQ[j].addr = a
      BY <1>2, <1>7 DEF AnnouncedBefore
    <2>2. CASE j = 1
      BY <1>1, <1>5, <2>1, <2>2 DEF Recorded
    <2>3. CASE j # 1
      <3>1. j - 1 \in 1 .. n - 1 /\ j - 1 < k /\ dbQ'[j - 1] = dbQ[j]
        BY <1>2, <2>1, <2>3
      <3> QED
        BY <1>2, <2>1, <3>1 DEF AnnouncedBefore
    <2> QED
      BY <2>2, <2>3
  <1>8. MinersKnown'
    BY <1>1 DEF MinersInv, MinersKnown
  <1>9. ASSUME NEW i \in DOMAIN share_batch' PROVE share_batch'[i].addr \in Recorded'
    <2>1. CASE i \in DOMAIN share_batch /\ share_batch'[i] = share_batch[i]
      BY <1>6, <2>1 DEF MinersInv
    <2>2. CASE dbQ[1].kind = "share" /\ share_batch'[i] = dbQ[1].share
      <3>1. dbQ[1].share.addr \in Recorded \/ AnnouncedBefore(dbQ, dbQ[1].share.addr, 1)
        BY <1>2, <2>2 DEF MinersInv
      <3>2. ~AnnouncedBefore(dbQ, dbQ[1].share.addr, 1)
        BY <1>2 DEF AnnouncedBefore
      <3> QED
        BY <1>6, <2>2, <3>1, <3>2
    <2>3. \/ i \in DOMAIN share_batch /\ share_batch'[i] = share_batch[i]
          \/ dbQ[1].kind = "share" /\ share_batch'[i] = dbQ[1].share
      <3>1. CASE dbQ[1].kind = "share"
        BY <1>3, <1>4, <3>1
      <3> QED
        BY <1>4, <3>1
    <2> QED
      BY <2>1, <2>2, <2>3
  <1>10. ASSUME NEW i \in DOMAIN dbQ', dbQ'[i].kind = "share"
         PROVE  dbQ'[i].share.addr \in Recorded' \/ AnnouncedBefore(dbQ', dbQ'[i].share.addr, i)
    <2>1. i \in 1 .. n - 1 /\ i + 1 \in DOMAIN dbQ /\ dbQ'[i] = dbQ[i + 1] /\ i \in Int
      BY <1>2
    <2> DEFINE a == dbQ[i + 1].share.addr
    <2>2. a \in Recorded \/ AnnouncedBefore(dbQ, a, i + 1)
      BY <1>10, <2>1 DEF MinersInv
    <2> HIDE DEF a
    <2>3. a \in Recorded' \/ AnnouncedBefore(dbQ', a, i)
      BY <1>6, <1>7, <2>1, <2>2 DEF a
    <2> QED
      BY <2>1, <2>3 DEF a
  <1>11. ASSUME NEW a \in online' PROVE a \in Recorded' \/ AnnouncedBefore(dbQ', a, Len(dbQ') + 1)
    <2>1. a \in online /\ (a \in Recorded \/ AnnouncedBefore(dbQ, a, n + 1))
      BY <1>1 DEF MinersInv, n
    <2>2. n \in Int /\ Len(dbQ') + 1 = n
      BY <1>2
    <2>3. a \in Recorded' \/ AnnouncedBefore(dbQ', a, n)
      BY <1>6, <1>7, <2>1, <2>2
    <2> QED
      BY <2>2, <2>3
  <1> QED
    BY <1>8, <1>9, <1>10, <1>11 DEF MinersInv

(* The worker starts with empty tables or the tables of an earlier run.    *)
LEMMA InitOK == Init => WorkerInv
  <1> SUFFICES ASSUME Init PROVE WorkerInv
    OBVIOUS
  <1>0. /\ share_batch = <<>> /\ shares = <<>> /\ dbQ = <<>> /\ miner_batch = <<>>
        /\ online = {} /\ miners = {} /\ minute_windows = [a \in Addresses |-> 0]
        /\ epoch_stats = [a \in Addresses |-> NoStats]
        /\ minute_hashrates = [a \in Addresses |-> [m \in Minutes |-> 0]]
    BY DEF Init, NoWindows
  <1>1. NoStats \in Stats
    BY DEF NoStats, Stats
  <1>2. TypeOK
    BY <1>1, DbAssumption DEF Init, TypeOK, NoWindows
  <1>3. NextStats = epoch_stats
    BY <1>0, WithNoShares DEF NextStats
  <1>4. shares \o share_batch = shares
    BY <1>0
  <1>5. ASSUME NEW a \in Addresses
        PROVE  /\ 0 = Cardinality(RowsOf(shares, a))
               /\ 0 = Sum(DifficultyOf(shares, a), RowsOf(shares, a))
               /\ NoHash = Min(HashesOf(shares, a))
    <2>1. RowsOf(shares, a) = {}
      BY <1>0 DEF RowsOf
    <2>2. HashesOf(shares, a) = {NoHash}
      BY <2>1 DEF HashesOf
    <2>3. Min({NoHash}) = NoHash
      BY LeastMember, NoHashAbove
    <2> QED
      BY <2>1, <2>2, <2>3, SumEmpty, FS_EmptySet
  <1>6. Matches(epoch_stats, shares)
    BY <1>0, <1>5 DEF Matches, NoStats
  <1>7. StatsInv
    BY <1>0, <1>1, <1>3, <1>4, <1>6 DEF StatsInv
  <1>8. WindowsInv
    BY <1>0, <1>3 DEF WindowsInv, NoStats
  <1>9. MinutesInv
    <2>1. ASSUME NEW a \in Addresses PROVE Sum(minute_hashrates[a], Minutes) = 0
      BY <1>0, MinutesFinite, SumZero
    <2> QED
      BY <1>0, <2>1 DEF MinutesInv, NoStats
  <1>10. MinersInv
    BY <1>0 DEF MinersInv, MinersKnown
  <1> QED
    BY <1>2, <1>7, <1>8, <1>9, <1>10 DEF WorkerInv

(* An event moves from the queue into the batches: what the next flush     *)
(* writes grows by one share, in the statistics, in the shares and in the  *)
(* window of its miner alike.                                              *)
LEMMA ReceiveOK == ASSUME WorkerInv, Receive PROVE WorkerInv'
  <1> DEFINE ev == Head(dbQ)
             s == ev.share
  <1>0. TypeOK /\ StatsInv /\ WindowsInv /\ MinutesInv /\ MinersInv
    BY DEF WorkerInv
  <1>1. /\ dbQ # <<>> /\ dbQ \in Seq(DbEvent) /\ share_batch \in Seq(ShareEvent)
        /\ miner_batch \in Seq(Addresses) /\ shares \in Seq(ShareEvent)
        /\ minute_windows \in [Addresses -> Nat] /\ epoch_stats \in [Addresses -> Stats]
    BY <1>0 DEF TypeOK, Receive
  <1>2. /\ ev \in DbEvent /\ dbQ' \in Seq(DbEvent) /\ dbQ' = Tail(dbQ)
        /\ Push(ev) /\ pc' = "drain"
        /\ UNCHANGED <<online, senders, events, elapsed, now>>
        /\ UNCHANGED <<miners, shares, epoch_stats, minute_hashrates>>
    BY <1>1, HeadTailProperties DEF Receive, clockVars, tables
  <1>3. /\ ev.kind = "share" => s \in ShareEvent
        /\ ev.kind # "share" => ev.addr \in Addresses
    BY <1>2 DEF DbEvent
  <1> HIDE DEF ev
  <1>4. MinutesInv'
    BY <1>0, <1>2 DEF MinutesInv, Minute
  <1>5. TypeOK' /\ StatsInv' /\ WindowsInv'
    <2>1. CASE ev.kind = "share"
      <3>1. /\ s \in ShareEvent /\ s.addr \in Addresses
            /\ Difficulty[s.hash] \in Nat
        BY <1>3, <2>1, DbAssumption DEF ShareEvent
      <3>2. /\ share_batch' = Append(share_batch, s) /\ miner_batch' = miner_batch
            /\ minute_windows' = [minute_windows EXCEPT ![s.addr] = @ + Difficulty[s.hash]]
        BY <1>2, <2>1 DEF Push
      <3> HIDE DEF s
      <3>3. minute_windows' \in [Addresses -> Nat]
        BY <1>1, <3>1, <3>2
      <3>4. share_batch' \in Seq(ShareEvent)
        BY <1>1, <3>1, <3>2
      <3>5. TypeOK'
        BY <1>0, <1>2, <3>2, <3>3, <3>4 DEF TypeOK
      <3>6. NextStats' = [NextStats EXCEPT ![s.addr] = UpsertStats(@, s)]
        BY <1>1, <1>2, <3>1, <3>2, WithOneMore DEF NextStats
      <3>7. NextStats \in [Addresses -> Stats] /\ Matches(NextStats, shares \o share_batch)
        BY <1>0 DEF StatsInv
      <3>8. shares' \o share_batch' = Append(shares \o share_batch, s)
        BY <1>1, <1>2, <3>1, <3>2, Queued!AppendToConcat, SMTT(30)
      <3>9. shares \o share_batch \in Seq(ShareEvent)
        BY <1>1, ConcatProperties
      <3>10. NextStats' \in [Addresses -> Stats]
        BY <3>1, <3>6, <3>7, UpsertType
      <3>11. Matches(NextStats', shares' \o share_batch')
        BY <3>1, <3>6, <3>7, <3>8, <3>9, MatchesMore
      <3>12. StatsInv'
        BY <1>0, <1>2, <3>10, <3>11 DEF StatsInv
      <3>13. WindowsInv'
        <4> SUFFICES ASSUME NEW a \in Addresses
                     PROVE  NextStats'[a].total = epoch_stats[a].total + minute_windows'[a]
          BY <1>2 DEF WindowsInv
        <4>1. NextStats[a].total = epoch_stats[a].total + minute_windows[a]
          BY <1>0 DEF WindowsInv
        <4>2. CASE a = s.addr
          <5>1. NextStats'[a] = UpsertStats(NextStats[a], s) /\ NextStats[a] \in Stats
            BY <3>6, <3>7, <4>2
          <5>2. NextStats'[a].total = NextStats[a].total + Difficulty[s.hash]
            BY <5>1 DEF UpsertStats, Stats
          <5>3. minute_windows'[a] = minute_windows[a] + Difficulty[s.hash]
            BY <1>1, <3>2, <4>2
          <5>4. epoch_stats[a].total \in Nat /\ minute_windows[a] \in Nat
            BY <1>1 DEF Stats
          <5> QED
            BY <3>1, <4>1, <5>2, <5>3, <5>4
        <4>3. CASE a # s.addr
          BY <1>1, <3>2, <3>6, <3>7, <4>1, <4>3
        <4> QED
          BY <4>2, <4>3
      <3> QED
        BY <3>5, <3>12, <3>13
    <2>2. CASE ev.kind # "share"
      <3>1. /\ UNCHANGED <<share_batch, minute_windows>>
            /\ miner_batch' = Append(miner_batch, ev.addr)
        BY <1>2, <2>2 DEF Push
      <3>2. miner_batch' \in Seq(Addresses)
        BY <1>1, <1>3, <2>2, <3>1
      <3>3. TypeOK'
        BY <1>0, <1>2, <3>1, <3>2 DEF TypeOK
      <3>4. NextStats' = NextStats
        BY <1>2, <3>1 DEF NextStats
      <3>5. StatsInv' /\ WindowsInv'
        BY <1>0, <1>2, <3>1, <3>4 DEF StatsInv, WindowsInv
      <3> QED
        BY <3>3, <3>5
    <2> QED
      BY <2>1, <2>2
  <1>6. MinersInv'
    BY <1>0, <1>1, <1>2, ReceiveMiners DEF ev
  <1> QED
    BY <1>4, <1>5, <1>6 DEF WorkerInv

(* A later time is not in an earlier minute.                               *)
LEMMA MinutesPass ==
    ASSUME NEW t \in Nat, NEW u \in Nat, NEW d \in Nat \ {0}, t <= u
    PROVE  t \div d \in Nat /\ u \div d \in Nat /\ t \div d <= u \div d
  <1> DEFINE p == t \div d
             q == u \div d
  <1>1. p \in Nat /\ q \in Nat
    OBVIOUS
  <1>2. p * d <= t /\ u < (q + 1) * d
    BY Z3
  <1> HIDE DEF p, q
  <1>3. p * d < (q + 1) * d
    BY <1>1, <1>2
  <1>4. p < q + 1
    BY <1>1, <1>3, Z3
  <1>5. p <= q
    BY <1>1, <1>4
  <1> QED
    BY <1>1, <1>5 DEF p, q

(* The table of minutes has a row for the present one.                     *)
LEMMA PresentMinute == ASSUME TypeOK PROVE Minute \in Minutes /\ Minute \in Nat
  <1>1. now \in Nat /\ MaxTime \in Nat /\ now <= MaxTime /\ TicksPerMinute \in Nat \ {0}
    BY DbAssumption DEF TypeOK
  <1>2. now \div TicksPerMinute \in Nat /\ now \div TicksPerMinute <= MaxTime \div TicksPerMinute
        /\ MaxTime \div TicksPerMinute \in Nat
    BY <1>1, MinutesPass
  <1> QED
    BY <1>2 DEF Minute, Minutes

(* Statistics that agree in count, total and best hash match the same      *)
(* shares.                                                                 *)
LEMMA MatchesSame ==
    ASSUME NEW st, NEW new, NEW q, Matches(st, q),
           \A a \in Addresses : /\ new[a].count = st[a].count
                                /\ new[a].total = st[a].total
                                /\ new[a].best = st[a].best
    PROVE  Matches(new, q)
  BY DEF Matches

(* The types of what a flush changes.                                      *)
BatchesOK ==
    /\ share_batch \in Seq(ShareEvent) /\ miner_batch \in Seq(Addresses)
    /\ minute_windows \in [Addresses -> Nat]
    /\ miners \in SUBSET Addresses /\ shares \in Seq(ShareEvent)
    /\ epoch_stats \in [Addresses -> Stats]
    /\ minute_hashrates \in [Addresses -> [Minutes -> Nat]]

DataInv == BatchesOK /\ StatsInv /\ WindowsInv /\ MinutesInv /\ MinersInv

(* The transaction commits the statistics that were due, and the minute    *)
(* rows grow by the windows.                                               *)
LEMMA WrittenOK ==
    ASSUME WorkerInv, Written, Cleared, UNCHANGED <<queueVars, now>>
    PROVE  DataInv'
  <1>0. TypeOK /\ StatsInv /\ WindowsInv /\ MinutesInv /\ MinersInv
    BY DEF WorkerInv
  <1>1. BatchesOK
    BY <1>0 DEF TypeOK, BatchesOK
  <1>2. /\ miners' = Recorded /\ shares' = shares \o share_batch
        /\ share_batch' = <<>> /\ miner_batch' = <<>>
        /\ minute_windows' = [a \in Addresses |-> 0]
        /\ online' = online /\ dbQ' = dbQ /\ now' = now
    BY DEF Written, Cleared, Recorded, NoWindows, queueVars
  <1>3. epoch_stats' = [a \in Addresses |->
                          IF a \in Active THEN [NextStats[a] EXCEPT !.active = @ + 1]
                                          ELSE NextStats[a]]
    BY DEF Written, NextStats
  <1>4. NextStats \in [Addresses -> Stats] /\ Matches(NextStats, shares')
    BY <1>0, <1>2 DEF StatsInv
  <1>5. ASSUME NEW a \in Addresses
        PROVE  /\ epoch_stats'[a].count = NextStats[a].count
               /\ epoch_stats'[a].total = NextStats[a].total
               /\ epoch_stats'[a].best = NextStats[a].best
               /\ epoch_stats'[a] \in Stats
    <2> DEFINE row == NextStats[a]
    <2>1. row \in Stats /\ (epoch_stats'[a] = row \/ epoch_stats'[a] = [row EXCEPT !.active = @ + 1])
      BY <1>3, <1>4
    <2> HIDE DEF row
    <2>2. /\ epoch_stats'[a].count = row.count
          /\ epoch_stats'[a].total = row.total
          /\ epoch_stats'[a].best = row.best
          /\ epoch_stats'[a] \in Stats
      BY <2>1 DEF Stats
    <2> QED
      BY <2>2 DEF row
  <1>6. epoch_stats' \in [Addresses -> Stats]
    BY <1>3, <1>5
  <1>7. Matches(epoch_stats', shares')
    BY <1>4, <1>5, MatchesSame
  <1>8. NextStats' = epoch_stats'
    BY <1>2, WithNoShares DEF NextStats
  <1>9. shares' \in Seq(ShareEvent) /\ shares' \o share_batch' = shares'
    BY <1>1, <1>2, ConcatProperties, ConcatEmptySeq DEF BatchesOK
  <1>10. StatsInv'
    BY <1>6, <1>7, <1>8, <1>9 DEF StatsInv
  <1>11. WindowsInv'
    <2>1. \A a \in Addresses : epoch_stats'[a].total \in Nat
      BY <1>6 DEF Stats
    <2> QED
      BY <1>2, <1>8, <2>1 DEF WindowsInv
  <1> DEFINE row(a, m) == IF Pruned(m) THEN 0
                          ELSE IF a \in Active /\ m = Minute
                          THEN minute_hashrates[a][m] + minute_windows[a]
                          ELSE minute_hashrates[a][m]
  <1>12. minute_hashrates' = [a \in Addresses |-> [m \in Minutes |-> row(a, m)]]
    BY DEF Written, WindowRow
  <1>13. ASSUME NEW a \in Addresses, NEW m \in Minutes PROVE row(a, m) \in Nat
    BY <1>1 DEF BatchesOK
  <1>14. minute_hashrates' \in [Addresses -> [Minutes -> Nat]]
    <2> HIDE DEF row
    <2> QED
      BY <1>12, <1>13
  <1>15. MinutesInv'
    <2> SUFFICES ASSUME Minute <= Retention, NEW a \in Addresses
                 PROVE  Sum(minute_hashrates'[a], Minutes) = epoch_stats'[a].total
      BY <1>2 DEF MinutesInv, Minute
    <2> DEFINE f == minute_hashrates[a]
               g == minute_hashrates'[a]
               w == minute_windows[a]
    <2>1. w \in Nat /\ f \in [Minutes -> Nat] /\ (a \notin Active => w = 0)
      BY <1>1 DEF BatchesOK, Active
    <2>2. Minute \in Minutes /\ Minute \in Nat
      BY <1>0, PresentMinute
    <2>3. ASSUME NEW m \in Minutes PROVE ~Pruned(m)
      <3>1. m \in Nat /\ Retention \in Nat
        BY DbAssumption DEF Minutes
      <3> QED
        BY <2>2, <3>1 DEF Pruned
    <2>4. \A m \in Minutes : g[m] = row(a, m)
      BY <1>12
    <2>5. g[Minute] = f[Minute] + w
      <3>1. CASE a \in Active
        BY <2>2, <2>3, <2>4, <3>1
      <3>2. CASE a \notin Active
        <4>1. g[Minute] = f[Minute] /\ f[Minute] \in Nat /\ w = 0
          BY <2>1, <2>2, <2>3, <2>4, <3>2
        <4> QED
          BY <4>1
      <3> QED
        BY <3>1, <3>2
    <2>6. \A m \in Minutes \ {Minute} : g[m] = f[m]
      BY <2>3, <2>4
    <2>7. \A m \in Minutes : f[m] \in Nat
      BY <2>1
    <2> HIDE DEF f, g, w
    <2>8. Sum(g, Minutes) = Sum(f, Minutes) + w
      <3>1. TermGrows(f, g, Minutes, Minute, w)
        BY <2>5, <2>6, <2>7 DEF TermGrows
      <3> QED
        BY <2>1, <2>2, <3>1, MinutesFinite, SumGrows
    <2>9. Sum(f, Minutes) = epoch_stats[a].total
      BY <1>0 DEF MinutesInv, f
    <2>10. NextStats[a].total = epoch_stats[a].total + w
      BY <1>0 DEF WindowsInv, w
    <2> QED
      BY <1>5, <2>8, <2>9, <2>10 DEF g
  <1>16. Recorded' = Recorded /\ Recorded \in SUBSET Addresses
    <2>1. Range(miner_batch') = {}
      BY <1>2 DEF Range
    <2>2. Range(miner_batch) \in SUBSET Addresses
      BY <1>1 DEF BatchesOK, Range
    <2> QED
      BY <1>1, <1>2, <2>1, <2>2 DEF Recorded, BatchesOK
  <1>17. MinersKnown'
    <2> SUFFICES ASSUME NEW i \in DOMAIN shares' PROVE shares'[i].addr \in miners'
      BY DEF MinersKnown
    <2> DEFINE n == Len(shares)
               k == Len(share_batch)
    <2>1. shares \in Seq(ShareEvent) /\ share_batch \in Seq(ShareEvent)
      BY <1>1 DEF BatchesOK
    <2>2. n \in Nat /\ k \in Nat /\ DOMAIN shares = 1 .. n /\ DOMAIN share_batch = 1 .. k
      BY <2>1
    <2>3. /\ DOMAIN shares' = 1 .. n + k
          /\ \A j \in 1 .. n + k : shares'[j] = IF j <= n THEN shares[j] ELSE share_batch[j - n]
      BY <1>2, <2>1
    <2> HIDE DEF n, k
    <2>4. CASE i <= n
      <3>1. i \in DOMAIN shares /\ shares'[i] = shares[i]
        BY <2>2, <2>3, <2>4
      <3>2. shares[i].addr \in miners
        BY <1>0, <3>1 DEF MinersInv, MinersKnown
      <3> QED
        BY <1>2, <3>1, <3>2 DEF Recorded
    <2>5. CASE ~(i <= n)
      <3>1. i - n \in DOMAIN share_batch /\ shares'[i] = share_batch[i - n]
        BY <2>2, <2>3, <2>5
      <3>2. share_batch[i - n].addr \in Recorded
        BY <1>0, <3>1 DEF MinersInv
      <3> QED
        BY <1>2, <3>1, <3>2
    <2> QED
      BY <2>4, <2>5
  <1>18. MinersInv'
    BY <1>0, <1>2, <1>16, <1>17 DEF MinersInv
  <1>19. BatchesOK'
    BY <1>2, <1>6, <1>9, <1>14, <1>16 DEF BatchesOK
  <1> QED
    BY <1>10, <1>11, <1>15, <1>18, <1>19 DEF DataInv

(* A flush commits everything, or changes nothing.                         *)
LEMMA FlushOK ==
    ASSUME WorkerInv, Flush, UNCHANGED <<queueVars, now>>
    PROVE  DataInv'
  <1>1. CASE Written /\ Cleared
    BY <1>1, WrittenOK
  <1>2. CASE UNCHANGED <<batchVars, tables>>
    <2>1. /\ TypeOK /\ StatsInv /\ WindowsInv /\ MinutesInv /\ MinersInv
          /\ UNCHANGED <<share_batch, miner_batch, minute_windows, dbQ, online, now>>
          /\ UNCHANGED <<miners, shares, epoch_stats, minute_hashrates>>
      BY <1>2 DEF WorkerInv, batchVars, tables, queueVars
    <2>2. NextStats' = NextStats /\ Recorded' = Recorded
      BY <2>1 DEF NextStats, Recorded
    <2>3. BatchesOK'
      BY <2>1 DEF TypeOK, BatchesOK
    <2>4. StatsInv' /\ WindowsInv'
      BY <2>1, <2>2 DEF StatsInv, WindowsInv
    <2>5. MinutesInv'
      BY <2>1 DEF MinutesInv, Minute
    <2>6. MinersInv'
      BY <2>1, <2>2 DEF MinersInv, MinersKnown
    <2> QED
      BY <2>3, <2>4, <2>5, <2>6 DEF DataInv
  <1> QED
    BY <1>1, <1>2 DEF Flush, FlushFailed

(* A connection announces its miner before its shares.                     *)
LEMMA SendMiners ==
    ASSUME TypeOK, MinersInv, NEW ev \in DbEvent, Send(ev)
    PROVE  MinersInv'
  <1> DEFINE n == Len(dbQ)
  <1>1. /\ dbQ \in Seq(DbEvent) /\ dbQ' = Append(dbQ, ev)
        /\ UNCHANGED <<miners, shares, share_batch, miner_batch>>
        /\ ev.kind = "share" => ev.share.addr \in online /\ online' = online
        /\ ev.kind # "share" => online' = online \cup {ev.addr} /\ ev.kind = "connected"
    BY DEF Send, TypeOK, tables, batchVars, DbEvent
  <1>2. /\ n \in Nat /\ DOMAIN dbQ = 1 .. n /\ DOMAIN dbQ' = 1 .. n + 1
        /\ Len(dbQ') = n + 1 /\ dbQ'[n + 1] = ev /\ \A i \in 1 .. n : dbQ'[i] = dbQ[i]
    BY <1>1
  <1> HIDE DEF n
  <1>3. Recorded' = Recorded
    BY <1>1 DEF Recorded
  <1>4. ASSUME NEW a, NEW k \in Int, NEW l \in Int, k <= l, AnnouncedBefore(dbQ, a, k)
        PROVE  AnnouncedBefore(dbQ', a, l)
    <2>1. PICK j \in 1 .. n : j < k /\ dbQ[j].kind = "connected" /\ dbQ[j].addr = a
      BY <1>2, <1>4 DEF AnnouncedBefore
    <2>2. j \in DOMAIN dbQ' /\ j < l /\ dbQ'[j] = dbQ[j]
      BY <1>2, <1>4, <2>1
    <2> QED
      BY <2>1, <2>2 DEF AnnouncedBefore
  <1>5. MinersKnown' /\ \A i \in DOMAIN share_batch' : share_batch'[i].addr \in Recorded'
    BY <1>1, <1>3 DEF MinersInv, MinersKnown
  <1>6. ASSUME NEW i \in DOMAIN dbQ', dbQ'[i].kind = "share"
        PROVE  dbQ'[i].share.addr \in Recorded' \/ AnnouncedBefore(dbQ', dbQ'[i].share.addr, i)
    <2> DEFINE a == dbQ'[i].share.addr
    <2>1. CASE i \in 1 .. n
      <3>1. a \in Recorded \/ AnnouncedBefore(dbQ, a, i)
        BY <1>2, <1>6, <2>1 DEF MinersInv
      <3>2. i \in Int /\ i <= i
        BY <2>1
      <3> HIDE DEF a
      <3>3. a \in Recorded' \/ AnnouncedBefore(dbQ', a, i)
        BY <1>3, <1>4, <3>1, <3>2
      <3> QED
        BY <3>3 DEF a
    <2>2. CASE i = n + 1
      <3>1. a \in online
        BY <1>1, <1>2, <1>6, <2>2
      <3>2. a \in Recorded \/ AnnouncedBefore(dbQ, a, n + 1)
        BY <3>1 DEF MinersInv, n
      <3>3. n + 1 \in Int /\ n + 1 <= n + 1
        BY <1>2
      <3> HIDE DEF a
      <3>4. a \in Recorded' \/ AnnouncedBefore(dbQ', a, n + 1)
        BY <1>3, <1>4, <3>2, <3>3
      <3> QED
        BY <2>2, <3>4 DEF a
    <2> QED
      BY <1>2, <2>1, <2>2
  <1>7. ASSUME NEW a \in online' PROVE a \in Recorded' \/ AnnouncedBefore(dbQ', a, Len(dbQ') + 1)
    <2>1. n + 1 \in Int /\ n + 2 \in Int /\ n + 1 <= n + 2 /\ Len(dbQ') + 1 = n + 2
      BY <1>2
    <2>2. CASE a \in online
      <3>1. a \in Recorded \/ AnnouncedBefore(dbQ, a, n + 1)
        BY <2>2 DEF MinersInv, n
      <3>2. a \in Recorded' \/ AnnouncedBefore(dbQ', a, n + 2)
        BY <1>3, <1>4, <2>1, <3>1
      <3> QED
        BY <2>1, <3>2
    <2>3. CASE a \notin online
      <3>1. ev.kind = "connected" /\ ev.addr = a
        BY <1>1, <1>7, <2>3
      <3>2. n + 1 \in DOMAIN dbQ' /\ n + 1 < n + 2
        BY <1>2
      <3>3. AnnouncedBefore(dbQ', a, n + 2)
        BY <1>2, <3>1, <3>2 DEF AnnouncedBefore
      <3> QED
        BY <2>1, <3>3
    <2> QED
      BY <2>2, <2>3
  <1> QED
    BY <1>5, <1>6, <1>7 DEF MinersInv

(* A restart leaves the tables as they are and nothing in the batches.     *)
LEMMA RestartOK == ASSUME WorkerInv, Restart PROVE WorkerInv'
  <1>0. TypeOK /\ StatsInv /\ WindowsInv /\ MinutesInv /\ MinersInv
    BY DEF WorkerInv
  <1>1. /\ share_batch' = <<>> /\ miner_batch' = <<>> /\ dbQ' = <<>> /\ online' = {}
        /\ minute_windows' = [a \in Addresses |-> 0]
        /\ UNCHANGED <<now, miners, shares, epoch_stats, minute_hashrates>>
    BY DEF Restart, Cleared, NoWindows, tables
  <1>2. TypeOK'
    BY <1>0, <1>1, DbAssumption DEF Restart, TypeOK
  <1>3. NextStats' = epoch_stats'
    BY <1>1, WithNoShares DEF NextStats
  <1>4. shares' \o share_batch' = shares
    BY <1>0, <1>1, ConcatEmptySeq DEF TypeOK
  <1>5. Matches(epoch_stats, shares) /\ epoch_stats \in [Addresses -> Stats]
    BY <1>0 DEF StatsInv, TypeOK
  <1>6. StatsInv'
    BY <1>1, <1>3, <1>4, <1>5 DEF StatsInv
  <1>7. WindowsInv'
    <2>1. \A a \in Addresses : epoch_stats[a].total \in Nat
      BY <1>5 DEF Stats
    <2> QED
      BY <1>1, <1>3, <2>1 DEF WindowsInv
  <1>8. MinutesInv'
    BY <1>0, <1>1 DEF MinutesInv, Minute
  <1>9. MinersInv'
    BY <1>0, <1>1 DEF MinersInv, MinersKnown
  <1> QED
    BY <1>2, <1>6, <1>7, <1>8, <1>9 DEF WorkerInv

(* Every step keeps the invariant.                                         *)
LEMMA StepOK == ASSUME WorkerInv, [Next]_vars PROVE WorkerInv'
  <1> USE DEF vars, queueVars, batchVars, clockVars, tables
  <1>0. TypeOK /\ StatsInv /\ WindowsInv /\ MinutesInv /\ MinersInv
    BY DEF WorkerInv
  <1>1. CASE Receive
    BY <1>1, ReceiveOK
  <1>2. ASSUME UNCHANGED <<batchVars, tables>>
        PROVE  StatsInv' /\ WindowsInv' /\ Recorded' = Recorded
    <2>1. NextStats' = NextStats
      BY <1>2 DEF NextStats
    <2>2. Recorded' = Recorded
      BY <1>2 DEF Recorded
    <2> QED
      BY <1>0, <1>2, <2>1, <2>2 DEF StatsInv, WindowsInv
  <1>3. CASE RecvTimeout \/ DrainEmpty \/ CheckSkip \/ DropSenders \/ UNCHANGED vars
    <2>1. /\ UNCHANGED <<batchVars, tables>> /\ UNCHANGED <<online, dbQ, now>>
          /\ TypeOK'
      BY <1>0, <1>3 DEF RecvTimeout, DrainEmpty, CheckSkip, DropSenders, TypeOK
    <2>2. MinutesInv' /\ MinersInv'
      BY <1>0, <1>2, <2>1 DEF MinutesInv, Minute, MinersInv, MinersKnown
    <2> QED
      BY <1>2, <2>1, <2>2 DEF WorkerInv
  <1>4. CASE Disconnected
    <2>1. Flush /\ UNCHANGED <<queueVars, now>> /\ pc' = "done" /\ elapsed' = elapsed
      BY <1>4 DEF Disconnected
    <2>2. DataInv'
      BY <2>1, FlushOK
    <2>3. TypeOK'
      BY <1>0, <2>1, <2>2 DEF TypeOK, DataInv, BatchesOK
    <2> QED
      BY <2>2, <2>3 DEF DataInv, WorkerInv
  <1>5. CASE CheckFlush
    <2>1. Flush /\ UNCHANGED <<queueVars, now>> /\ pc' = "recv" /\ elapsed' = 0
      BY <1>5 DEF CheckFlush
    <2>2. DataInv'
      BY <2>1, FlushOK
    <2>3. elapsed' \in 0 .. TicksPerMinute
      BY <2>1, DbAssumption
    <2>4. TypeOK'
      BY <1>0, <2>1, <2>2, <2>3 DEF TypeOK, DataInv, BatchesOK
    <2> QED
      BY <2>2, <2>4 DEF DataInv, WorkerInv
  <1>6. CASE Tick
    <2>1. /\ UNCHANGED <<batchVars, tables>> /\ UNCHANGED <<online, dbQ, senders, events, pc>>
          /\ elapsed' \in 0 .. TicksPerMinute /\ now' \in 0 .. MaxTime /\ now <= now'
      BY <1>0, <1>6, DbAssumption DEF Tick, TypeOK
    <2>2. TypeOK'
      BY <1>0, <2>1 DEF TypeOK
    <2>3. Minute <= Minute' /\ Minute \in Nat /\ Minute' \in Nat
      <3>1. now \in Nat /\ now' \in Nat /\ TicksPerMinute \in Nat \ {0}
        BY <1>0, <2>1, DbAssumption DEF TypeOK
      <3> QED
        BY <2>1, <3>1, MinutesPass DEF Minute
    <2>4. MinutesInv'
      <3>1. Minute' <= Retention => Minute <= Retention
        BY <2>3, DbAssumption
      <3> QED
        BY <1>0, <2>1, <3>1 DEF MinutesInv
    <2>5. MinersInv'
      BY <1>0, <1>2, <2>1 DEF MinersInv, MinersKnown
    <2> QED
      BY <1>2, <2>1, <2>2, <2>4, <2>5 DEF WorkerInv
  <1>7. CASE Restart
    BY <1>7, RestartOK
  <1>8. ASSUME NEW ev \in DbEvent, Send(ev) PROVE WorkerInv'
    <2>0. /\ dbQ \in Seq(DbEvent) /\ events \in 0 .. MaxEvents /\ online \in SUBSET Addresses
          /\ MaxEvents \in Nat /\ (ev.kind # "share" => ev.addr \in Addresses)
      BY <1>0, DbAssumption DEF TypeOK, DbEvent
    <2>1. /\ UNCHANGED <<batchVars, tables>> /\ UNCHANGED <<senders, pc, elapsed, now>>
          /\ dbQ' \in Seq(DbEvent) /\ events' \in 0 .. MaxEvents /\ online' \in SUBSET Addresses
      BY <1>8, <2>0 DEF Send
    <2>2. TypeOK'
      BY <1>0, <2>1 DEF TypeOK
    <2>3. MinutesInv'
      BY <1>0, <2>1 DEF MinutesInv, Minute
    <2>4. MinersInv'
      BY <1>0, <1>8, SendMiners
    <2> QED
      BY <1>2, <2>1, <2>2, <2>3, <2>4 DEF WorkerInv
  <1> QED
    BY <1>1, <1>3, <1>4, <1>5, <1>6, <1>7, <1>8 DEF Next, WorkerNext

(* The invariant holds in every state of the worker and its process.       *)
THEOREM Invariance == Spec => []WorkerInv
  <1>1. Init => WorkerInv
    BY InitOK
  <1>2. WorkerInv /\ [Next]_vars => WorkerInv'
    BY StepOK
  <1> QED
    BY <1>1, <1>2, PTL DEF Spec

(* Every variable of the worker, its queue and its tables has its type.    *)
THEOREM TypeCorrect == Spec => []TypeOK
  <1>1. WorkerInv => TypeOK
    BY DEF WorkerInv
  <1> QED
    BY <1>1, Invariance, PTL

(* The running totals of epoch_stats are those of the rows of shares,      *)
(* after any mixture of flushes, failed flushes and restarts.              *)
THEOREM StatsCorrect == Spec => []StatsMatchShares
  <1>1. WorkerInv => StatsMatchShares
    BY StatsMatch DEF WorkerInv, StatsInv
  <1> QED
    BY <1>1, Invariance, PTL

(* Until the first row is pruned the minute rows of a miner add up to its  *)
(* total.                                                                  *)
THEOREM HashratesCorrect == Spec => []HashratesMatchTotals
  <1>1. ASSUME NEW a \in Addresses
        PROVE  MapThenSumSet(LAMBDA m : minute_hashrates[a][m], Minutes)
               = Sum(minute_hashrates[a], Minutes)
    BY Zenon DEF Sum, MapThenSumSet, MapThenFoldSet
  <1>2. WorkerInv => HashratesMatchTotals
    BY <1>1 DEF WorkerInv, MinutesInv, HashratesMatchTotals
  <1> QED
    BY <1>2, Invariance, PTL

(* A share on disk has its miner on disk.                                  *)
THEOREM MinersCorrect == Spec => []MinersKnown
  <1>1. WorkerInv => MinersKnown
    BY DEF WorkerInv, MinersInv
  <1> QED
    BY <1>1, Invariance, PTL

-----------------------------------------------------------------------------
(* ---- The worker is a share ledger ---- *)

(* The queued shares are those of the queue, now and after the step.       *)
LEMMA QueuedAre == QueuedShares = SharesOf(dbQ) /\ QueuedShares' = SharesOf(dbQ')
  BY DEF QueuedShares, SharesOf, FoldLeft, MapThenFoldSet

(* A step of the worker is a step of the ledger, or none: taking an event  *)
(* from the queue moves its share within what is volatile, a committed     *)
(* flush stores the shares of the batch, which are the oldest, and leaves  *)
(* those of the queue.                                                     *)
LEMMA LedgerStep == ASSUME WorkerInv, [Next]_vars PROVE [Ledger!Next]_(Ledger!vars)
  <1> DEFINE Q == SharesOf(dbQ)
             V == share_batch \o Q
             W == share_batch' \o SharesOf(dbQ')
  <1> USE DEF vars, queueVars, batchVars, clockVars, tables
  <1>0. /\ shares \in Seq(ShareEvent) /\ share_batch \in Seq(ShareEvent)
        /\ dbQ \in Seq(DbEvent) /\ Q \in Seq(ShareEvent)
    BY SharesOfType DEF WorkerInv, TypeOK
  <1>1. ASSUME shares' = shares, W = V PROVE UNCHANGED (Ledger!vars)
    BY <1>1, QueuedAre DEF Ledger!vars
  <1>2. ASSUME UNCHANGED <<shares, share_batch, dbQ>> PROVE UNCHANGED (Ledger!vars)
    BY <1>1, <1>2
  <1>3. CASE Receive
    <2> DEFINE ev == Head(dbQ)
               R == SharesOf(Tail(dbQ))
    <2>1. /\ dbQ # <<>> /\ dbQ' = Tail(dbQ) /\ shares' = shares /\ Push(ev)
      BY <1>3 DEF Receive
    <2>2. ev \in DbEvent /\ Tail(dbQ) \in Seq(DbEvent)
      BY <1>0, <2>1, HeadTailProperties
    <2>3. R \in Seq(ShareEvent) /\ Q = TakeShare(ev, <<>>) \o R
      BY <1>0, <2>1, <2>2, SharesOfType, HeadOfQueue
    <2>4. CASE ev.kind = "share"
      <3>1. ev.share \in ShareEvent /\ share_batch' = Append(share_batch, ev.share)
        BY <2>1, <2>2, <2>4 DEF Push, DbEvent
      <3> DEFINE e == <<ev.share>>
      <3>2. e \in Seq(ShareEvent) /\ TakeShare(ev, <<>>) = e
        BY <2>4, <3>1 DEF TakeShare
      <3>3. Append(share_batch, ev.share) = share_batch \o e
        BY <1>0, <3>1, AppendIsConcat
      <3>4. (share_batch \o e) \o R = share_batch \o (e \o R)
        BY <1>0, <2>3, <3>2, ConcatAssociative, SMTT(30)
      <3>5. W = V
        BY <2>1, <2>3, <3>1, <3>2, <3>3, <3>4
      <3> QED
        BY <1>1, <2>1, <3>5
    <2>5. CASE ev.kind # "share"
      <3>1. share_batch' = share_batch /\ TakeShare(ev, <<>>) = <<>>
        BY <2>1, <2>5 DEF Push, TakeShare
      <3>2. <<>> \o R = R
        BY <2>3, ConcatEmptySeq
      <3>3. W = V
        BY <2>1, <2>3, <3>1, <3>2
      <3> QED
        BY <1>1, <2>1, <3>3
    <2> QED
      BY <2>4, <2>5
  <1>4. ASSUME Flush, dbQ' = dbQ PROVE [Ledger!Next]_(Ledger!vars)
    <2>1. CASE UNCHANGED <<batchVars, tables>>
      BY <1>2, <1>4, <2>1
    <2>2. CASE Written /\ Cleared
      <3> DEFINE n == Len(share_batch)
      <3>1. shares' = shares \o share_batch /\ share_batch' = <<>>
        BY <2>2 DEF Written, Cleared
      <3>2. W = Q
        BY <1>0, <1>4, <3>1, ConcatEmptySeq
      <3>3. CASE share_batch = <<>>
        <4>1. shares \o share_batch = shares /\ share_batch' = share_batch
          BY <1>0, <3>1, <3>3, ConcatEmptySeq
        <4> QED
          BY <1>2, <1>4, <3>1, <4>1
      <3>4. CASE share_batch # <<>>
        <4>1. n \in 1 .. Len(V)
          <5>1. Len(V) = n + Len(Q) /\ n \in Nat /\ Len(Q) \in Nat /\ n # 0
            BY <1>0, <3>4, ConcatProperties, LenProperties, EmptySeq
          <5> QED
            BY <5>1
        <4>2. SubSeq(V, 1, n) = share_batch /\ SubSeq(V, n + 1, Len(V)) = Q
          BY <1>0, Queued!CutConcat
        <4>3. shares' = shares \o SubSeq(V, 1, n) /\ W = SubSeq(V, n + 1, Len(V))
          BY <3>1, <3>2, <4>2
        <4>4. Ledger!Persist(n)
          BY <4>3, QueuedAre DEF Ledger!Persist
        <4> QED
          BY <4>1, <4>4, QueuedAre DEF Ledger!Next
      <3> QED
        BY <3>3, <3>4
    <2> QED
      BY <1>4, <2>1, <2>2 DEF Flush, FlushFailed
  <1>5. CASE Disconnected \/ CheckFlush
    BY <1>4, <1>5 DEF Disconnected, CheckFlush
  <1>6. CASE RecvTimeout \/ DrainEmpty \/ CheckSkip \/ DropSenders \/ Tick \/ UNCHANGED vars
    BY <1>2, <1>6 DEF RecvTimeout, DrainEmpty, CheckSkip, DropSenders, Tick
  <1>7. CASE Restart
    <2>1. shares' = shares /\ share_batch' = <<>> /\ dbQ' = <<>>
      BY <1>7 DEF Restart, Cleared
    <2>2. W = <<>>
      BY <2>1, NoShares
    <2>3. Ledger!Crash
      BY <2>1, <2>2, QueuedAre DEF Ledger!Crash
    <2> QED
      BY <2>3 DEF Ledger!Next
  <1>8. ASSUME NEW ev \in DbEvent, Send(ev) PROVE [Ledger!Next]_(Ledger!vars)
    <2>1. UNCHANGED <<shares, share_batch>> /\ dbQ' = Append(dbQ, ev)
      BY <1>8 DEF Send
    <2>2. SharesOf(dbQ') = TakeShare(ev, Q)
      BY <1>0, <2>1, OneMoreQueued
    <2>3. CASE ev.kind = "share"
      <3>1. ev.share \in ShareEvent
        BY <2>3 DEF DbEvent
      <3>2. W = share_batch \o Append(Q, ev.share)
        BY <2>1, <2>2, <2>3 DEF TakeShare
      <3>3. W = Append(V, ev.share)
        BY <1>0, <3>1, <3>2, Queued!AppendToConcat
      <3>4. Ledger!Accept(ev.share)
        BY <2>1, <3>3, QueuedAre DEF Ledger!Accept
      <3> QED
        BY <3>1, <3>4 DEF Ledger!Next
    <2>4. CASE ev.kind # "share"
      <3>1. W = V
        BY <2>1, <2>2, <2>4 DEF TakeShare
      <3> QED
        BY <1>1, <2>1, <3>1
    <2> QED
      BY <2>3, <2>4
  <1> QED
    BY <1>3, <1>5, <1>6, <1>7, <1>8 DEF Next, WorkerNext

(* The worker implements the ledger: no share is stored twice, dropped or  *)
(* reordered by failed flushes, retries or races with the senders, and     *)
(* only a restart loses shares, those not yet stored.                      *)
THEOREM LedgerImplemented == Spec => LedgerSpec
  <1>1. Init => Ledger!Init
    <2> SUFFICES ASSUME Init PROVE Ledger!Init
      OBVIOUS
    <2>1. shares = <<>> /\ share_batch = <<>> /\ dbQ = <<>>
      BY DEF Init
    <2>2. QueuedShares = <<>>
      BY <2>1, NoShares, QueuedAre
    <2> QED
      BY <2>1, <2>2 DEF Ledger!Init
  <1>2. WorkerInv /\ [Next]_vars => [Ledger!Next]_(Ledger!vars)
    BY LedgerStep
  <1> QED
    BY <1>1, <1>2, Invariance, PTL DEF Spec, LedgerSpec, Ledger!Spec

-----------------------------------------------------------------------------
(* ---- What readers see ---- *)

(* A row that a reader may still ask for is not pruned, although a reader  *)
(* counts back from the second and the worker from the minute.             *)
LEMMA InSightKept ==
    ASSUME TypeOK, NEW l \in 1 .. Retention, NEW m \in Lookback(l)
    PROVE  ~Pruned(m)
  <1> DEFINE T == TicksPerMinute
             q == now \div T
  <1>1. now \in Nat /\ T \in Nat \ {0} /\ l \in Nat /\ Retention \in Nat /\ l <= Retention
    BY DbAssumption DEF TypeOK
  <1>2. m \in Nat /\ m * T >= now - l * T
    <2>1. MaxTime \div TicksPerMinute \in Nat
      BY DbAssumption
    <2> QED
      BY <2>1 DEF Lookback, Minutes
  <1> HIDE DEF T
  <1>3. q \in Nat /\ q * T <= now
    <2>1. q \in Nat
      BY <1>1
    <2>2. q * T <= now
      BY <1>1, Z3
    <2> QED
      BY <2>1, <2>2
  <1>4. Pruned(m) <=> m + Retention < q
    BY DEF Pruned, Minute, T
  <1> HIDE DEF q
  <1>5. ASSUME m + Retention < q PROVE FALSE
    <2>1. m + l + 1 <= q
      BY <1>1, <1>2, <1>3, <1>5
    <2>2. (m + l + 1) * T <= q * T
      BY <1>1, <1>2, <1>3, <2>1, Z3
    <2>3. (m + l + 1) * T = m * T + l * T + T
      BY <1>1, <1>2, Z3
    <2> DEFINE mt == m * T
               lt == l * T
               qt == q * T
    <2>4. mt \in Int /\ lt \in Int /\ qt \in Int /\ mt >= now - lt /\ qt <= now
      BY <1>1, <1>2, <1>3
    <2>5. mt + lt + T <= qt
      BY <2>2, <2>3
    <2> HIDE DEF mt, lt, qt
    <2> QED
      BY <1>1, <2>4, <2>5
  <1> QED
    BY <1>4, <1>5

(* No step lowers a row that is in sight.                                  *)
LEMMA RowsInSight ==
    ASSUME WorkerInv, [Next]_vars, NEW l \in 1 .. Retention,
           NEW a \in Addresses, NEW m \in Lookback(l)
    PROVE  /\ minute_hashrates[a][m] \in Nat /\ minute_hashrates'[a][m] \in Nat
           /\ minute_hashrates[a][m] <= minute_hashrates'[a][m]
  <1>1. TypeOK /\ TypeOK' /\ m \in Minutes
    BY StepOK DEF WorkerInv, Lookback
  <1>2. minute_hashrates[a][m] \in Nat /\ minute_hashrates'[a][m] \in Nat /\ minute_windows[a] \in Nat
    BY <1>1 DEF TypeOK
  <1>3. CASE minute_hashrates' = minute_hashrates
    BY <1>2, <1>3
  <1>4. CASE Written
    <2>1. ~Pruned(m)
      BY <1>1, InSightKept
    <2>2. \/ minute_hashrates'[a][m] = minute_hashrates[a][m] + minute_windows[a]
          \/ minute_hashrates'[a][m] = minute_hashrates[a][m]
      BY <1>1, <1>4, <2>1 DEF Written, WindowRow
    <2> QED
      BY <1>2, <2>2
  <1>5. minute_hashrates' = minute_hashrates \/ Written
    BY DEF Next, WorkerNext, Receive, RecvTimeout, DrainEmpty, Disconnected, CheckFlush,
           CheckSkip, Flush, FlushFailed, Tick, DropSenders, Restart, Send, vars, tables
  <1> QED
    BY <1>3, <1>4, <1>5

(* The answer about a miner never falls at one moment of the clock.        *)
LEMMA AddressInSight ==
    ASSUME WorkerInv, [Next]_vars, now' = now, NEW l \in 1 .. Retention, NEW a \in Addresses
    PROVE  HashrateForAddress(a, l)' >= HashrateForAddress(a, l)
  <1> DEFINE L == Lookback(l)
             f == minute_hashrates[a]
             g == minute_hashrates'[a]
  <1>1. Lookback(l)' = L
    BY DEF Lookback
  <1>2. IsFiniteSet(L)
    BY MinutesFinite, FS_Subset DEF Lookback
  <1>3. \A m \in L : f[m] \in Nat /\ g[m] \in Nat /\ f[m] <= g[m]
    BY RowsInSight
  <1>4. HashrateForAddress(a, l) = Sum(f, L)
    <2> HIDE DEF L
    <2> QED
      BY Zenon DEF HashrateForAddress, Sum, MapThenSumSet, MapThenFoldSet, L
  <1>5. HashrateForAddress(a, l)' = Sum(g, L)
    <2> HIDE DEF L
    <2> QED
      BY <1>1, Zenon DEF HashrateForAddress, Sum, MapThenSumSet, MapThenFoldSet
  <1> HIDE DEF L, f, g
  <1>6. Sum(f, L) <= Sum(g, L) /\ Sum(f, L) \in Nat /\ Sum(g, L) \in Nat
    BY <1>2, <1>3, SumMonotone, SumType
  <1> QED
    BY <1>4, <1>5, <1>6

(* The sum over pairs that a pool query computes, as a Sum.                *)
LEMMA RowSum ==
    ASSUME NEW h, NEW L
    PROVE  MapThenSumSet(LAMBDA r : h[r[1]][r[2]], L) = Sum([r \in L |-> h[r[1]][r[2]]], L)
  BY ZenonT(60) DEF Sum, MapThenSumSet, MapThenFoldSet

(* Nor does the answer about the pool.                                     *)
LEMMA PoolInSight ==
    ASSUME WorkerInv, [Next]_vars, now' = now, NEW l \in 1 .. Retention
    PROVE  PoolHashrate(l)' >= PoolHashrate(l)
  <1> DEFINE L == Addresses \X Lookback(l)
             f == [r \in L |-> minute_hashrates[r[1]][r[2]]]
             g == [r \in L |-> minute_hashrates'[r[1]][r[2]]]
  <1>1. Addresses \X Lookback(l)' = L
    BY DEF Lookback
  <1>2. IsFiniteSet(L)
    <2>1. IsFiniteSet(Addresses) /\ IsFiniteSet(Lookback(l))
      BY MinutesFinite, FS_Subset, DbAssumption DEF Lookback
    <2> QED
      BY <2>1, FS_Product
  <1>3. \A r \in L : f[r] \in Nat /\ g[r] \in Nat /\ f[r] <= g[r]
    BY RowsInSight
  <1>4. PoolHashrate(l) = Sum(f, L)
    <2>1. PoolHashrate(l) = MapThenSumSet(LAMBDA r : minute_hashrates[r[1]][r[2]], L)
      BY Zenon DEF PoolHashrate
    <2> QED
      BY <2>1, RowSum
  <1>5. PoolHashrate(l)' = Sum(g, L)
    <2>1. MapThenSumSet(LAMBDA r : minute_hashrates'[r[1]][r[2]], L) = Sum(g, L)
      BY RowSum
    <2> HIDE DEF L, g
    <2> QED
      BY <1>1, <2>1, Zenon DEF PoolHashrate, MapThenSumSet, MapThenFoldSet
  <1> HIDE DEF L, f, g
  <1>6. Sum(f, L) <= Sum(g, L) /\ Sum(f, L) \in Nat /\ Sum(g, L) \in Nat
    BY <1>2, <1>3, SumMonotone, SumType
  <1> QED
    BY <1>4, <1>5, <1>6

(* Pruning and late flushes stay out of the readers' sight: no step lowers *)
(* the answer to a query about a span the table is kept for.               *)
THEOREM ReadersSafe == Spec => ReadersLoseNothing
  <1>1. ASSUME WorkerInv, [Next]_vars
        PROVE  [\A l \in 1 .. Retention : now' = now =>
                  /\ PoolHashrate(l)' >= PoolHashrate(l)
                  /\ \A a \in Addresses :
                        HashrateForAddress(a, l)' >= HashrateForAddress(a, l)]_vars
    BY <1>1, AddressInSight, PoolInSight
  <1> QED
    BY <1>1, Invariance, PTL DEF Spec, ReadersLoseNothing
=============================================================================
