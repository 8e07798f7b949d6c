---------------------------- MODULE JobBytesProofs ----------------------------
(***************************************************************************)
(* Proofs about JobBytes: a coinbase that the pool puts together reads     *)
(* back as the transaction that was meant, and the merkle branch of the    *)
(* coinbase climbs to the root of the block, for every size of a byte, of  *)
(* scripts and of blocks.                                                  *)
(***************************************************************************)
EXTENDS JobBytes, FiniteSetTheorems, SequenceTheorems, TLAPS

LastIndex(s) == Max(s)
FirstIndex(s) == Min(s)

-----------------------------------------------------------------------------
(* ---- The merkle branch ---- *)

Hash == Seq(Int)
Bottom(txids) == [i \in 1 .. Len(txids) |-> Reverse(txids[i])]

ClimbOne(sibling, h) == Sha256dPair(h, sibling)
UpBranch(i, acc) ==
    IF acc.level = <<>> THEN acc
    ELSE [branch |-> Append(acc.branch, Head(acc.level)), level |-> MergedRest(acc.level)]
UpLevel(i, level) == IF Len(level) = 1 THEN level ELSE Paired(level)

Climbs == INSTANCE FoldTheory WITH Op <- ClimbOne, Choose <- LastIndex
Branches == INSTANCE FoldTheory WITH Op <- UpBranch, Choose <- LastIndex
Levels == INSTANCE FoldTheory WITH Op <- UpLevel, Choose <- LastIndex

(* Where the branch and the level stand after as many turns as q is long.  *)
BranchAfter(bottom, q) ==
    Branches!Fold([branch |-> <<>>, level |-> bottom], q, DOMAIN q)
LevelAfter(leaves, q) == Levels!Fold(leaves, q, DOMAIN q)

(* LastIndex is the last index of a sequence's domain.                     *)
LEMMA LastChooses ==
    ASSUME NEW n \in Nat, NEW T \in SUBSET (1 .. n), T # {}
    PROVE  LastIndex(T) \in T /\ \A y \in T : y <= LastIndex(T)
  <1>1. LastIndex(T) = CHOOSE x \in T : \A y \in T : x >= y
    BY DEF LastIndex, Max
  <1> QED
    BY <1>1, Climbs!LastOfIndices

(* An element in front of a sequence.                                      *)
LEMMA InFront ==
    ASSUME NEW S, NEW e \in S, NEW s \in Seq(S)
    PROVE  /\ <<e>> \o s \in Seq(S) /\ Len(<<e>> \o s) = Len(s) + 1
           /\ (<<e>> \o s)[1] = e
           /\ \A i \in 2 .. Len(s) + 1 : (<<e>> \o s)[i] = s[i - 1]
  <1> DEFINE f == <<e>>
  <1>1. f \in Seq(S) /\ Len(f) = 1 /\ f[1] = e /\ Len(s) \in Nat
    OBVIOUS
  <1> HIDE DEF f
  <1>0. /\ f \o s \in Seq(S) /\ Len(f \o s) = Len(f) + Len(s)
        /\ \A i \in 1 .. Len(f) + Len(s) :
              (f \o s)[i] = IF i <= Len(f) THEN f[i] ELSE s[i - Len(f)]
    BY <1>1, ConcatProperties, Zenon
  <1>2. /\ f \o s \in Seq(S) /\ Len(f \o s) = 1 + Len(s)
        /\ \A i \in 1 .. 1 + Len(s) : (f \o s)[i] = IF i <= 1 THEN f[i] ELSE s[i - 1]
    BY <1>0, <1>1, Zenon
  <1>3. (f \o s)[1] = e /\ \A i \in 2 .. Len(s) + 1 : (f \o s)[i] = s[i - 1]
    BY <1>1, <1>2
  <1>4. Len(f \o s) = Len(s) + 1
    BY <1>1, <1>2
  <1> QED
    BY <1>2, <1>3, <1>4, Zenon DEF f

(* The hash of a pair is a hash.                                           *)
LEMMA PairType == ASSUME NEW a \in Hash, NEW b \in Hash PROVE Sha256dPair(a, b) \in Hash
  <1>1. <<-1>> \in Seq(Int) /\ <<-2>> \in Seq(Int)
    OBVIOUS
  <1>2. <<-1>> \o a \in Seq(Int)
    BY <1>1, ConcatProperties DEF Hash
  <1>3. <<-1>> \o a \o b \in Seq(Int)
    BY <1>2, ConcatProperties DEF Hash
  <1> QED
    BY <1>1, <1>3, ConcatProperties DEF Hash, Sha256dPair

(* A level up a path.                                                      *)
LEMMA ClimbStep ==
    ASSUME NEW h
    PROVE  /\ Climb(h, <<>>) = h
           /\ \A b \in Seq(Hash), s \in Hash :
                 Climb(h, Append(b, s)) = Sha256dPair(Climb(h, b), s)
  <1>1. \A b : Climb(h, b) = Climbs!Fold(h, b, DOMAIN b)
    BY DEF Climb, FoldLeft, MapThenFoldSet, Climbs!Fold, Climbs!MapThenFoldSet, ClimbOne, LastIndex
  <1>2. Climbs!ChoosesLast
    BY LastChooses DEF Climbs!ChoosesLast
  <1>3. ASSUME NEW b \in Seq(Hash), NEW s \in Hash
        PROVE  Climb(h, Append(b, s)) = Sha256dPair(Climb(h, b), s)
    <2>1. Climbs!Fold(h, Append(b, s), DOMAIN Append(b, s))
          = ClimbOne(s, Climbs!Fold(h, b, DOMAIN b))
      BY <1>2, Climbs!FoldAppend
    <2> QED
      BY <1>1, <2>1 DEF ClimbOne
  <1>4. Climb(h, <<>>) = h
    BY <1>1, Climbs!FoldEmptySeq
  <1> QED
    BY <1>3, <1>4

(* The root over a path is a hash.                                         *)
LEMMA ClimbType == ASSUME NEW h \in Hash, NEW b \in Seq(Hash) PROVE Climb(h, b) \in Hash
  <1> DEFINE P == {q \in Seq(Hash) : Climb(h, q) \in Hash}
  <1>1. <<>> \in P
    BY ClimbStep
  <1>2. ASSUME NEW q \in Seq(Hash), NEW s \in Hash, q \in P PROVE Append(q, s) \in P
    <2>1. Climb(h, Append(q, s)) = Sha256dPair(Climb(h, q), s) /\ Append(q, s) \in Seq(Hash)
      BY ClimbStep, AppendProperties
    <2> QED
      BY <1>2, <2>1, PairType
  <1> HIDE DEF P
  <1>3. \A q \in Seq(Hash) : q \in P
    BY <1>1, <1>2, Climbs!SeqInduct
  <1> QED
    BY <1>3 DEF P

(* A turn of build_merkle_branch and of the consensus rule.                *)
LEMMA TurnStep ==
    ASSUME NEW bottom, NEW leaves
    PROVE  /\ BranchAfter(bottom, <<>>) = [branch |-> <<>>, level |-> bottom]
           /\ LevelAfter(leaves, <<>>) = leaves
           /\ \A D : \A q \in Seq(D), e \in D :
                 /\ BranchAfter(bottom, Append(q, e)) = UpBranch(e, BranchAfter(bottom, q))
                 /\ LevelAfter(leaves, Append(q, e)) = UpLevel(e, LevelAfter(leaves, q))
  <1>1. Branches!ChoosesLast /\ Levels!ChoosesLast
    BY LastChooses DEF Branches!ChoosesLast, Levels!ChoosesLast
  <1>2. BranchAfter(bottom, <<>>) = [branch |-> <<>>, level |-> bottom]
    BY Branches!FoldEmptySeq DEF BranchAfter
  <1>3. LevelAfter(leaves, <<>>) = leaves
    BY Levels!FoldEmptySeq DEF LevelAfter
  <1>4. ASSUME NEW D, NEW q \in Seq(D), NEW e \in D
        PROVE  /\ BranchAfter(bottom, Append(q, e)) = UpBranch(e, BranchAfter(bottom, q))
               /\ LevelAfter(leaves, Append(q, e)) = UpLevel(e, LevelAfter(leaves, q))
    <2>1. BranchAfter(bottom, Append(q, e)) = UpBranch(e, BranchAfter(bottom, q))
      BY <1>1, Branches!FoldAppend DEF BranchAfter
    <2>2. LevelAfter(leaves, Append(q, e)) = UpLevel(e, LevelAfter(leaves, q))
      BY <1>1, Levels!FoldAppend DEF LevelAfter
    <2> QED
      BY <2>1, <2>2
  <1> QED
    BY <1>2, <1>3, <1>4

(* The rest of a level, paired up, is made of hashes, and fewer.           *)
LEMMA MergedType ==
    ASSUME NEW level \in Seq(Hash), level # <<>>
    PROVE  /\ MergedRest(level) \in Seq(Hash)
           /\ Len(MergedRest(level)) = Len(level) \div 2
           /\ Len(level) \div 2 < Len(level)
  <1>1. Len(level) \in Nat \ {0}
    BY EmptySeq
  <1>2. Len(level) \div 2 \in Nat /\ Len(level) \div 2 < Len(level)
    BY <1>1
  <1>3. ASSUME NEW i \in 1 .. Len(level) \div 2
        PROVE  Sha256dPair(level[2 * i], level[IF 2 * i < Len(level) THEN 2 * i + 1 ELSE 2 * i])
               \in Hash
    <2>1. 2 * i \in 1 .. Len(level) /\ (2 * i < Len(level) => 2 * i + 1 \in 1 .. Len(level))
      BY <1>1
    <2>2. \A j \in 1 .. Len(level) : level[j] \in Hash
      BY ElementOfSeq
    <2> QED
      BY <2>1, <2>2, PairType
  <1>4. MergedRest(level) \in [1 .. Len(level) \div 2 -> Hash]
    BY <1>3 DEF MergedRest
  <1> QED
    BY <1>2, <1>4

(* Pairing a level up, coinbase first: the coinbase's hash is paired with  *)
(* the sibling that build_merkle_branch takes, the others with each other. *)
LEMMA PairedLevel ==
    ASSUME NEW h \in Hash, NEW level \in Seq(Hash), level # <<>>
    PROVE  Paired(<<h>> \o level) = <<Sha256dPair(h, Head(level))>> \o MergedRest(level)
  <1> DEFINE m == Len(level)
             full == <<h>> \o level
             first == <<Sha256dPair(h, Head(level))>>
             M == MergedRest(level)
  <1>1. m \in Nat \ {0} /\ Head(level) = level[1] /\ level[1] \in Hash
    BY EmptySeq, HeadTailProperties
  <1>2. /\ full \in Seq(Hash) /\ Len(full) = m + 1 /\ full[1] = h
        /\ \A i \in 2 .. m + 1 : full[i] = level[i - 1]
    BY InFront
  <1>3. /\ M \in Seq(Hash) /\ Len(M) = m \div 2
        /\ \A i \in 1 .. m \div 2 :
              M[i] = Sha256dPair(level[2 * i], level[IF 2 * i < m THEN 2 * i + 1 ELSE 2 * i])
    BY MergedType DEF MergedRest
  <1>4. Sha256dPair(h, level[1]) \in Hash
    BY <1>1, PairType
  <1>5. /\ first \o M \in Seq(Hash) /\ Len(first \o M) = 1 + m \div 2
        /\ (first \o M)[1] = Sha256dPair(h, level[1])
        /\ \A i \in 2 .. 1 + m \div 2 : (first \o M)[i] = M[i - 1]
    <2> DEFINE e == Sha256dPair(h, Head(level))
    <2>1. e \in Hash /\ e = Sha256dPair(h, level[1])
      BY <1>1, <1>4
    <2>2. m \div 2 \in Nat
      BY <1>1
    <2> HIDE DEF e, M
    <2>3. /\ <<e>> \o M \in Seq(Hash) /\ Len(<<e>> \o M) = Len(M) + 1
          /\ (<<e>> \o M)[1] = e
          /\ \A i \in 2 .. Len(M) + 1 : (<<e>> \o M)[i] = M[i - 1]
      BY <1>3, <2>1, InFront
    <2>4. m \div 2 + 1 = 1 + m \div 2
      BY <2>2
    <2> QED
      BY <1>3, <2>1, <2>3, <2>4 DEF e
  <1>6. (m + 2) \div 2 = 1 + m \div 2 /\ m \div 2 \in Nat
    BY <1>1
  <1> HIDE DEF full, first, M
  <1>7. ASSUME NEW i \in 1 .. 1 + m \div 2
        PROVE  Sha256dPair(full[2 * i - 1], full[IF 2 * i <= Len(full) THEN 2 * i ELSE 2 * i - 1])
               = (first \o M)[i]
    <2>1. CASE i = 1
      <3>1. 2 * i - 1 = 1 /\ 2 * i = 2 /\ 2 <= Len(full) /\ full[2] = level[1]
        BY <1>1, <1>2, <2>1
      <3> QED
        BY <1>2, <1>5, <2>1, <3>1
    <2>2. CASE i # 1
      <3> DEFINE j == i - 1
      <3>1. /\ j \in 1 .. m \div 2 /\ i \in 2 .. 1 + m \div 2
            /\ 2 * i - 1 \in 2 .. m + 1 /\ (2 * i - 1) - 1 = 2 * j
            /\ 2 * i <= m + 1 <=> 2 * j < m
            /\ 2 * j < m => 2 * i \in 2 .. m + 1 /\ 2 * i - 1 = 2 * j + 1
        BY <1>1, <1>6, <2>2
      <3>2. full[2 * i - 1] = level[2 * j]
        BY <1>2, <3>1
      <3>3. full[IF 2 * i <= Len(full) THEN 2 * i ELSE 2 * i - 1]
            = level[IF 2 * j < m THEN 2 * j + 1 ELSE 2 * j]
        <4>1. CASE 2 * j < m
          BY <1>2, <3>1, <4>1
        <4>2. CASE ~(2 * j < m)
          BY <1>2, <3>1, <3>2, <4>2
        <4> QED
          BY <4>1, <4>2
      <3>4. (first \o M)[i] = M[j]
        BY <1>5, <3>1
      <3> HIDE DEF j
      <3> QED
        BY <1>3, <3>1, <3>2, <3>3, <3>4
    <2> QED
      BY <2>1, <2>2
  <1>8. Paired(full) = [i \in 1 .. 1 + m \div 2 |-> (first \o M)[i]]
    <2>1. (Len(full) + 1) \div 2 = 1 + m \div 2
      BY <1>1, <1>2, <1>6
    <2> HIDE DEF m
    <2> QED
      BY <1>7, <2>1 DEF Paired
  <1>9. first \o M = [i \in 1 .. 1 + m \div 2 |-> (first \o M)[i]]
    BY <1>5, LenProperties
  <1> QED
    BY <1>8, <1>9 DEF full, first, M

(* The coinbase's hash after as many turns of the consensus rule is the    *)
(* root over the branch so far, followed by the level build_merkle_branch  *)
(* is at; a level gets shorter until nothing is left.                      *)
InStep(h, bottom, q) ==
    LET acc == BranchAfter(bottom, q)
    IN  /\ acc.branch \in Seq(Hash) /\ acc.level \in Seq(Hash)
        /\ LevelAfter(<<h>> \o bottom, q) = <<Climb(h, acc.branch)>> \o acc.level
        /\ acc.level # <<>> => Len(acc.level) + Len(q) <= Len(bottom)

(* Both climb the tree in step.                                            *)
LEMMA ClimbInStep ==
    ASSUME NEW h \in Hash, NEW bottom \in Seq(Hash), NEW D, NEW r \in Seq(D)
    PROVE  InStep(h, bottom, r)
  <1> DEFINE P == {q \in Seq(D) : InStep(h, bottom, q)}
             leaves == <<h>> \o bottom
  <1>1. <<>> \in P
    <2>1. BranchAfter(bottom, <<>>) = [branch |-> <<>>, level |-> bottom]
      BY TurnStep
    <2>2. LevelAfter(leaves, <<>>) = leaves /\ Climb(h, <<>>) = h
      BY TurnStep, ClimbStep
    <2>3. Len(bottom) + Len(<<>>) <= Len(bottom)
      OBVIOUS
    <2>4. <<>> \in Seq(Hash) /\ <<>> \in Seq(D)
      OBVIOUS
    <2>5. BranchAfter(bottom, <<>>).branch = <<>> /\ BranchAfter(bottom, <<>>).level = bottom
      BY <2>1
    <2>6. InStep(h, bottom, <<>>)
      BY <2>2, <2>3, <2>4, <2>5, Zenon DEF InStep
    <2> QED
      BY <2>4, <2>6
  <1>2. ASSUME NEW q \in Seq(D), NEW e \in D, q \in P PROVE Append(q, e) \in P
    <2> DEFINE acc == BranchAfter(bottom, q)
               level == LevelAfter(leaves, q)
               c == Climb(h, acc.branch)
    <2>1. /\ acc.branch \in Seq(Hash) /\ acc.level \in Seq(Hash)
          /\ level = <<c>> \o acc.level
          /\ acc.level # <<>> => Len(acc.level) + Len(q) <= Len(bottom)
      BY <1>2 DEF InStep
    <2>2. /\ BranchAfter(bottom, Append(q, e)) = UpBranch(e, acc)
          /\ LevelAfter(leaves, Append(q, e)) = UpLevel(e, level)
      BY TurnStep
    <2>3. c \in Hash
      BY <2>1, ClimbType
    <2>4. Append(q, e) \in Seq(D) /\ Len(Append(q, e)) = Len(q) + 1 /\ Len(q) \in Nat
      BY AppendProperties
    <2>5. Len(level) = Len(acc.level) + 1 /\ Len(acc.level) \in Nat
      BY <2>1, <2>3, InFront
    <2> HIDE DEF acc, level, c, leaves
    <2>6. CASE acc.level = <<>>
      <3>1. Len(level) = 1
        BY <2>5, <2>6
      <3>2. UpBranch(e, acc) = acc /\ UpLevel(e, level) = level
        BY <2>6, <3>1 DEF UpBranch, UpLevel
      <3>3. InStep(h, bottom, Append(q, e))
        BY <2>1, <2>2, <2>6, <3>2 DEF InStep, c, leaves
      <3> QED
        BY <2>4, <3>3
    <2>7. CASE acc.level # <<>>
      <3> DEFINE s == Head(acc.level)
                 M == MergedRest(acc.level)
      <3>1. Len(level) # 1 /\ s \in Hash
        <4>1. Len(acc.level) # 0
          BY <2>1, <2>7, EmptySeq
        <4>2. s \in Hash
          BY <2>1, <2>7, HeadTailProperties
        <4> QED
          BY <2>5, <4>1, <4>2
      <3>2. UpBranch(e, acc) = [branch |-> Append(acc.branch, s), level |-> M]
        BY <2>7 DEF UpBranch
      <3>3. UpLevel(e, level) = <<Sha256dPair(c, s)>> \o M
        BY <2>1, <2>3, <2>7, <3>1, PairedLevel DEF UpLevel
      <3>4. Climb(h, Append(acc.branch, s)) = Sha256dPair(c, s)
        BY <2>1, <3>1, ClimbStep, ZenonT(60) DEF c
      <3>5. M \in Seq(Hash) /\ Len(M) < Len(acc.level) /\ Len(M) \in Nat
        BY <2>1, <2>7, MergedType
      <3>6. Append(acc.branch, s) \in Seq(Hash)
        BY <2>1, <3>1
      <3> HIDE DEF s, M
      <3>7. Len(M) + Len(Append(q, e)) <= Len(bottom)
        BY <2>1, <2>4, <2>5, <2>7, <3>5
      <3>9. /\ BranchAfter(bottom, Append(q, e)).branch = Append(acc.branch, s)
            /\ BranchAfter(bottom, Append(q, e)).level = M
        BY <2>2, <3>2
      <3>8. InStep(h, bottom, Append(q, e))
        BY <2>2, <3>3, <3>4, <3>5, <3>6, <3>7, <3>9, Zenon DEF InStep, leaves
      <3> QED
        BY <2>4, <3>8
    <2> QED
      BY <2>6, <2>7
  <1> HIDE DEF P
  <1>3. \A q \in Seq(D) : q \in P
    BY <1>1, <1>2, Climbs!SeqInduct
  <1> QED
    BY <1>3 DEF P

(* Where the branch stands depends on the number of turns only.            *)
LEMMA SameTurns ==
    ASSUME NEW bottom, NEW D, NEW E, NEW r \in Seq(D), NEW s \in Seq(E), Len(r) = Len(s)
    PROVE  BranchAfter(bottom, r) = BranchAfter(bottom, s)
  <1> DEFINE P == {q \in Seq(D) : \A t \in Seq(E) :
                      Len(t) = Len(q) => BranchAfter(bottom, t) = BranchAfter(bottom, q)}
  <1>1. <<>> \in P
    <2>1. <<>> \in Seq(D) /\ \A t \in Seq(E) : Len(t) = Len(<<>>) => t = <<>>
      BY EmptySeq
    <2> QED
      BY <2>1
  <1>2. ASSUME NEW q \in Seq(D), NEW e \in D, q \in P PROVE Append(q, e) \in P
    <2>0. Append(q, e) \in Seq(D) /\ Len(Append(q, e)) = Len(q) + 1 /\ Len(q) \in Nat
      BY AppendProperties
    <2>1. ASSUME NEW t \in Seq(E), Len(t) = Len(Append(q, e))
          PROVE  BranchAfter(bottom, t) = BranchAfter(bottom, Append(q, e))
      <3>1. t # <<>>
        BY <2>0, <2>1
      <3>2. PICK u \in Seq(E), x \in E : t = Append(u, x)
        BY <3>1, SequenceEmptyOrAppend
      <3>3. Len(t) = Len(u) + 1 /\ Len(u) \in Nat
        BY <3>2, AppendProperties
      <3>4. Len(u) = Len(q)
        BY <2>0, <2>1, <3>3
      <3>5. BranchAfter(bottom, u) = BranchAfter(bottom, q)
        BY <1>2, <3>4
      <3>6. /\ BranchAfter(bottom, t) = UpBranch(x, BranchAfter(bottom, u))
            /\ BranchAfter(bottom, Append(q, e)) = UpBranch(e, BranchAfter(bottom, q))
        BY <3>2, TurnStep
      <3> QED
        BY <3>5, <3>6 DEF UpBranch
    <2> QED
      BY <2>0, <2>1
  <1> HIDE DEF P
  <1>3. \A q \in Seq(D) : q \in P
    BY <1>1, <1>2, Climbs!SeqInduct
  <1> QED
    BY <1>3 DEF P

(* The path build_merkle_branch computes leads from the coinbase's hash to *)
(* the root the consensus rule gives for the coinbase followed by the      *)
(* template's transactions, whatever their number.                         *)
THEOREM BranchLeadsToRoot ==
    ASSUME NEW h \in Hash, NEW txids \in Seq(Hash)
    PROVE  Climb(h, BuildMerkleBranch(txids)) = MerkleRoot(<<h>> \o Bottom(txids))
  <1> DEFINE bottom == Bottom(txids)
             leaves == <<h>> \o bottom
             n == Len(txids)
  <1>1. n \in Nat /\ bottom \in Seq(Hash) /\ Len(bottom) = n
    <2>1. ASSUME NEW i \in 1 .. n PROVE Reverse(txids[i]) \in Hash
      <3>1. txids[i] \in Seq(Int)
        BY ElementOfSeq DEF Hash
      <3> QED
        BY <3>1 DEF Reverse, Hash
    <2>2. n \in Nat
      OBVIOUS
    <2> QED
      BY <2>1, <2>2 DEF Bottom
  <1>2. leaves \in Seq(Hash) /\ Len(leaves) = n + 1
    BY <1>1, InFront
  <1>3. BuildMerkleBranch(txids) = BranchAfter(bottom, txids).branch
    BY DEF BuildMerkleBranch, Bottom, BranchAfter, FoldLeft, MapThenFoldSet, Branches!Fold,
           Branches!MapThenFoldSet, UpBranch, LastIndex
  <1>4. MerkleRoot(leaves) = LevelAfter(leaves, leaves)[1]
    <2> HIDE DEF leaves
    <2> QED
      BY DEF MerkleRoot, LevelAfter, FoldLeft, MapThenFoldSet, Levels!Fold,
             Levels!MapThenFoldSet, UpLevel, LastIndex
  <1> HIDE DEF bottom
  <1>5. BranchAfter(bottom, txids).level = <<>>
    <2>1. /\ BranchAfter(bottom, txids).level \in Seq(Hash)
          /\ BranchAfter(bottom, txids).level # <<>>
                => Len(BranchAfter(bottom, txids).level) + n <= Len(bottom)
      BY <1>1, ClimbInStep DEF InStep
    <2>2. \A s \in Seq(Hash) : s # <<>> => Len(s) \in Nat \ {0}
      BY EmptySeq
    <2> QED
      BY <1>1, <2>1, <2>2
  <1>6. BranchAfter(bottom, leaves) = BranchAfter(bottom, txids)
    <2>1. leaves # <<>>
      BY <1>1, <1>2
    <2>2. PICK q \in Seq(Hash), e \in Hash : leaves = Append(q, e)
      BY <1>2, <2>1, SequenceEmptyOrAppend
    <2>3. Len(q) = n
      BY <1>1, <1>2, <2>2, AppendProperties
    <2>4. BranchAfter(bottom, q) = BranchAfter(bottom, txids)
      BY <2>3, SameTurns
    <2>5. BranchAfter(bottom, leaves) = UpBranch(e, BranchAfter(bottom, q))
      BY <2>2, TurnStep, ZenonT(60)
    <2> QED
      BY <1>5, <2>4, <2>5 DEF UpBranch
  <1>7. LevelAfter(leaves, leaves)
        = <<Climb(h, BranchAfter(bottom, leaves).branch)>> \o BranchAfter(bottom, leaves).level
    BY <1>1, <1>2, ClimbInStep DEF InStep
  <1>8. LevelAfter(leaves, leaves) = <<Climb(h, BuildMerkleBranch(txids))>> \o <<>>
    BY <1>3, <1>5, <1>6, <1>7
  <1>9. Climb(h, BuildMerkleBranch(txids)) \in Hash
    <2>1. BranchAfter(bottom, txids).branch \in Seq(Hash)
      BY <1>1, ClimbInStep DEF InStep
    <2> QED
      BY <1>3, <2>1, ClimbType
  <1>10. LevelAfter(leaves, leaves)[1] = Climb(h, BuildMerkleBranch(txids))
    <2>1. <<>> \in Seq(Hash)
      OBVIOUS
    <2> QED
      BY <1>8, <1>9, <2>1, InFront
  <1> QED
    BY <1>4, <1>10 DEF bottom

-----------------------------------------------------------------------------
(* ---- Integers in bytes ---- *)

Byte == 0 .. TxBase - 1

ShiftOne(b, v) == v \div b
LittleEnd(b, v) == v * TxBase + b

Shifts == INSTANCE FoldTheory WITH Op <- ShiftOne, Choose <- LastIndex
Numbers == INSTANCE FoldTheory WITH Op <- LittleEnd, Choose <- FirstIndex

(* The sizes are positive naturals.                                        *)
LEMMA Sizes ==
    /\ TxBase \in Nat \ {0} /\ TxBase >= 5 /\ HashSize \in 0 .. TxBase - 4
    /\ PrefixSize \in Nat /\ PrefixSize >= 4 /\ Extranonce2Size \in Nat
    /\ TxBase * TxBase \in Nat /\ TxBase * TxBase * TxBase * TxBase \in Nat
  <1>1. /\ TxBase \in Nat /\ TxBase >= 5 /\ HashSize \in 0 .. TxBase - 4
        /\ PrefixSize \in Nat /\ PrefixSize >= 4 /\ Extranonce2Size \in Nat
    BY CoinbaseAssumption
  <1> QED
    BY <1>1

(* Division with remainder.                                                *)
LEMMA DivMod ==
    ASSUME NEW n \in Nat
    PROVE  /\ n \div TxBase \in Nat /\ n % TxBase \in Byte
           /\ (n \div TxBase) * TxBase + (n % TxBase) = n
  <1> DEFINE q == n \div TxBase
             r == n % TxBase
  <1>1. q \in Nat /\ r \in 0 .. TxBase - 1
    BY Sizes, SMT
  <1>2. n - q * TxBase = r
    BY Sizes, Z3
  <1> HIDE DEF q, r
  <1>3. q * TxBase + r = n
    BY <1>1, <1>2, Sizes
  <1> QED
    BY <1>1, <1>3 DEF q, r, Byte

(* A quotient is below a bound if the number is below their product.       *)
LEMMA QuotientBelow ==
    ASSUME NEW n \in Nat, NEW k \in Nat
    PROVE  n \div TxBase < k <=> n < k * TxBase
  <1> DEFINE q == n \div TxBase
             r == n % TxBase
  <1>1. q \in Nat /\ r \in 0 .. TxBase - 1 /\ q * TxBase + r = n
    BY DivMod DEF Byte
  <1> HIDE DEF q, r
  <1>2. CASE q < k
    <2>1. (q + 1) * TxBase <= k * TxBase
      BY <1>1, <1>2, Sizes, Z3
    <2> QED
      BY <1>1, <1>2, <2>1, Sizes, Z3 DEF q
  <1>3. CASE k <= q
    <2>1. k * TxBase <= q * TxBase
      BY <1>1, <1>3, Sizes, Z3
    <2> QED
      BY <1>1, <1>3, <2>1, Sizes, Z3 DEF q
  <1> QED
    BY <1>1, <1>2, <1>3

(* A quotient grows with its number.                                       *)
LEMMA QuotientMonotone ==
    ASSUME NEW m \in Nat, NEW n \in Nat, m <= n
    PROVE  m \div TxBase <= n \div TxBase
  <1>1. m \div TxBase \in Nat /\ n \div TxBase \in Nat
    BY DivMod
  <1> DEFINE k == m \div TxBase
  <1>2. ~(m < k * TxBase)
    BY <1>1, QuotientBelow
  <1>3. ~(n \div TxBase < k) <=> ~(n < k * TxBase)
    BY <1>1, QuotientBelow
  <1>4. k * TxBase \in Nat
    BY <1>1, Sizes
  <1> QED
    BY <1>1, <1>2, <1>3, <1>4

(* One more byte is shifted out.                                           *)
LEMMA ShiftStep ==
    ASSUME NEW n
    PROVE  /\ Shift(n, 0) = n
           /\ \A k \in Nat : Shift(n, k + 1) = Shift(n, k) \div TxBase
  <1> DEFINE F(k) == [i \in 1 .. k |-> TxBase]
  <1>1. \A k : Shift(n, k) = Shifts!Fold(n, F(k), DOMAIN F(k))
    BY DEF Shift, FoldLeft, MapThenFoldSet, Shifts!Fold, Shifts!MapThenFoldSet, ShiftOne, LastIndex
  <1>2. Shifts!ChoosesLast
    BY LastChooses DEF Shifts!ChoosesLast
  <1>3. F(0) = <<>>
    OBVIOUS
  <1>4. ASSUME NEW k \in Nat PROVE Shift(n, k + 1) = Shift(n, k) \div TxBase
    <2>1. F(k) \in Seq(Nat) /\ Len(F(k)) = k /\ TxBase \in Nat
      BY Sizes
    <2>2. F(k + 1) = Append(F(k), TxBase)
      <3>1. F(k + 1) \in Seq(Nat) /\ Len(F(k + 1)) = k + 1
        BY Sizes
      <3>2. \A i \in 1 .. k + 1 : F(k + 1)[i] = Append(F(k), TxBase)[i]
        BY <2>1
      <3>3. Append(F(k), TxBase) \in Seq(Nat) /\ Len(Append(F(k), TxBase)) = k + 1
        BY <2>1
      <3> HIDE DEF F
      <3> QED
        BY <3>1, <3>2, <3>3, SeqEqual
    <2> HIDE DEF F
    <2>3. Shifts!Fold(n, Append(F(k), TxBase), DOMAIN Append(F(k), TxBase))
          = ShiftOne(TxBase, Shifts!Fold(n, F(k), DOMAIN F(k)))
      BY <1>2, <2>1, Shifts!FoldAppend
    <2> QED
      BY <1>1, <2>2, <2>3 DEF ShiftOne
  <1>5. Shift(n, 0) = n
    <2> HIDE DEF F
    <2> QED
      BY <1>1, <1>3, Shifts!FoldEmptySeq
  <1> QED
    BY <1>4, <1>5

(* What is left of a number is a number.                                   *)
LEMMA ShiftType == \A n \in Nat, k \in Nat : Shift(n, k) \in Nat
  <1> SUFFICES ASSUME NEW n \in Nat PROVE \A k \in Nat : Shift(n, k) \in Nat
    OBVIOUS
  <1> DEFINE P == {k \in Nat : Shift(n, k) \in Nat}
  <1>1. 0 \in P
    BY ShiftStep
  <1>2. ASSUME NEW k \in Nat, k \in P PROVE k + 1 \in P
    <2>1. Shift(n, k + 1) = Shift(n, k) \div TxBase /\ Shift(n, k) \in Nat
      BY <1>2, ShiftStep
    <2>2. Shift(n, k) \div TxBase \in Nat
      BY <2>1, DivMod
    <2> QED
      BY <2>1, <2>2
  <1> HIDE DEF P
  <1>3. \A k \in Nat : k \in P
    BY <1>1, <1>2, Shifts!NatInduct
  <1> QED
    BY <1>3 DEF P

(* What is left of a smaller number is smaller.                            *)
LEMMA ShiftMonotone ==
    ASSUME NEW m \in Nat, NEW n \in Nat, m <= n
    PROVE  \A k \in Nat : Shift(m, k) <= Shift(n, k)
  <1> DEFINE P == {k \in Nat : Shift(m, k) <= Shift(n, k)}
  <1>1. 0 \in P
    BY ShiftStep
  <1>2. ASSUME NEW k \in Nat, k \in P PROVE k + 1 \in P
    <2>1. Shift(m, k) \in Nat /\ Shift(n, k) \in Nat /\ Shift(m, k) <= Shift(n, k)
      BY <1>2, ShiftType
    <2>2. /\ Shift(m, k + 1) = Shift(m, k) \div TxBase
          /\ Shift(n, k + 1) = Shift(n, k) \div TxBase
      BY ShiftStep
    <2>3. Shift(m, k) \div TxBase <= Shift(n, k) \div TxBase
      BY <2>1, QuotientMonotone
    <2> QED
      BY <2>2, <2>3
  <1> HIDE DEF P
  <1>3. \A k \in Nat : k \in P
    BY <1>1, <1>2, Shifts!NatInduct
  <1> QED
    BY <1>3 DEF P

(* A number that is smaller, or in a wider field, fits too.                *)
LEMMA FitsMore ==
    ASSUME NEW k \in Nat, NEW n, Fits(n, k)
    PROVE  n \in Nat /\ Fits(n, k + 1) /\ \A m \in Nat : m <= n => Fits(m, k)
  <1>1. n \in Nat /\ Shift(n, k) = 0
    BY DEF Fits
  <1>2. Shift(n, k + 1) = 0 \div TxBase
    BY <1>1, ShiftStep
  <1>3. 0 \div TxBase = 0
    BY Sizes
  <1>4. ASSUME NEW m \in Nat, m <= n PROVE Shift(m, k) = 0
    BY <1>1, <1>4, ShiftMonotone, ShiftType
  <1> QED
    BY <1>1, <1>2, <1>3, <1>4 DEF Fits

(* The numbers of two, of four and of eight bytes.                         *)
LEMMA FitsWide ==
    ASSUME NEW n \in Nat
    PROVE  /\ Fits(n, 2) <=> n <= Max16
           /\ Fits(n, 4) <=> n <= Max32
           /\ n < TxBase => Fits(n, 1)
           /\ Fits(n, 1) => Fits(n, 2)
           /\ Fits(n, 2) => Fits(n, 4)
           /\ Fits(n, 4) => Fits(n, 8)
  <1> DEFINE B == TxBase
             S(k) == Shift(n, k)
  <1>1. \A k \in Nat : S(k) \in Nat /\ S(k + 1) = S(k) \div B
    BY ShiftType, ShiftStep
  <1>2. S(0) = n
    BY ShiftStep
  <1>3. B \in Nat /\ 1 * B = B /\ B * B \in Nat /\ B * B * B \in Nat /\ B * B * B * B \in Nat
    BY Sizes
  <1>4. \A k \in Nat, c \in Nat : S(k + 1) < c <=> S(k) < c * B
    BY <1>1, QuotientBelow
  <1> HIDE DEF B, S
  <1>5. S(1) < 1 <=> S(0) < 1 * B
    BY <1>4
  <1>6. S(2) < 1 <=> S(1) < 1 * B
    BY <1>4
  <1>7. S(1) < B <=> S(0) < B * B
    BY <1>3, <1>4
  <1>8. S(4) < 1 <=> S(3) < 1 * B
    BY <1>4
  <1>9. S(3) < B <=> S(2) < B * B
    BY <1>3, <1>4
  <1>10. S(2) < B * B <=> S(1) < B * B * B
    BY <1>3, <1>4
  <1>11. S(1) < B * B * B <=> S(0) < B * B * B * B
    BY <1>3, <1>4
  <1>12. \A k \in {1, 2, 4} : Fits(n, k) <=> S(k) < 1
    BY <1>1 DEF Fits, S
  <1>13. /\ n < B * B <=> n <= Max16
         /\ n < B * B * B * B <=> n <= Max32
    BY <1>3 DEF Max16, Max32, B
  <1>14. n < B <=> n < TxBase
    BY DEF B
  <1>15. Fits(n, 1) => Fits(n, 2)
    BY FitsMore
  <1>16. Fits(n, 2) => Fits(n, 4)
    <2>1. Fits(n, 2) => Fits(n, 3)
      BY FitsMore
    <2>2. Fits(n, 3) => Fits(n, 4)
      BY FitsMore
    <2> QED
      BY <2>1, <2>2
  <1>17. Fits(n, 4) => Fits(n, 8)
    <2>1. Fits(n, 4) => Fits(n, 5)
      BY FitsMore
    <2>2. Fits(n, 5) => Fits(n, 6)
      BY FitsMore
    <2>3. Fits(n, 6) => Fits(n, 7)
      BY FitsMore
    <2>4. Fits(n, 7) => Fits(n, 8)
      BY FitsMore
    <2> QED
      BY <2>1, <2>2, <2>3, <2>4
  <1>18. Fits(n, 2) <=> n <= Max16
    BY <1>2, <1>3, <1>6, <1>7, <1>12, <1>13
  <1>19. Fits(n, 4) <=> n <= Max32
    BY <1>2, <1>3, <1>8, <1>9, <1>10, <1>11, <1>12, <1>13
  <1>20. n < TxBase => Fits(n, 1)
    BY <1>2, <1>3, <1>5, <1>12, <1>14
  <1> QED
    BY <1>15, <1>16, <1>17, <1>18, <1>19, <1>20, Zenon

(* FirstIndex is the least of a set of indices.                            *)
LEMMA FirstChooses ==
    ASSUME NEW T \in SUBSET Nat, T # {}
    PROVE  FirstIndex(T) \in T /\ \A y \in T : FirstIndex(T) <= y
  <1>1. \E x \in T : \A y \in T : x <= y
    BY Shifts!NatMinimum
  <1>2. FirstIndex(T) = CHOOSE x \in T : \A y \in T : x <= y
    BY DEF FirstIndex, Min
  <1> QED
    BY <1>1, <1>2, Zenon

(* The bytes of a number are bytes.                                        *)
LEMMA LeBytesType ==
    ASSUME NEW n \in Nat, NEW k \in Nat
    PROVE  /\ LeBytes(n, k) \in Strings /\ Len(LeBytes(n, k)) = k
           /\ \A i \in 1 .. k : LeBytes(n, k)[i] = Shift(n, i - 1) % TxBase
  <1>1. ASSUME NEW i \in 1 .. k PROVE Shift(n, i - 1) % TxBase \in Byte
    <2>1. i - 1 \in Nat
      OBVIOUS
    <2> QED
      BY <2>1, ShiftType, DivMod
  <1>2. LeBytes(n, k) \in [1 .. k -> Byte]
    BY <1>1 DEF LeBytes
  <1> QED
    BY <1>2 DEF LeBytes, Strings, Byte

(* A number is read back from its bytes, if it has no more of them.        *)
LEMMA FromLeBytes ==
    ASSUME NEW k \in Nat, NEW n, Fits(n, k)
    PROVE  FromLe(LeBytes(n, k)) = n
  <1> DEFINE s == LeBytes(n, k)
             F(S) == Numbers!Fold(0, s, S)
             P == {i \in Nat : i <= k => F((k - i) + 1 .. k) = Shift(n, k - i)}
  <1>1. n \in Nat /\ Shift(n, k) = 0
    BY DEF Fits
  <1>2. FromLe(s) = F(DOMAIN s)
    <2> HIDE DEF s
    <2> QED
      BY DEF FromLe, FoldRight, MapThenFoldSet, Numbers!Fold, Numbers!MapThenFoldSet,
             LittleEnd, FirstIndex
  <1>3. DOMAIN s = 1 .. k /\ \A i \in 1 .. k : s[i] = Shift(n, i - 1) % TxBase
    BY DEF LeBytes
  <1> HIDE DEF s
  <1>4. 0 \in P
    <2>1. (k - 0) + 1 .. k = {} /\ k - 0 = k
      OBVIOUS
    <2>2. F({}) = 0
      BY Numbers!FoldEmpty
    <2> QED
      BY <1>1, <2>1, <2>2
  <1>5. ASSUME NEW i \in Nat, i \in P PROVE i + 1 \in P
    <2> SUFFICES ASSUME i + 1 <= k
                 PROVE  F((k - (i + 1)) + 1 .. k) = Shift(n, k - (i + 1))
      OBVIOUS
    <2> DEFINE j == k - i
               S == j .. k
               v == Shift(n, j - 1)
    <2>1. /\ j \in 1 .. k /\ j \in Nat /\ j - 1 \in Nat /\ (j - 1) + 1 = j
          /\ k - (i + 1) = j - 1 /\ (k - (i + 1)) + 1 = j
      OBVIOUS
    <2>2. F(j + 1 .. k) = Shift(n, j)
      BY <1>5
    <2> HIDE DEF j
    <2>3. S \subseteq 1 .. k /\ S # {} /\ j \in S /\ \A y \in S : j <= y
      BY <2>1
    <2>4. IsFiniteSet(S) /\ \A T \in SUBSET S : T # {} => FirstIndex(T) \in T
      <3>1. IsFiniteSet(S)
        BY <2>1, FS_Interval
      <3>2. ASSUME NEW T \in SUBSET S, T # {} PROVE FirstIndex(T) \in T
        <4>1. T \in SUBSET Nat
          BY <2>3
        <4> QED
          BY <3>2, <4>1, FirstChooses
      <3> QED
        BY <3>1, <3>2
    <2>5. FirstIndex(S) = j
      <3>1. S \in SUBSET Nat
        BY <2>3
      <3>2. FirstIndex(S) \in S /\ FirstIndex(S) <= j
        BY <2>3, <3>1, FirstChooses
      <3> QED
        BY <2>1, <2>3, <3>1, <3>2
    <2>6. S \ {j} = j + 1 .. k
      <3>1. \A x : x \in S \ {j} <=> x \in j + 1 .. k
        BY <2>1
      <3> QED
        BY <3>1
    <2>7. F(S) = LittleEnd(s[FirstIndex(S)], F(S \ {FirstIndex(S)}))
      <3> HIDE DEF S
      <3>1. Numbers!IsFiniteSet(S) /\ Numbers!Chooses(S)
        BY <2>4 DEF Numbers!Chooses, Numbers!IsFiniteSet, IsFiniteSet
      <3> QED
        BY <2>3, <3>1, Numbers!FoldStep
    <2>8. F(S) = Shift(n, j) * TxBase + (v % TxBase)
      BY <1>3, <2>1, <2>2, <2>5, <2>6, <2>7 DEF LittleEnd
    <2>9. Shift(n, j) = v \div TxBase /\ v \in Nat
      <3>1. Shift(n, (j - 1) + 1) = v \div TxBase
        BY <2>1, ShiftStep
      <3>2. v \in Nat
        BY <1>1, <2>1, ShiftType
      <3> QED
        BY <2>1, <3>1, <3>2
    <2>10. F(S) = v
      BY <2>8, <2>9, DivMod
    <2> QED
      BY <2>1, <2>10
  <1> HIDE DEF P
  <1>6. \A i \in Nat : i \in P
    BY <1>4, <1>5, Shifts!NatInduct
  <1>7. F(1 .. k) = Shift(n, 0)
    <2>1. (k - k) + 1 = 1 /\ k - k = 0 /\ k <= k
      OBVIOUS
    <2> QED
      BY <1>6, <2>1 DEF P
  <1> QED
    BY <1>2, <1>3, <1>7, ShiftStep DEF s

-----------------------------------------------------------------------------
(* ---- Sizes ---- *)

(* The widths of the sizes that a byte announces.                          *)
LEMMA WideIs ==
    /\ Wide[1] = 2 /\ Wide[2] = 4 /\ Wide[3] = 8 /\ 1 .. 3 = {1, 2, 3}
    /\ \A j \in 1 .. 3 : Wide[j] \in Nat \ {0}
  <1>1. Wide[1] = 2 /\ Wide[2] = 4 /\ Wide[3] = 8
    BY DEF Wide
  <1>2. 1 .. 3 = {1, 2, 3}
    OBVIOUS
  <1> QED
    BY <1>1, <1>2

(* Two strings in a row are a string.                                      *)
LEMMA CatType ==
    ASSUME NEW x \in Strings, NEW y \in Strings
    PROVE  x \o y \in Strings /\ Len(x \o y) = Len(x) + Len(y) /\ Len(x) \in Nat /\ Len(y) \in Nat
  BY ConcatProperties, LenProperties DEF Strings

(* The bytes of two strings in a row.                                      *)
LEMMA CatAt ==
    ASSUME NEW x \in Strings, NEW y \in Strings
    PROVE  \A i \in 1 .. Len(x) + Len(y) : (x \o y)[i] = IF i <= Len(x) THEN x[i] ELSE y[i - Len(x)]
  BY ConcatProperties DEF Strings

(* They are cut apart again.                                               *)
LEMMA CutTwo ==
    ASSUME NEW x \in Strings, NEW y \in Strings
    PROVE  /\ SubSeq(x \o y, 1, Len(x)) = x
           /\ SubSeq(x \o y, Len(x) + 1, Len(x \o y)) = y
  BY Shifts!CutConcat DEF Strings

(* So are three.                                                           *)
LEMMA CutThree ==
    ASSUME NEW x \in Strings, NEW y \in Strings, NEW z \in Strings
    PROVE  /\ SubSeq(x \o y \o z, Len(x) + 1, Len(x) + Len(y)) = y
           /\ SubSeq(x \o y \o z, Len(x) + Len(y) + 1, Len(x \o y \o z)) = z
  BY Shifts!CutMiddle DEF Strings

(* Strings in a row may be taken together in any way.                      *)
LEMMA Assoc ==
    ASSUME NEW x \in Strings, NEW y \in Strings, NEW z \in Strings
    PROVE  x \o y \o z = x \o (y \o z)
  BY ConcatAssociative DEF Strings

(* The second and the third of three strings in a row.                     *)
CutApart(x, y, z) ==
    /\ SubSeq(x \o y \o z, Len(x) + 1, Len(x) + Len(y)) = y
    /\ SubSeq(x \o y \o z, Len(x) + Len(y) + 1, Len(x \o y \o z)) = z

(* CutThree in a form that is only used where it is asked for.             *)
LEMMA CutNamed ==
    ASSUME NEW x \in Strings, NEW y \in Strings, NEW z \in Strings PROVE CutApart(x, y, z)
  BY CutThree DEF CutApart

(* Three strings in a row may be taken together in either way.             *)
Associates(x, y, z) == x \o y \o z = x \o (y \o z)

(* Assoc in a form that is only used where it is asked for.                *)
LEMMA AssocNamed ==
    ASSUME NEW x \in Strings, NEW y \in Strings, NEW z \in Strings
    PROVE  Associates(x, y, z)
  BY Assoc DEF Associates

(* The first byte of two strings in a row.                                 *)
LEMMA FirstByte ==
    ASSUME NEW s \in Strings, NEW t \in Strings, s # <<>>
    PROVE  (s \o t)[1] = s[1] /\ s \o t # <<>> /\ Len(s) \in Nat \ {0}
  <1>1. Len(s) \in Nat \ {0} /\ Len(t) \in Nat
    BY EmptySeq DEF Strings
  <1>2. /\ Len(s \o t) = Len(s) + Len(t)
        /\ \A i \in 1 .. Len(s) + Len(t) : (s \o t)[i] = IF i <= Len(s) THEN s[i] ELSE t[i - Len(s)]
    BY ConcatProperties DEF Strings
  <1>3. 1 \in 1 .. Len(s) + Len(t) /\ 1 <= Len(s) /\ Len(s) + Len(t) # 0
    BY <1>1
  <1>4. (s \o t)[1] = s[1]
    BY <1>2, <1>3, Zenon
  <1>5. s \o t # <<>>
    BY <1>2, <1>3
  <1> QED
    BY <1>1, <1>4, <1>5

(* A size of more than one byte is read back.                              *)
LEMMA WideSize ==
    ASSUME NEW j \in 1 .. 3, NEW n, Fits(n, Wide[j]), NEW t \in Strings
    PROVE  LET c == <<TxBase - 4 + j>> \o LeBytes(n, Wide[j])
           IN  /\ c \in Strings /\ Len(c) = 1 + Wide[j]
               /\ SizeWidth(c \o t) = Len(c) /\ SizeValue(c \o t) = n
  <1> DEFINE b == TxBase - 4 + j
             w == Wide[j]
             L == LeBytes(n, w)
             c == <<b>> \o L
             s == c \o t
  <1>1. n \in Nat /\ w \in Nat \ {0}
    BY WideIs DEF Fits
  <1>2. b \in Byte /\ ~(b < TxBase - 3) /\ b + 4 - TxBase = j
    BY Sizes DEF Byte
  <1>3. L \in Seq(Byte) /\ Len(L) = w
    BY <1>1, LeBytesType DEF Strings, Byte
  <1> HIDE DEF b, w, L
  <1>4. c \in Seq(Byte) /\ Len(c) = w + 1 /\ c[1] = b
    BY <1>2, <1>3, InFront
  <1>5. s[1] = b
    <2>1. c # <<>>
      BY <1>1, <1>4
    <2>2. c \in Strings
      BY <1>4 DEF Strings, Byte
    <2> HIDE DEF c
    <2> QED
      BY <1>4, <2>1, <2>2, FirstByte
  <1>6. SizeWidth(s) = 1 + w
    BY <1>2, <1>5 DEF SizeWidth, w
  <1>7. SubSeq(s, 2, 1 + w) = L
    <2> DEFINE f == <<b>>
    <2>1. f \in Strings /\ Len(f) = 1 /\ L \in Strings
      BY <1>2, <1>3 DEF Strings, Byte
    <2> HIDE DEF f
    <2>2. SubSeq(f \o L \o t, Len(f) + 1, Len(f) + Len(L)) = L
      <3>1. CutApart(f, L, t)
        BY <2>1, CutNamed
      <3> QED
        BY <3>1, Zenon DEF CutApart
    <2>3. SubSeq(f \o L \o t, 1 + 1, 1 + w) = L
      BY <1>3, <2>1, <2>2
    <2>4. 1 + 1 = 2
      OBVIOUS
    <2> QED
      BY <2>3, <2>4 DEF f
  <1>8. SizeValue(s) = n
    <2>1. FromLe(L) = n
      BY <1>1, FromLeBytes DEF L, w
    <2> HIDE DEF s
    <2> QED
      BY <1>2, <1>5, <1>6, <1>7, <2>1 DEF SizeValue
  <1>9. Len(c) = 1 + w /\ c \in Strings
    BY <1>1, <1>4 DEF Strings, Byte
  <1> QED
    BY <1>6, <1>8, <1>9 DEF b, w, L

(* Which bytes stand for a size.                                           *)
LEMMA CompactCases ==
    ASSUME NEW n, Fits(n, 8)
    PROVE  /\ n \in Nat
           /\ n < TxBase - 3 => CompactSize(n) = <<n>>
           /\ ~(n < TxBase - 3) =>
                 \E j \in 1 .. 3 :
                    /\ CompactSize(n) = <<TxBase - 4 + j>> \o LeBytes(n, Wide[j])
                    /\ Fits(n, Wide[j]) /\ \A i \in 1 .. 3 : Fits(n, Wide[i]) => j <= i
  <1> DEFINE T == {i \in 1 .. 3 : Fits(n, Wide[i])}
             j == Min(T)
  <1>1. n \in Nat
    BY DEF Fits
  <1>2. 3 \in T /\ T \in SUBSET Nat
    BY WideIs
  <1>3. j \in T /\ \A y \in T : j <= y
    <2> HIDE DEF T
    <2>1. FirstIndex(T) \in T /\ \A y \in T : FirstIndex(T) <= y
      BY <1>2, FirstChooses
    <2> QED
      BY <2>1 DEF FirstIndex
  <1>4. CompactSize(n) = IF n < TxBase - 3 THEN <<n>>
                         ELSE <<TxBase - 4 + j>> \o LeBytes(n, Wide[j])
    BY DEF CompactSize
  <1>5. j \in 1 .. 3 /\ Fits(n, Wide[j]) /\ \A i \in 1 .. 3 : Fits(n, Wide[i]) => j <= i
    BY <1>3
  <1> HIDE DEF j
  <1> QED
    BY <1>1, <1>4, <1>5

(* A size is read back.                                                    *)
LEMMA SizeRead ==
    ASSUME NEW n, Fits(n, 8), NEW t \in Strings
    PROVE  LET c == CompactSize(n)
           IN  /\ c \in Strings /\ Len(c) \in Nat \ {0} /\ c # <<>>
               /\ SizeWidth(c \o t) = Len(c) /\ SizeValue(c \o t) = n
  <1> DEFINE c == CompactSize(n)
  <1>1. n \in Nat
    BY DEF Fits
  <1>2. CASE n < TxBase - 3
    <2>1. c = <<n>>
      BY <1>2, CompactCases
    <2>2. <<n>> \in Strings /\ Len(<<n>>) = 1 /\ <<n>>[1] = n /\ <<n>> # <<>>
      BY <1>1, <1>2, Sizes DEF Strings
    <2> HIDE DEF c
    <2>3. (c \o t)[1] = n
      BY <2>1, <2>2, FirstByte
    <2> QED
      BY <1>2, <2>1, <2>2, <2>3 DEF SizeWidth, SizeValue, c
  <1>3. CASE ~(n < TxBase - 3)
    <2>1. PICK j \in 1 .. 3 : /\ c = <<TxBase - 4 + j>> \o LeBytes(n, Wide[j])
                              /\ Fits(n, Wide[j])
      BY <1>3, CompactCases
    <2>2. /\ c \in Strings /\ Len(c) = 1 + Wide[j]
          /\ SizeWidth(c \o t) = Len(c) /\ SizeValue(c \o t) = n
      BY <2>1, WideSize
    <2> HIDE DEF c
    <2>3. Len(c) \in Nat \ {0} /\ c # <<>>
      BY <2>2, WideIs
    <2> QED
      BY <2>2, <2>3 DEF c
  <1> QED
    BY <1>2, <1>3

(* write_varint writes the bytes that the bitcoin crate would.             *)
LEMMA VarIntIsCompact == ASSUME NEW n, Fits(n, 8) PROVE VarInt(n) = CompactSize(n)
  <1>1. n \in Nat /\ TxBase - 3 \in Int /\ Max16 \in Int /\ Max32 \in Int
    BY Sizes DEF Fits, Max16, Max32
  <1>2. CASE n < TxBase - 3
    <2>1. ~(n >= TxBase - 3) /\ n <= Max16 /\ n <= Max32
      <3>1. n < TxBase
        BY <1>1, <1>2, Sizes
      <3> QED
        BY <1>1, <1>2, <3>1, FitsWide
    <2>2. VarInt(n) = <<n>>
      BY <1>1, <1>2, <2>1 DEF VarInt
    <2> QED
      BY <1>2, <2>2, CompactCases
  <1>3. CASE ~(n < TxBase - 3)
    <2>1. PICK j \in 1 .. 3 : /\ CompactSize(n) = <<TxBase - 4 + j>> \o LeBytes(n, Wide[j])
                              /\ Fits(n, Wide[j])
                              /\ \A i \in 1 .. 3 : Fits(n, Wide[i]) => j <= i
      BY <1>3, CompactCases
    <2>2. /\ Fits(n, 2) <=> n <= Max16
          /\ Fits(n, 4) <=> n <= Max32
          /\ Fits(n, 2) => Fits(n, 4)
      BY <1>1, FitsWide
    <2>3. n >= TxBase - 3
      BY <1>1, <1>3
    <2>4. CASE j = 1
      <3>1. n <= Max16 /\ ~(n > Max16) /\ TxBase - 4 + j = TxBase - 3 /\ Wide[j] = 2
        BY <1>1, <2>1, <2>2, <2>4, WideIs, Sizes
      <3>2. VarInt(n) = <<TxBase - 3>> \o LeBytes(n, 2)
        BY <1>3, <2>3, <3>1, Zenon DEF VarInt
      <3> QED
        BY <2>1, <3>1, <3>2
    <2>5. CASE j = 2
      <3>1. ~Fits(n, 2)
        BY <2>1, <2>5, WideIs
      <3>2. /\ ~(n <= Max16) /\ n > Max16 /\ n <= Max32
            /\ TxBase - 4 + j = TxBase - 2 /\ Wide[j] = 4
        BY <1>1, <2>1, <2>2, <2>5, <3>1, WideIs, Sizes
      <3>3. VarInt(n) = <<TxBase - 2>> \o LeBytes(n, 4)
        BY <1>3, <3>2, Zenon DEF VarInt
      <3> QED
        BY <2>1, <3>2, <3>3
    <2>6. CASE j = 3
      <3>1. ~Fits(n, 2) /\ ~Fits(n, 4)
        BY <2>1, <2>6, WideIs
      <3>2. /\ ~(n <= Max16) /\ ~(n <= Max32)
            /\ TxBase - 4 + j = TxBase - 1 /\ Wide[j] = 8
        BY <1>1, <2>1, <2>2, <2>6, <3>1, WideIs, Sizes
      <3>3. VarInt(n) = <<TxBase - 1>> \o LeBytes(n, 8)
        BY <1>3, <3>2, Zenon DEF VarInt
      <3> QED
        BY <2>1, <3>2, <3>3
    <2> QED
      BY <2>4, <2>5, <2>6, WideIs
  <1> QED
    BY <1>2, <1>3

-----------------------------------------------------------------------------
(* ---- Fields ---- *)

Values == Seq(Seq(Nat))
Cursor(rest, got) == [ok |-> TRUE, rest |-> rest, got |-> got]
OneField(field, c) == ReadField(c, field)

Fields == INSTANCE FoldTheory WITH Op <- OneField, Choose <- LastIndex

(* The bytes are read as these fields with these values, whatever was read *)
(* before and whatever follows.                                            *)
Reads(bytes, fields, vals) ==
    /\ bytes \in Strings /\ fields \in Seq(Int) /\ vals \in Values
    /\ \A t \in Strings, g \in Values :
          ReadFields(Cursor(bytes \o t, g), fields) = Cursor(t, g \o vals)

(* A string is a sequence of numbers.                                      *)
LEMMA StringsAre == Strings \subseteq Seq(Nat)
  <1>1. 0 .. TxBase - 1 \subseteq Nat
    BY Sizes
  <1> QED
    BY <1>1, SeqMonotonic DEF Strings

(* Moving past bytes that are there.                                       *)
LEMMA AdvanceIs ==
    ASSUME NEW r, NEW g, NEW skip \in Nat, NEW k \in Nat, Len(r) \in Nat, skip + k <= Len(r)
    PROVE  Advance(Cursor(r, g), skip, k)
           = Cursor(SubSeq(r, skip + k + 1, Len(r)), Append(g, SubSeq(r, skip + 1, skip + k)))
  <1>1. ~(skip + k > Len(r))
    OBVIOUS
  <1> QED
    BY <1>1 DEF Advance, Cursor

(* Moving past bytes that are next.                                        *)
LEMMA AdvanceNext ==
    ASSUME NEW r, NEW g, NEW k \in Nat, Len(r) \in Nat, k <= Len(r)
    PROVE  Advance(Cursor(r, g), 0, k)
           = Cursor(SubSeq(r, k + 1, Len(r)), Append(g, SubSeq(r, 1, k)))
  <1>1. 0 + k = k /\ 0 + 1 = 1 /\ ~(k > Len(r))
    OBVIOUS
  <1> QED
    BY <1>1 DEF Advance, Cursor

(* A number of bytes is read.                                              *)
LEMMA FixedRead ==
    ASSUME NEW s \in Strings, NEW t \in Strings, NEW g
    PROVE  ReadField(Cursor(s \o t, g), Len(s)) = Cursor(t, Append(g, s))
  <1> DEFINE r == s \o t
             n == Len(s)
  <1>1. Len(r) = n + Len(t) /\ n \in Nat /\ Len(t) \in Nat
    BY CatType
  <1>2. SubSeq(r, 1, n) = s /\ SubSeq(r, n + 1, Len(r)) = t
    BY CutTwo
  <1> HIDE DEF r, n
  <1>3. ReadField(Cursor(r, g), n) = Advance(Cursor(r, g), 0, n)
    BY <1>1 DEF ReadField, Cursor
  <1>4. 0 + n <= Len(r) /\ Len(r) \in Nat /\ n <= Len(r)
    BY <1>1
  <1>5. Advance(Cursor(r, g), 0, n)
        = Cursor(SubSeq(r, n + 1, Len(r)), Append(g, SubSeq(r, 1, n)))
    BY <1>1, <1>4, AdvanceNext
  <1>6. ReadField(Cursor(r, g), n) = Cursor(t, Append(g, s))
    BY <1>2, <1>3, <1>4, <1>5, Zenon
  <1> QED
    BY <1>6 DEF r, n

(* The bytes in front of the cursor are a size.                            *)
LEMMA SizeAhead ==
    ASSUME NEW n, Fits(n, 8), NEW t \in Strings, NEW g, NEW field \in {SizeField, ScriptField}
    PROVE  LET r == CompactSize(n) \o t
               w == Len(CompactSize(n))
               c == Cursor(r, g)
           IN  /\ w \in 1 .. Len(r) /\ Len(r) \in Nat
               /\ ReadField(c, field)
                  = IF field = ScriptField THEN Advance(c, w, n)
                    ELSE Cursor(SubSeq(r, w + 1, Len(r)), Append(g, <<n>>))
  <1> DEFINE C == CompactSize(n)
             r == C \o t
             w == Len(C)
  <1>1. C \in Strings /\ w \in Nat \ {0} /\ C # <<>> /\ SizeWidth(r) = w /\ SizeValue(r) = n
    BY SizeRead
  <1> HIDE DEF C
  <1>2. r # <<>> /\ SubSeq(r, 1, w) = C /\ Len(r) = w + Len(t) /\ Len(t) \in Nat
    BY <1>1, FirstByte, CutTwo, CatType
  <1> HIDE DEF r, w
  <1>3. w \in 1 .. Len(r) /\ Len(r) \in Nat
    BY <1>1, <1>2
  <1>4. ~(field >= 0)
    BY DEF SizeField, ScriptField
  <1>5. CompactSize(SizeValue(r)) = SubSeq(r, 1, w)
    BY <1>1, <1>2 DEF C
  <1> DEFINE c == Cursor(r, g)
  <1>6. c.ok = TRUE /\ c.rest = r /\ c.got = g
    BY DEF Cursor
  <1>7. [c EXCEPT !.rest = SubSeq(@, w + 1, Len(@)), !.got = Append(@, <<n>>)]
        = Cursor(SubSeq(r, w + 1, Len(r)), Append(g, <<n>>))
    <2>1. ASSUME NEW z,
                 z = [c EXCEPT !.rest = SubSeq(@, w + 1, Len(@)), !.got = Append(@, <<n>>)]
          PROVE  z = Cursor(SubSeq(r, w + 1, Len(r)), Append(g, <<n>>))
      BY <2>1 DEF Cursor
    <2> HIDE DEF c
    <2> QED
      BY <2>1, Zenon
  <1> HIDE DEF c
  <1>8. ReadField(c, field) = IF field = ScriptField THEN Advance(c, w, n)
                              ELSE Cursor(SubSeq(r, w + 1, Len(r)), Append(g, <<n>>))
    <2>1. (IF c.rest = <<>> THEN 0 ELSE SizeWidth(c.rest)) = w
      BY <1>1, <1>2, <1>6
    <2>2. SizeValue(c.rest) = n /\ c.ok
      BY <1>1, <1>6
    <2>3. ~(w \notin 1 .. Len(c.rest) \/ CompactSize(n) # SubSeq(c.rest, 1, w))
      BY <1>1, <1>3, <1>5, <1>6
    <2> HIDE DEF w
    <2>4. ReadField(c, field)
          = IF field = ScriptField THEN Advance(c, w, n)
            ELSE [c EXCEPT !.rest = SubSeq(@, w + 1, Len(@)), !.got = Append(@, <<n>>)]
      BY <1>4, <2>1, <2>2, <2>3, Zenon DEF ReadField
    <2> QED
      BY <1>7, <2>4, Zenon
  <1> QED
    BY <1>3, <1>8 DEF c, r, w, C

(* Bytes with their size are read.                                         *)
LEMMA ScriptRead ==
    ASSUME NEW s \in Strings, Fits(Len(s), 8), NEW t \in Strings, NEW g
    PROVE  /\ SerializeScript(s) \in Strings
           /\ ReadField(Cursor(SerializeScript(s) \o t, g), ScriptField) = Cursor(t, Append(g, s))
  <1> DEFINE C == CompactSize(Len(s))
             r == C \o s \o t
             w == Len(C)
             n == Len(s)
  <1>1. C \in Strings /\ n \in Nat
    BY SizeRead, CatType
  <1>2. C \o s \in Strings /\ s \o t \in Strings
    BY <1>1, CatType
  <1>3. r = C \o (s \o t)
    BY <1>1, Assoc
  <1>4. /\ w \in 1 .. Len(C \o (s \o t)) /\ Len(C \o (s \o t)) \in Nat
        /\ ReadField(Cursor(C \o (s \o t), g), ScriptField)
           = Advance(Cursor(C \o (s \o t), g), w, n)
    BY <1>2, SizeAhead
  <1>5. Len(r) = w + n + Len(t) /\ Len(t) \in Nat /\ w \in Nat
    <2>1. Len(C \o s) = w + n /\ w \in Nat /\ Len(t) \in Nat
      BY <1>1, CatType
    <2>2. Len((C \o s) \o t) = Len(C \o s) + Len(t)
      BY <1>2, CatType
    <2> QED
      BY <2>1, <2>2
  <1>6. SubSeq(r, w + 1, w + n) = s /\ SubSeq(r, w + n + 1, Len(r)) = t
    BY <1>1, CutThree
  <1> HIDE DEF C
  <1>7. ReadField(Cursor(r, g), ScriptField) = Advance(Cursor(r, g), w, n)
    BY <1>3, <1>4, Zenon
  <1> HIDE DEF r, w, n
  <1>8. Advance(Cursor(r, g), w, n)
        = Cursor(SubSeq(r, w + n + 1, Len(r)), Append(g, SubSeq(r, w + 1, w + n)))
    <2>1. w + n <= Len(r) /\ Len(r) \in Nat
      BY <1>1, <1>5
    <2> QED
      BY <1>1, <1>5, <2>1, AdvanceIs, ZenonT(60)
  <1>9. ReadField(Cursor(r, g), ScriptField) = Cursor(t, Append(g, s))
    BY <1>6, <1>7, <1>8
  <1> QED
    BY <1>2, <1>9 DEF r, C, SerializeScript

(* A size is read.                                                         *)
LEMMA CountRead ==
    ASSUME NEW n, Fits(n, 8), NEW t \in Strings, NEW g
    PROVE  /\ CompactSize(n) \in Strings
           /\ ReadField(Cursor(CompactSize(n) \o t, g), SizeField) = Cursor(t, Append(g, <<n>>))
  <1> DEFINE C == CompactSize(n)
             r == C \o t
             w == Len(C)
  <1>1. C \in Strings
    BY SizeRead
  <1>2. /\ w \in 1 .. Len(r) /\ Len(r) \in Nat
        /\ ReadField(Cursor(r, g), SizeField)
           = Cursor(SubSeq(r, w + 1, Len(r)), Append(g, <<n>>))
    BY SizeAhead DEF SizeField, ScriptField
  <1>3. SubSeq(r, w + 1, Len(r)) = t
    BY <1>1, CutTwo
  <1> HIDE DEF C, r, w
  <1>5. ReadField(Cursor(r, g), SizeField) = Cursor(t, Append(g, <<n>>))
    BY <1>2, <1>3
  <1> QED
    BY <1>1, <1>5 DEF r, C

(* Fields are read one after the other.                                    *)
LEMMA ReadFieldsStep ==
    ASSUME NEW c
    PROVE  /\ ReadFields(c, <<>>) = c
           /\ \A fs \in Seq(Int), f \in Int :
                 ReadFields(c, Append(fs, f)) = ReadField(ReadFields(c, fs), f)
  <1>1. \A fs : ReadFields(c, fs) = Fields!Fold(c, fs, DOMAIN fs)
    BY DEF ReadFields, FoldLeft, MapThenFoldSet, Fields!Fold, Fields!MapThenFoldSet, OneField,
           LastIndex
  <1>2. Fields!ChoosesLast
    BY LastChooses DEF Fields!ChoosesLast
  <1>3. ASSUME NEW fs \in Seq(Int), NEW f \in Int
        PROVE  ReadFields(c, Append(fs, f)) = ReadField(ReadFields(c, fs), f)
    <2>1. Fields!Fold(c, Append(fs, f), DOMAIN Append(fs, f))
          = OneField(f, Fields!Fold(c, fs, DOMAIN fs))
      BY <1>2, Fields!FoldAppend
    <2> QED
      BY <1>1, <2>1 DEF OneField
  <1>4. ReadFields(c, <<>>) = c
    BY <1>1, Fields!FoldEmptySeq
  <1> QED
    BY <1>3, <1>4

(* What is read by fields in a row.                                        *)
LEMMA ReadFieldsCat ==
    ASSUME NEW c, NEW fs \in Seq(Int), NEW gs \in Seq(Int)
    PROVE  ReadFields(c, fs \o gs) = ReadFields(ReadFields(c, fs), gs)
  <1> DEFINE P == {q \in Seq(Int) : ReadFields(c, fs \o q) = ReadFields(ReadFields(c, fs), q)}
  <1>1. <<>> \in P
    <2>1. fs \o <<>> = fs /\ <<>> \in Seq(Int)
      BY ConcatEmptySeq
    <2> QED
      BY <2>1, ReadFieldsStep
  <1>2. ASSUME NEW q \in Seq(Int), NEW f \in Int, q \in P PROVE Append(q, f) \in P
    <2>1. fs \o Append(q, f) = Append(fs \o q, f) /\ fs \o q \in Seq(Int) /\ Append(q, f) \in Seq(Int)
      BY Fields!AppendToConcat, ConcatProperties, AppendProperties
    <2>2. ReadFields(c, Append(fs \o q, f)) = ReadField(ReadFields(c, fs \o q), f)
      BY <2>1, ReadFieldsStep
    <2>3. ReadFields(ReadFields(c, fs), Append(q, f))
          = ReadField(ReadFields(ReadFields(c, fs), q), f)
      BY ReadFieldsStep
    <2>4. ReadFields(c, fs \o q) = ReadFields(ReadFields(c, fs), q)
      BY <1>2
    <2> QED
      BY <2>1, <2>2, <2>3, <2>4
  <1> HIDE DEF P
  <1>3. \A q \in Seq(Int) : q \in P
    BY <1>1, <1>2, Shifts!SeqInduct
  <1> QED
    BY <1>3 DEF P

(* One field.                                                              *)
LEMMA ReadsOne ==
    ASSUME NEW bytes \in Strings, NEW f \in Int, NEW v \in Seq(Nat),
           \A t \in Strings, g \in Values :
              ReadField(Cursor(bytes \o t, g), f) = Cursor(t, Append(g, v))
    PROVE  Reads(bytes, <<f>>, <<v>>)
  <1>1. <<f>> \in Seq(Int) /\ <<v>> \in Values /\ <<>> \in Seq(Int) /\ Append(<<>>, f) = <<f>>
    BY DEF Values
  <1>2. ASSUME NEW t \in Strings, NEW g \in Values
        PROVE  ReadFields(Cursor(bytes \o t, g), <<f>>) = Cursor(t, g \o <<v>>)
    <2>1. ReadFields(Cursor(bytes \o t, g), Append(<<>>, f)) = ReadField(Cursor(bytes \o t, g), f)
      <3> DEFINE c == Cursor(bytes \o t, g)
      <3> HIDE DEF c
      <3>1. ReadFields(c, Append(<<>>, f)) = ReadField(ReadFields(c, <<>>), f) /\ ReadFields(c, <<>>) = c
        BY <1>1, ReadFieldsStep
      <3> QED
        BY <3>1 DEF c
    <2>2. Append(g, v) = g \o <<v>>
      BY AppendIsConcat DEF Values
    <2> QED
      BY <1>1, <2>1, <2>2
  <1> QED
    BY <1>1, <1>2 DEF Reads

(* Fields in a row.                                                        *)
LEMMA ReadsBoth ==
    ASSUME NEW b1, NEW f1, NEW v1, NEW b2, NEW f2, NEW v2, Reads(b1, f1, v1), Reads(b2, f2, v2)
    PROVE  Reads(b1 \o b2, f1 \o f2, v1 \o v2)
  <1>1. /\ b1 \in Strings /\ b2 \in Strings /\ f1 \in Seq(Int) /\ f2 \in Seq(Int)
        /\ v1 \in Values /\ v2 \in Values
    BY DEF Reads
  <1>2. b1 \o b2 \in Strings /\ f1 \o f2 \in Seq(Int) /\ v1 \o v2 \in Values
    BY <1>1, CatType, ConcatProperties DEF Values
  <1>3. ASSUME NEW t \in Strings, NEW g \in Values
        PROVE  ReadFields(Cursor((b1 \o b2) \o t, g), f1 \o f2) = Cursor(t, g \o (v1 \o v2))
    <2>1. (b1 \o b2) \o t = b1 \o (b2 \o t) /\ b2 \o t \in Strings
      <3>1. Associates(b1, b2, t)
        BY <1>1, AssocNamed
      <3>2. b2 \o t \in Strings
        BY <1>1, CatType
      <3> QED
        BY <3>1, <3>2, Zenon DEF Associates
    <2>2. (g \o v1) \o v2 = g \o (v1 \o v2) /\ g \o v1 \in Values
      <3> DEFINE S == Seq(Nat)
      <3>0. g \in Seq(S) /\ v1 \in Seq(S) /\ v2 \in Seq(S)
        BY <1>1 DEF Values
      <3> HIDE DEF S
      <3>1. (g \o v1) \o v2 = g \o (v1 \o v2)
        BY <3>0, ConcatAssociative, SMTT(30)
      <3>2. g \o v1 \in Values
        BY <1>1, ConcatProperties DEF Values
      <3> QED
        BY <3>1, <3>2
    <2>3. ReadFields(Cursor(b1 \o (b2 \o t), g), f1) = Cursor(b2 \o t, g \o v1)
      BY <2>1 DEF Reads
    <2>4. ReadFields(Cursor(b2 \o t, g \o v1), f2) = Cursor(t, (g \o v1) \o v2)
      BY <2>2 DEF Reads
    <2>5. ReadFields(Cursor(b1 \o (b2 \o t), g), f1 \o f2)
          = ReadFields(ReadFields(Cursor(b1 \o (b2 \o t), g), f1), f2)
      BY <1>1, ReadFieldsCat
    <2> QED
      BY <2>1, <2>2, <2>3, <2>4, <2>5, Zenon
  <1> QED
    BY <1>1, <1>2, <1>3 DEF Reads

(* A field of fixed size, bytes with their size and a size.                *)
LEMMA ReadsFields ==
    /\ \A s \in Strings : Reads(s, <<Len(s)>>, <<s>>)
    /\ \A s \in Strings : Fits(Len(s), 8) => Reads(SerializeScript(s), <<ScriptField>>, <<s>>)
    /\ \A n : Fits(n, 8) => Reads(CompactSize(n), <<SizeField>>, <<<<n>>>>)
    /\ Reads(<<>>, <<>>, <<>>)
  <1>0. SizeField \in Int /\ ScriptField \in Int /\ <<>> \in Strings
    BY DEF SizeField, ScriptField, Strings
  <1>1. ASSUME NEW s \in Strings PROVE Reads(s, <<Len(s)>>, <<s>>)
    <2>1. s \in Seq(Nat) /\ Len(s) \in Int
      BY StringsAre DEF Strings
    <2>2. \A t \in Strings, g \in Values :
             ReadField(Cursor(s \o t, g), Len(s)) = Cursor(t, Append(g, s))
      BY FixedRead
    <2> QED
      BY <2>1, <2>2, ReadsOne
  <1>2. ASSUME NEW s \in Strings, Fits(Len(s), 8)
        PROVE  Reads(SerializeScript(s), <<ScriptField>>, <<s>>)
    <2>1. s \in Seq(Nat) /\ SerializeScript(s) \in Strings
      BY <1>0, <1>2, StringsAre, ScriptRead
    <2>2. \A t \in Strings, g \in Values :
             ReadField(Cursor(SerializeScript(s) \o t, g), ScriptField) = Cursor(t, Append(g, s))
      BY <1>2, ScriptRead
    <2> QED
      BY <1>0, <2>1, <2>2, ReadsOne
  <1>3. ASSUME NEW n, Fits(n, 8) PROVE Reads(CompactSize(n), <<SizeField>>, <<<<n>>>>)
    <2>1. <<n>> \in Seq(Nat) /\ CompactSize(n) \in Strings
      <3>1. n \in Nat
        BY <1>3 DEF Fits
      <3>2. CompactSize(n) \in Strings
        BY <1>0, <1>3, CountRead
      <3> QED
        BY <3>1, <3>2
    <2>2. \A t \in Strings, g \in Values :
             ReadField(Cursor(CompactSize(n) \o t, g), SizeField) = Cursor(t, Append(g, <<n>>))
      BY <1>3, CountRead
    <2> DEFINE v == <<n>>
    <2> HIDE DEF v
    <2>3. Reads(CompactSize(n), <<SizeField>>, <<v>>)
      <3>1. v \in Seq(Nat)
        BY <2>1 DEF v
      <3>2. \A t \in Strings, g \in Values :
               ReadField(Cursor(CompactSize(n) \o t, g), SizeField) = Cursor(t, Append(g, v))
        BY <2>2 DEF v
      <3> QED
        BY <1>0, <2>1, <3>1, <3>2, ReadsOne
    <2> QED
      BY <2>3 DEF v
  <1>4. Reads(<<>>, <<>>, <<>>)
    <2>1. <<>> \in Seq(Int) /\ <<>> \in Values
      BY DEF Values
    <2>2. ASSUME NEW t \in Strings, NEW g \in Values
          PROVE  ReadFields(Cursor(<<>> \o t, g), <<>>) = Cursor(t, g \o <<>>)
      <3>1. <<>> \o t = t /\ g \o <<>> = g
        BY ConcatEmptySeq DEF Strings, Values
      <3> QED
        BY <3>1, ReadFieldsStep
    <2> QED
      BY <1>0, <2>1, <2>2 DEF Reads
  <1> QED
    BY <1>1, <1>2, <1>3, <1>4

-----------------------------------------------------------------------------
(* ---- Outputs ---- *)

Outs ==
    {o \in [value : Nat, script : Strings] : Fits(o.value, 8) /\ Fits(Len(o.script), 8)}
OutFields(n) == [i \in 1 .. 2 * n |-> IF i % 2 = 1 THEN 8 ELSE ScriptField]
OutVals(outs) ==
    [i \in 1 .. 2 * Len(outs) |->
        IF i % 2 = 1 THEN LeBytes(outs[(i + 1) \div 2].value, 8) ELSE outs[i \div 2].script]

OneOutput(o, s) == s \o SerializeOutput(o)
Outputs == INSTANCE FoldTheory WITH Op <- OneOutput, Choose <- LastIndex

(* Outputs are serialized one after the other.                             *)
LEMMA OutputsStep ==
    /\ SerializeOutputs(<<>>) = <<>>
    /\ \A D : \A outs \in Seq(D), o \in D :
          SerializeOutputs(Append(outs, o)) = SerializeOutputs(outs) \o SerializeOutput(o)
  <1>1. \A outs : SerializeOutputs(outs) = Outputs!Fold(<<>>, outs, DOMAIN outs)
    BY DEF SerializeOutputs, FoldLeft, MapThenFoldSet, Outputs!Fold, Outputs!MapThenFoldSet,
           OneOutput, LastIndex
  <1>2. Outputs!ChoosesLast
    BY LastChooses DEF Outputs!ChoosesLast
  <1>3. ASSUME NEW D, NEW outs \in Seq(D), NEW o \in D
        PROVE  SerializeOutputs(Append(outs, o)) = SerializeOutputs(outs) \o SerializeOutput(o)
    <2>1. Outputs!Fold(<<>>, Append(outs, o), DOMAIN Append(outs, o))
          = OneOutput(o, Outputs!Fold(<<>>, outs, DOMAIN outs))
      BY <1>2, Outputs!FoldAppend
    <2> QED
      BY <1>1, <2>1 DEF OneOutput
  <1>4. SerializeOutputs(<<>>) = <<>>
    BY <1>1, Outputs!FoldEmptySeq
  <1> QED
    BY <1>3, <1>4

(* Two elements more.                                                      *)
LEMMA TwoMore ==
    ASSUME NEW S, NEW p \in Seq(S), NEW u \in S, NEW v \in S
    PROVE  LET q == p \o (<<u>> \o <<v>>)
           IN  /\ q \in Seq(S) /\ Len(q) = Len(p) + 2
               /\ \A i \in 1 .. Len(p) : q[i] = p[i]
               /\ q[Len(p) + 1] = u /\ q[Len(p) + 2] = v
  <1> DEFINE d == <<u>> \o <<v>>
             q == p \o d
             m == Len(p)
  <1>1. <<v>> \in Seq(S) /\ Len(<<v>>) = 1 /\ <<v>>[1] = v
    OBVIOUS
  <1>2. d \in Seq(S) /\ Len(d) = Len(<<v>>) + 1 /\ d[1] = u /\ d[2] = v
    <2> DEFINE s == <<v>>
               f == <<u>>
    <2>1. /\ s \in Seq(S) /\ Len(s) = 1 /\ s[1] = v
          /\ f \in Seq(S) /\ Len(f) = 1 /\ f[1] = u
      BY <1>1
    <2> HIDE DEF s, f
    <2>2. /\ f \o s \in Seq(S) /\ Len(f \o s) = Len(f) + Len(s)
          /\ \A i \in 1 .. Len(f) + Len(s) :
                (f \o s)[i] = IF i <= Len(f) THEN f[i] ELSE s[i - Len(f)]
      BY <2>1, ConcatProperties
    <2>3. (f \o s)[1] = u /\ (f \o s)[2] = v /\ Len(f \o s) = Len(s) + 1
      BY <2>1, <2>2
    <2> QED
      BY <2>2, <2>3 DEF s, f
  <1>3. Len(d) = 2 /\ m \in Nat
    BY <1>1, <1>2
  <1> HIDE DEF d
  <1>4. /\ q \in Seq(S) /\ Len(q) = m + Len(d)
        /\ \A i \in 1 .. m + Len(d) : q[i] = IF i <= m THEN p[i] ELSE d[i - m]
    BY <1>2, ConcatProperties
  <1> HIDE DEF q, m
  <1>5. \A i \in 1 .. m : q[i] = p[i]
    BY <1>3, <1>4
  <1>6. q[m + 1] = u /\ q[m + 2] = v
    <2>1. m + 1 \in 1 .. m + Len(d) /\ ~(m + 1 <= m) /\ (m + 1) - m = 1
      BY <1>3
    <2>2. m + 2 \in 1 .. m + Len(d) /\ ~(m + 2 <= m) /\ (m + 2) - m = 2
      BY <1>3
    <2> QED
      BY <1>2, <1>4, <2>1, <2>2
  <1>7. Len(q) = m + 2
    BY <1>3, <1>4
  <1> QED
    BY <1>4, <1>5, <1>6, <1>7 DEF q, m, d

(* The fields of one output more.                                          *)
LEMMA OutFieldsStep ==
    ASSUME NEW n \in Nat
    PROVE  OutFields(n) \in Seq(Int) /\ OutFields(n + 1) = OutFields(n) \o (<<8>> \o <<ScriptField>>)
  <1>0. ScriptField \in Int /\ 8 \in Int
    BY DEF ScriptField
  <1>1. \A k \in Nat : /\ OutFields(k) \in Seq(Int) /\ Len(OutFields(k)) = 2 * k
                       /\ \A i \in 1 .. 2 * k :
                             OutFields(k)[i] = IF i % 2 = 1 THEN 8 ELSE ScriptField
    BY <1>0 DEF OutFields
  <1> DEFINE p == OutFields(n)
             r == OutFields(n + 1)
             q == p \o (<<8>> \o <<ScriptField>>)
             m == 2 * n
  <1>2. p \in Seq(Int) /\ Len(p) = m /\ \A i \in 1 .. m : p[i] = IF i % 2 = 1 THEN 8 ELSE ScriptField
    BY <1>1
  <1>3. 2 * (n + 1) = m + 2 /\ n + 1 \in Nat /\ m \in Nat
    OBVIOUS
  <1>4. /\ r \in Seq(Int) /\ Len(r) = m + 2
        /\ \A i \in 1 .. m + 2 : r[i] = IF i % 2 = 1 THEN 8 ELSE ScriptField
    BY <1>1, <1>3
  <1> HIDE DEF p, r
  <1>5. /\ q \in Seq(Int) /\ Len(q) = Len(p) + 2
        /\ \A i \in 1 .. Len(p) : q[i] = p[i]
        /\ q[Len(p) + 1] = 8 /\ q[Len(p) + 2] = ScriptField
    BY <1>0, <1>2, TwoMore
  <1> HIDE DEF q
  <1>6. (m + 1) % 2 = 1 /\ (m + 2) % 2 = 0
    OBVIOUS
  <1>7. ASSUME NEW i \in 1 .. m + 2 PROVE r[i] = q[i]
    <2>1. i \in 1 .. m \/ i = m + 1 \/ i = m + 2
      BY <1>3
    <2>2. CASE i \in 1 .. m
      BY <1>2, <1>4, <1>5, <2>2
    <2>3. CASE i = m + 1
      BY <1>2, <1>4, <1>5, <1>6, <2>3
    <2>4. CASE i = m + 2
      BY <1>2, <1>4, <1>5, <1>6, <2>4
    <2> QED
      BY <2>1, <2>2, <2>3, <2>4
  <1>8. r = q
    <2>1. Len(q) = m + 2
      BY <1>2, <1>5
    <2> QED
      BY <1>4, <1>5, <1>7, <2>1, SeqEqual
  <1> QED
    BY <1>2, <1>8 DEF p, r, q

(* The values of outputs.                                                  *)
LEMMA OutValsAre ==
    ASSUME NEW outs \in Seq(Outs)
    PROVE  /\ OutVals(outs) \in Values /\ Len(OutVals(outs)) = 2 * Len(outs)
           /\ \A i \in 1 .. 2 * Len(outs) :
                 OutVals(outs)[i] = IF i % 2 = 1 THEN LeBytes(outs[(i + 1) \div 2].value, 8)
                                    ELSE outs[i \div 2].script
  <1>1. Len(outs) \in Nat
    OBVIOUS
  <1>2. ASSUME NEW i \in 1 .. 2 * Len(outs)
        PROVE  (IF i % 2 = 1 THEN LeBytes(outs[(i + 1) \div 2].value, 8)
                ELSE outs[i \div 2].script) \in Seq(Nat)
    <2>1. CASE i % 2 = 1
      <3>1. (i + 1) \div 2 \in 1 .. Len(outs)
        BY <1>1, <2>1
      <3>2. outs[(i + 1) \div 2] \in Outs
        BY <3>1, ElementOfSeq
      <3>3. outs[(i + 1) \div 2].value \in Nat
        BY <3>2 DEF Outs
      <3> QED
        BY <2>1, <3>3, LeBytesType, StringsAre
    <2>2. CASE i % 2 # 1
      <3>1. i \div 2 \in 1 .. Len(outs)
        BY <1>1, <2>2
      <3>2. outs[i \div 2] \in Outs
        BY <3>1, ElementOfSeq
      <3>3. outs[i \div 2].script \in Strings
        BY <3>2 DEF Outs
      <3> QED
        BY <2>2, <3>3, StringsAre
    <2> QED
      BY <2>1, <2>2
  <1>3. OutVals(outs) \in [1 .. 2 * Len(outs) -> Seq(Nat)]
    BY <1>2 DEF OutVals
  <1>4. 2 * Len(outs) \in Nat
    BY <1>1
  <1> QED
    BY <1>3, <1>4, SMTT(30) DEF OutVals, Values

(* The values of one output more.                                          *)
LEMMA OutValsStep ==
    ASSUME NEW outs \in Seq(Outs), NEW o \in Outs
    PROVE  OutVals(Append(outs, o)) = OutVals(outs) \o (<<LeBytes(o.value, 8)>> \o <<o.script>>)
  <1> DEFINE n == Len(outs)
             m == 2 * n
             more == Append(outs, o)
             p == OutVals(outs)
             r == OutVals(more)
             u == LeBytes(o.value, 8)
             v == o.script
             q == p \o (<<u>> \o <<v>>)
             S == Seq(Nat)
  <1>1. /\ more \in Seq(Outs) /\ Len(more) = n + 1 /\ n \in Nat
        /\ \A i \in 1 .. n : more[i] = outs[i]
        /\ more[n + 1] = o
    BY AppendProperties
  <1>2. u \in S /\ v \in S
    <2>1. o.value \in Nat /\ o.script \in Strings
      BY DEF Outs
    <2> QED
      BY <2>1, LeBytesType, StringsAre
  <1>3. /\ p \in Seq(S) /\ Len(p) = m
        /\ \A i \in 1 .. m : p[i] = IF i % 2 = 1 THEN LeBytes(outs[(i + 1) \div 2].value, 8)
                                    ELSE outs[i \div 2].script
    BY OutValsAre DEF Values
  <1>4. 2 * (n + 1) = m + 2 /\ m \in Nat
    BY <1>1
  <1> HIDE DEF more
  <1>5. /\ r \in Seq(S) /\ Len(r) = m + 2
        /\ \A i \in 1 .. m + 2 : r[i] = IF i % 2 = 1 THEN LeBytes(more[(i + 1) \div 2].value, 8)
                                        ELSE more[i \div 2].script
    <2>1. /\ r \in Values /\ Len(r) = 2 * Len(more)
          /\ \A i \in 1 .. 2 * Len(more) :
                r[i] = IF i % 2 = 1 THEN LeBytes(more[(i + 1) \div 2].value, 8)
                       ELSE more[i \div 2].script
      BY <1>1, OutValsAre
    <2> QED
      BY <1>1, <1>4, <2>1, Zenon DEF Values
  <1> HIDE DEF p, r, u, v, S
  <1>6. /\ q \in Seq(S) /\ Len(q) = Len(p) + 2
        /\ \A i \in 1 .. Len(p) : q[i] = p[i]
        /\ q[Len(p) + 1] = u /\ q[Len(p) + 2] = v
    BY <1>2, <1>3, TwoMore
  <1> HIDE DEF q
  <1>7. /\ (m + 1) % 2 = 1 /\ (m + 2) % 2 # 1
        /\ ((m + 1) + 1) \div 2 = n + 1 /\ (m + 2) \div 2 = n + 1
        /\ m + 1 \in 1 .. m + 2 /\ m + 2 \in 1 .. m + 2
    BY <1>1
  <1>8. ASSUME NEW i \in 1 .. m + 2 PROVE r[i] = q[i]
    <2>1. i \in 1 .. m \/ i = m + 1 \/ i = m + 2
      BY <1>4
    <2>2. CASE i \in 1 .. m
      <3>1. q[i] = p[i]
        BY <1>3, <1>6, <2>2
      <3>2. CASE i % 2 = 1
        <4>1. (i + 1) \div 2 \in 1 .. n
          BY <1>1, <2>2, <3>2
        <4>2. more[(i + 1) \div 2] = outs[(i + 1) \div 2]
          BY <1>1, <4>1
        <4> HIDE DEF m
        <4> QED
          BY <1>3, <1>5, <2>2, <3>1, <3>2, <4>2, Zenon
      <3>3. CASE i % 2 # 1
        <4>1. i \div 2 \in 1 .. n
          BY <1>1, <2>2, <3>3
        <4>2. more[i \div 2] = outs[i \div 2]
          BY <1>1, <4>1
        <4> HIDE DEF m
        <4> QED
          BY <1>3, <1>5, <2>2, <3>1, <3>3, <4>2, Zenon
      <3> QED
        BY <3>2, <3>3
    <2>3. CASE i = m + 1
      <3>1. r[i] = LeBytes(more[n + 1].value, 8)
        BY <1>5, <1>7, <2>3, Zenon
      <3>2. q[i] = u
        BY <1>3, <1>6, <2>3
      <3> QED
        BY <1>1, <3>1, <3>2, Zenon DEF u
    <2>4. CASE i = m + 2
      <3>1. r[i] = more[n + 1].script
        BY <1>5, <1>7, <2>4, Zenon
      <3>2. q[i] = v
        BY <1>3, <1>6, <2>4
      <3> QED
        BY <1>1, <3>1, <3>2, Zenon DEF v
    <2> QED
      BY <2>1, <2>2, <2>3, <2>4
  <1>9. r = q
    <2>1. Len(q) = m + 2
      BY <1>3, <1>6
    <2> HIDE DEF m
    <2> QED
      BY <1>5, <1>6, <1>8, <2>1, SeqEqual
  <1> QED
    BY <1>9 DEF r, q, more, p, u, v

(* Outputs are read one after the other; each has at least a byte.         *)
LEMMA OutputsRead ==
    ASSUME NEW all \in Seq(Outs)
    PROVE  /\ Reads(SerializeOutputs(all), OutFields(Len(all)), OutVals(all))
           /\ Len(all) <= Len(SerializeOutputs(all))
  <1> DEFINE P == {q \in Seq(Outs) :
                      /\ Reads(SerializeOutputs(q), OutFields(Len(q)), OutVals(q))
                      /\ Len(q) <= Len(SerializeOutputs(q))}
  <1>1. <<>> \in P
    <2>1. OutFields(0) = <<>> /\ OutVals(<<>>) = <<>> /\ <<>> \in Seq(Outs) /\ Len(<<>>) = 0
      BY DEF OutFields, OutVals
    <2>2. SerializeOutputs(<<>>) = <<>>
      BY OutputsStep
    <2>3. Reads(<<>>, <<>>, <<>>)
      BY ReadsFields
    <2> QED
      BY <2>1, <2>2, <2>3
  <1>2. ASSUME NEW q \in Seq(Outs), NEW o \in Outs, q \in P PROVE Append(q, o) \in P
    <2> DEFINE n == Len(q)
               more == Append(q, o)
               val == LeBytes(o.value, 8)
               ser == SerializeOutput(o)
               SO == SerializeOutputs(q)
    <2>1. more \in Seq(Outs) /\ Len(more) = n + 1 /\ n \in Nat
      BY AppendProperties
    <2>2. SerializeOutputs(more) = SO \o ser
      BY OutputsStep
    <2>3. OutFields(n + 1) = OutFields(n) \o (<<8>> \o <<ScriptField>>)
      BY <2>1, OutFieldsStep
    <2>4. OutVals(more) = OutVals(q) \o (<<val>> \o <<o.script>>)
      BY OutValsStep
    <2>5. o.value \in Nat /\ o.script \in Strings /\ Fits(Len(o.script), 8)
      BY DEF Outs
    <2>6. val \in Strings /\ Len(val) = 8
      BY <2>5, LeBytesType
    <2>7. Reads(val, <<8>>, <<val>>)
      <3> HIDE DEF val
      <3>1. Reads(val, <<Len(val)>>, <<val>>)
        BY <2>6, ReadsFields
      <3> QED
        BY <2>6, <3>1, Zenon
    <2>8. Reads(SerializeScript(o.script), <<ScriptField>>, <<o.script>>)
      BY <2>5, ReadsFields
    <2>9. Reads(ser, <<8>> \o <<ScriptField>>, <<val>> \o <<o.script>>)
      BY <2>7, <2>8, ReadsBoth DEF SerializeOutput
    <2>10. Reads(SO, OutFields(n), OutVals(q)) /\ n <= Len(SO)
      BY <1>2
    <2>11. Reads(SerializeOutputs(more), OutFields(n + 1), OutVals(more))
      <3> HIDE DEF SO, ser, val, n, more
      <3>1. Reads(SO \o ser, OutFields(n) \o (<<8>> \o <<ScriptField>>),
                  OutVals(q) \o (<<val>> \o <<o.script>>))
        BY <2>9, <2>10, ReadsBoth
      <3> QED
        BY <2>2, <2>3, <2>4, <3>1, Zenon
    <2>12. n + 1 <= Len(SO \o ser)
      <3>1. SO \in Strings /\ ser \in Strings /\ SerializeScript(o.script) \in Strings
        BY <2>8, <2>9, <2>10 DEF Reads
      <3>2. Len(SO \o ser) = Len(SO) + Len(ser) /\ Len(SO) \in Nat
        BY <3>1, CatType
      <3>3. Len(ser) = 8 + Len(SerializeScript(o.script)) /\ Len(SerializeScript(o.script)) \in Nat
        BY <2>6, <3>1, CatType DEF SerializeOutput
      <3> HIDE DEF SO, ser, n
      <3> QED
        BY <2>1, <2>10, <3>2, <3>3
    <2> HIDE DEF more, n, SO, ser
    <2>13. /\ Reads(SerializeOutputs(more), OutFields(Len(more)), OutVals(more))
           /\ Len(more) <= Len(SerializeOutputs(more))
      BY <2>1, <2>2, <2>11, <2>12, Zenon
    <2> QED
      BY <2>1, <2>13 DEF more
  <1> HIDE DEF P
  <1>3. \A q \in Seq(Outs) : q \in P
    BY <1>1, <1>2, Shifts!SeqInduct
  <1> QED
    BY <1>3 DEF P

(* An output in front of others is serialized in front of them.            *)
LEMMA OutputInFront ==
    ASSUME NEW o \in Outs, NEW all \in Seq(Outs)
    PROVE  SerializeOutputs(<<o>> \o all) = SerializeOutput(o) \o SerializeOutputs(all)
  <1> DEFINE f == <<o>>
             P == {q \in Seq(Outs) : SerializeOutputs(f \o q) = SerializeOutput(o) \o SerializeOutputs(q)}
  <1>0. \A e \in Outs : SerializeOutput(e) \in Strings
    <2> SUFFICES ASSUME NEW e \in Outs PROVE SerializeOutput(e) \in Strings
      OBVIOUS
    <2>1. e.value \in Nat /\ e.script \in Strings /\ Fits(Len(e.script), 8)
      BY DEF Outs
    <2>2. Reads(SerializeScript(e.script), <<ScriptField>>, <<e.script>>)
      BY <2>1, ReadsFields
    <2> QED
      BY <2>1, <2>2, LeBytesType, CatType DEF SerializeOutput, Reads
  <1>1. f \in Seq(Outs) /\ <<>> \in Seq(Outs)
    OBVIOUS
  <1>2. <<>> \in P
    <2>1. f \o <<>> = Append(<<>>, o)
      <3>1. f \o <<>> = f
        BY <1>1, ConcatEmptySeq
      <3>2. f = Append(<<>>, o)
        OBVIOUS
      <3> QED
        BY <3>1, <3>2, Zenon
    <2>2. SerializeOutputs(Append(<<>>, o)) = SerializeOutputs(<<>>) \o SerializeOutput(o)
      BY <1>1, OutputsStep
    <2>3. SerializeOutputs(<<>>) = <<>>
      BY OutputsStep
    <2>4. <<>> \o SerializeOutput(o) = SerializeOutput(o) /\ SerializeOutput(o) \o <<>> = SerializeOutput(o)
      BY <1>0, ConcatEmptySeq DEF Strings
    <2> HIDE DEF f
    <2>5. SerializeOutputs(f \o <<>>) = SerializeOutput(o) \o SerializeOutputs(<<>>)
      BY <2>1, <2>2, <2>3, <2>4, Zenon
    <2> QED
      BY <1>1, <2>5
  <1>3. ASSUME NEW q \in Seq(Outs), NEW e \in Outs, q \in P PROVE Append(q, e) \in P
    <2> HIDE DEF f
    <2>1. f \o Append(q, e) = Append(f \o q, e) /\ f \o q \in Seq(Outs) /\ Append(q, e) \in Seq(Outs)
      BY <1>1, Outputs!AppendToConcat, ConcatProperties, AppendProperties
    <2>2. SerializeOutputs(Append(f \o q, e)) = SerializeOutputs(f \o q) \o SerializeOutput(e)
      BY <2>1, OutputsStep
    <2>3. SerializeOutputs(Append(q, e)) = SerializeOutputs(q) \o SerializeOutput(e)
      BY OutputsStep
    <2>4. SerializeOutputs(f \o q) = SerializeOutput(o) \o SerializeOutputs(q)
      BY <1>3
    <2>5. SerializeOutputs(q) \in Strings
      BY OutputsRead DEF Reads
    <2>6. (SerializeOutput(o) \o SerializeOutputs(q)) \o SerializeOutput(e)
          = SerializeOutput(o) \o (SerializeOutputs(q) \o SerializeOutput(e))
      BY <1>0, <2>5, Assoc
    <2> QED
      BY <2>1, <2>2, <2>3, <2>4, <2>6
  <1> HIDE DEF P, f
  <1>4. \A q \in Seq(Outs) : q \in P
    BY <1>2, <1>3, Shifts!SeqInduct
  <1> QED
    BY <1>4 DEF P, f

-----------------------------------------------------------------------------
(* ---- A coinbase ---- *)

Marks(marked) == IF marked THEN <<0, 1>> ELSE <<>>
Outpoint == Zeros(HashSize) \o LeBytes(Max32, 4)
Count(marked) == IF marked THEN <<1>> ELSE <<>>
Witness(marked) == IF marked THEN Zeros(HashSize) ELSE <<>>

HeadBytes(tx, marked) ==
    LeBytes(tx.version, 4) \o Marks(marked) \o <<1>> \o Outpoint \o SerializeScript(tx.script)
        \o LeBytes(tx.sequence, 4) \o CompactSize(Len(tx.outputs))
HeadVals(tx, marked) ==
    <<LeBytes(tx.version, 4), Marks(marked), <<1>>, Outpoint, tx.script,
      LeBytes(tx.sequence, 4), <<Len(tx.outputs)>>>>
TailBytes(tx, marked) ==
    Count(marked) \o (IF marked THEN SerializeScript(Zeros(HashSize)) ELSE <<>>)
        \o LeBytes(tx.locktime, 4)
TailFields(marked) == <<IF marked THEN 1 ELSE 0, IF marked THEN ScriptField ELSE 0, 4>>
TailVals(tx, marked) == <<Count(marked), Witness(marked), LeBytes(tx.locktime, 4)>>

(* A coinbase with or without a witness, on the wire.                      *)
Wire(tx, marked) == HeadBytes(tx, marked) \o (SerializeOutputs(tx.outputs) \o TailBytes(tx, marked))

(* The integers have their widths.                                         *)
IsTx(tx) ==
    /\ Fits(tx.version, 4) /\ Fits(tx.sequence, 4) /\ Fits(tx.locktime, 4)
    /\ tx.script \in Strings /\ Fits(Len(tx.script), 8)
    /\ tx.outputs \in Seq(Outs) /\ Fits(Len(tx.outputs), 8)

(* An element more.                                                        *)
LEMMA OneMore ==
    ASSUME NEW S, NEW p \in Seq(S), NEW u \in S
    PROVE  /\ p \o <<u>> \in Seq(S) /\ Len(p \o <<u>>) = Len(p) + 1
           /\ \A i \in 1 .. Len(p) : (p \o <<u>>)[i] = p[i]
           /\ (p \o <<u>>)[Len(p) + 1] = u
  <1> DEFINE d == <<u>>
  <1>1. d \in Seq(S) /\ Len(d) = 1 /\ d[1] = u
    OBVIOUS
  <1> HIDE DEF d
  <1>2. /\ p \o d \in Seq(S) /\ Len(p \o d) = Len(p) + Len(d)
        /\ \A i \in 1 .. Len(p) + Len(d) : (p \o d)[i] = IF i <= Len(p) THEN p[i] ELSE d[i - Len(p)]
    BY <1>1, ConcatProperties
  <1>3. /\ Len(p \o d) = Len(p) + 1 /\ \A i \in 1 .. Len(p) : (p \o d)[i] = p[i]
        /\ (p \o d)[Len(p) + 1] = u
    BY <1>1, <1>2
  <1> QED
    BY <1>2, <1>3 DEF d

(* Three elements, one after the other.                                    *)
LEMMA ThreeInARow ==
    ASSUME NEW S, NEW a1 \in S, NEW a2 \in S, NEW a3 \in S
    PROVE  <<a1>> \o <<a2>> \o <<a3>> = <<a1, a2, a3>>
  <1> DEFINE s1 == <<a1>>
             s2 == s1 \o <<a2>>
             s3 == s2 \o <<a3>>
             t3 == <<a1, a2, a3>>
  <1>1. s1 \in Seq(S) /\ Len(s1) = 1 /\ s1[1] = a1
    OBVIOUS
  <1> HIDE DEF s1
  <1>2. s2 \in Seq(S) /\ Len(s2) = 2 /\ s2[1] = a1 /\ s2[2] = a2
    <2>1. /\ s2 \in Seq(S) /\ Len(s2) = Len(s1) + 1
          /\ \A i \in 1 .. Len(s1) : s2[i] = s1[i]
          /\ s2[Len(s1) + 1] = a2
      BY <1>1, OneMore, ZenonT(60)
    <2> HIDE DEF s2
    <2> QED
      BY <1>1, <2>1
  <1> HIDE DEF s2
  <1>3. s3 \in Seq(S) /\ Len(s3) = 3 /\ s3[1] = a1 /\ s3[2] = a2 /\ s3[3] = a3
    <2>1. /\ s3 \in Seq(S) /\ Len(s3) = Len(s2) + 1
          /\ \A i \in 1 .. Len(s2) : s3[i] = s2[i]
          /\ s3[Len(s2) + 1] = a3
      BY <1>2, OneMore, ZenonT(60)
    <2> HIDE DEF s3
    <2> QED
      BY <1>2, <2>1
  <1>4. t3 \in Seq(S) /\ Len(t3) = 3 /\ t3[1] = a1 /\ t3[2] = a2 /\ t3[3] = a3
    OBVIOUS
  <1> HIDE DEF s3, t3
  <1>5. s3 = t3
    <2>1. \A i \in 1 .. 3 : i = 1 \/ i = 2 \/ i = 3
      OBVIOUS
    <2>2. \A i \in 1 .. Len(s3) : s3[i] = t3[i]
      BY <1>3, <1>4, <2>1
    <2> QED
      BY <1>3, <1>4, <2>2, SeqEqual
  <1> QED
    BY <1>5, Zenon DEF s1, s2, s3, t3

InARow(S, a1, a2, a3, a4, a5, a6, a7) ==
    <<a1>> \o <<a2>> \o <<a3>> \o <<a4>> \o <<a5>> \o <<a6>> \o <<a7>>
        = <<a1, a2, a3, a4, a5, a6, a7>>

(* Seven elements of S, one after the other.                               *)
LEMMA SevenInARow ==
    ASSUME NEW S, NEW a1 \in S, NEW a2 \in S, NEW a3 \in S, NEW a4 \in S, NEW a5 \in S,
           NEW a6 \in S, NEW a7 \in S
    PROVE  InARow(S, a1, a2, a3, a4, a5, a6, a7)
  <1> DEFINE s1 == <<a1>>
             s2 == s1 \o <<a2>>
             s3 == s2 \o <<a3>>
             s4 == s3 \o <<a4>>
             s5 == s4 \o <<a5>>
             s6 == s5 \o <<a6>>
             s7 == s6 \o <<a7>>
  <1>1. s1 \in Seq(S) /\ Len(s1) = 1 /\ s1[1] = a1
    OBVIOUS
  <1> HIDE DEF s1
  <1>2. s2 \in Seq(S) /\ Len(s2) = 2 /\ s2[1] = a1 /\ s2[2] = a2
    <2>1. /\ s2 \in Seq(S) /\ Len(s2) = Len(s1) + 1
          /\ \A i \in 1 .. Len(s1) : s2[i] = s1[i]
          /\ s2[Len(s1) + 1] = a2
      BY <1>1, OneMore, ZenonT(60)
    <2> HIDE DEF s2
    <2> QED
      BY <1>1, <2>1
  <1> HIDE DEF s2
  <1>3. s3 \in Seq(S) /\ Len(s3) = 3 /\ s3[1] = a1 /\ s3[2] = a2 /\ s3[3] = a3
    <2>1. /\ s3 \in Seq(S) /\ Len(s3) = Len(s2) + 1
          /\ \A i \in 1 .. Len(s2) : s3[i] = s2[i]
          /\ s3[Len(s2) + 1] = a3
      BY <1>2, OneMore, ZenonT(60)
    <2> HIDE DEF s3
    <2> QED
      BY <1>2, <2>1
  <1> HIDE DEF s3
  <1>4. /\ s4 \in Seq(S) /\ Len(s4) = 4
        /\ s4[1] = a1 /\ s4[2] = a2 /\ s4[3] = a3 /\ s4[4] = a4
    <2>1. /\ s4 \in Seq(S) /\ Len(s4) = Len(s3) + 1
          /\ \A i \in 1 .. Len(s3) : s4[i] = s3[i]
          /\ s4[Len(s3) + 1] = a4
      BY <1>3, OneMore, ZenonT(60)
    <2> HIDE DEF s4
    <2> QED
      BY <1>3, <2>1
  <1> HIDE DEF s4
  <1>5. /\ s5 \in Seq(S) /\ Len(s5) = 5
        /\ s5[1] = a1 /\ s5[2] = a2 /\ s5[3] = a3 /\ s5[4] = a4 /\ s5[5] = a5
    <2>1. /\ s5 \in Seq(S) /\ Len(s5) = Len(s4) + 1
          /\ \A i \in 1 .. Len(s4) : s5[i] = s4[i]
          /\ s5[Len(s4) + 1] = a5
      BY <1>4, OneMore, ZenonT(60)
    <2> HIDE DEF s5
    <2> QED
      BY <1>4, <2>1
  <1> HIDE DEF s5
  <1>6. /\ s6 \in Seq(S) /\ Len(s6) = 6
        /\ s6[1] = a1 /\ s6[2] = a2 /\ s6[3] = a3 /\ s6[4] = a4 /\ s6[5] = a5 /\ s6[6] = a6
    <2>1. /\ s6 \in Seq(S) /\ Len(s6) = Len(s5) + 1
          /\ \A i \in 1 .. Len(s5) : s6[i] = s5[i]
          /\ s6[Len(s5) + 1] = a6
      BY <1>5, OneMore, ZenonT(60)
    <2> HIDE DEF s6
    <2> QED
      BY <1>5, <2>1
  <1> HIDE DEF s6
  <1>7. /\ s7 \in Seq(S) /\ Len(s7) = 7 /\ s7[1] = a1 /\ s7[2] = a2 /\ s7[3] = a3
        /\ s7[4] = a4 /\ s7[5] = a5 /\ s7[6] = a6 /\ s7[7] = a7
    <2>1. /\ s7 \in Seq(S) /\ Len(s7) = Len(s6) + 1
          /\ \A i \in 1 .. Len(s6) : s7[i] = s6[i]
          /\ s7[Len(s6) + 1] = a7
      BY <1>6, OneMore, ZenonT(60)
    <2> HIDE DEF s7
    <2> QED
      BY <1>6, <2>1
  <1> HIDE DEF s7
  <1> DEFINE t7 == <<a1, a2, a3, a4, a5, a6, a7>>
  <1>8. /\ t7 \in Seq(S) /\ Len(t7) = 7 /\ t7[1] = a1 /\ t7[2] = a2 /\ t7[3] = a3
        /\ t7[4] = a4 /\ t7[5] = a5 /\ t7[6] = a6 /\ t7[7] = a7
    OBVIOUS
  <1> HIDE DEF t7
  <1>9. s7 = t7
    <2>1. \A i \in 1 .. 7 : i = 1 \/ i = 2 \/ i = 3 \/ i = 4 \/ i = 5 \/ i = 6 \/ i = 7
      OBVIOUS
    <2>2. \A i \in 1 .. Len(s7) : s7[i] = t7[i]
      BY <1>7, <1>8, <2>1
    <2> QED
      BY <1>7, <1>8, <2>2, SeqEqual
  <1> QED
    BY <1>9, Zenon DEF InARow, s1, s2, s3, s4, s5, s6, s7, t7

(* Zeros are bytes.                                                        *)
LEMMA ZerosType ==
    ASSUME NEW k \in Nat
    PROVE  Zeros(k) \in Strings /\ Len(Zeros(k)) = k /\ \A i \in 1 .. k : Zeros(k)[i] = 0
  BY Sizes DEF Zeros, Strings

(* The parts of a fixed size.                                              *)
LEMMA FixedParts ==
    ASSUME NEW marked \in BOOLEAN
    PROVE  /\ Marks(marked) \in Strings /\ Len(Marks(marked)) = (IF marked THEN 2 ELSE 0)
           /\ <<1>> \in Strings /\ Len(<<1>>) = 1
           /\ Outpoint \in Strings /\ Len(Outpoint) = HashSize + 4
           /\ Count(marked) \in Strings /\ Len(Count(marked)) = (IF marked THEN 1 ELSE 0)
           /\ Witness(marked) \in Strings /\ Fits(Len(Zeros(HashSize)), 8)
  <1>1. 0 \in Byte /\ 1 \in Byte
    BY Sizes DEF Byte
  <1>2. /\ <<0, 1>> \in Strings /\ Len(<<0, 1>>) = 2 /\ <<>> \in Strings /\ Len(<<>>) = 0
        /\ <<1>> \in Strings /\ Len(<<1>>) = 1
    BY <1>1 DEF Strings, Byte
  <1>3. HashSize \in Nat /\ Max32 \in Nat /\ HashSize < TxBase /\ 4 \in Nat
    BY Sizes DEF Max32
  <1>4. Zeros(HashSize) \in Strings /\ Len(Zeros(HashSize)) = HashSize
    BY <1>3, ZerosType
  <1>5. Outpoint \in Strings /\ Len(Outpoint) = HashSize + 4
    <2>1. LeBytes(Max32, 4) \in Strings /\ Len(LeBytes(Max32, 4)) = 4
      BY <1>3, LeBytesType
    <2> QED
      BY <1>4, <2>1, CatType DEF Outpoint
  <1>6. Fits(HashSize, 8)
    BY <1>3, FitsWide
  <1> QED
    BY <1>2, <1>4, <1>5, <1>6 DEF Marks, Count, Witness

(* The fields up to the number of outputs.                                 *)
LEMMA HeadRead ==
    ASSUME NEW tx, IsTx(tx), NEW marked \in BOOLEAN
    PROVE  Reads(HeadBytes(tx, marked),
                 <<4, IF marked THEN 2 ELSE 0, 1, HashSize + 4, ScriptField, 4, SizeField>>,
                 HeadVals(tx, marked))
  <1> DEFINE ver == LeBytes(tx.version, 4)
             mk == Marks(marked)
             one == <<1>>
             seq == LeBytes(tx.sequence, 4)
             num == <<Len(tx.outputs)>>
             k == IF marked THEN 2 ELSE 0
             h == HashSize + 4
  <1>1. /\ tx.version \in Nat /\ tx.sequence \in Nat /\ tx.script \in Strings
        /\ Fits(Len(tx.script), 8) /\ Fits(Len(tx.outputs), 8)
    BY DEF IsTx, Fits
  <1>2. ver \in Strings /\ Len(ver) = 4 /\ seq \in Strings /\ Len(seq) = 4
    BY <1>1, LeBytesType
  <1>3. /\ mk \in Strings /\ Len(mk) = k /\ one \in Strings /\ Len(one) = 1
        /\ Outpoint \in Strings /\ Len(Outpoint) = h
    BY FixedParts
  <1>4. Reads(CompactSize(Len(tx.outputs)), <<SizeField>>, <<num>>)
    BY <1>1, ReadsFields
  <1> HIDE DEF ver, mk, one, seq, num, k, h
  <1>5. Reads(ver, <<4>>, <<ver>>)
    BY <1>2, ReadsFields
  <1>6. Reads(mk, <<k>>, <<mk>>)
    BY <1>3, ReadsFields
  <1>7. Reads(one, <<1>>, <<one>>)
    BY <1>3, ReadsFields
  <1>8. Reads(Outpoint, <<h>>, <<Outpoint>>)
    BY <1>3, ReadsFields
  <1>9. Reads(SerializeScript(tx.script), <<ScriptField>>, <<tx.script>>)
    BY <1>1, ReadsFields
  <1>10. Reads(seq, <<4>>, <<seq>>)
    BY <1>2, ReadsFields
  <1>11. Reads(ver \o mk, <<4>> \o <<k>>, <<ver>> \o <<mk>>)
    BY <1>5, <1>6, ReadsBoth
  <1>12. Reads(ver \o mk \o one, <<4>> \o <<k>> \o <<1>>, <<ver>> \o <<mk>> \o <<one>>)
    BY <1>7, <1>11, ReadsBoth
  <1>13. Reads(ver \o mk \o one \o Outpoint, <<4>> \o <<k>> \o <<1>> \o <<h>>,
               <<ver>> \o <<mk>> \o <<one>> \o <<Outpoint>>)
    BY <1>8, <1>12, ReadsBoth
  <1>14. Reads(ver \o mk \o one \o Outpoint \o SerializeScript(tx.script),
               <<4>> \o <<k>> \o <<1>> \o <<h>> \o <<ScriptField>>,
               <<ver>> \o <<mk>> \o <<one>> \o <<Outpoint>> \o <<tx.script>>)
    BY <1>9, <1>13, ReadsBoth
  <1>15. Reads(ver \o mk \o one \o Outpoint \o SerializeScript(tx.script) \o seq,
               <<4>> \o <<k>> \o <<1>> \o <<h>> \o <<ScriptField>> \o <<4>>,
               <<ver>> \o <<mk>> \o <<one>> \o <<Outpoint>> \o <<tx.script>> \o <<seq>>)
    BY <1>10, <1>14, ReadsBoth
  <1>16. Reads(ver \o mk \o one \o Outpoint \o SerializeScript(tx.script) \o seq
                   \o CompactSize(Len(tx.outputs)),
               <<4>> \o <<k>> \o <<1>> \o <<h>> \o <<ScriptField>> \o <<4>> \o <<SizeField>>,
               <<ver>> \o <<mk>> \o <<one>> \o <<Outpoint>> \o <<tx.script>> \o <<seq>> \o <<num>>)
    BY <1>4, <1>15, ReadsBoth
  <1>17. <<4>> \o <<k>> \o <<1>> \o <<h>> \o <<ScriptField>> \o <<4>> \o <<SizeField>>
         = <<4, k, 1, h, ScriptField, 4, SizeField>>
    <2>1. /\ 4 \in Int /\ k \in Int /\ 1 \in Int /\ h \in Int
          /\ ScriptField \in Int /\ SizeField \in Int
      BY Sizes DEF ScriptField, SizeField, k, h
    <2>2. InARow(Int, 4, k, 1, h, ScriptField, 4, SizeField)
      BY <2>1, SevenInARow
    <2> QED
      BY <2>2, Zenon DEF InARow
  <1>18. <<ver>> \o <<mk>> \o <<one>> \o <<Outpoint>> \o <<tx.script>> \o <<seq>> \o <<num>>
         = <<ver, mk, one, Outpoint, tx.script, seq, num>>
    <2> DEFINE S == Seq(Nat)
    <2>1. ver \in S /\ mk \in S /\ one \in S /\ Outpoint \in S /\ tx.script \in S /\ seq \in S
      BY <1>1, <1>2, <1>3, StringsAre
    <2>2. num \in S
      BY DEF num, IsTx
    <2> HIDE DEF S
    <2>3. InARow(S, ver, mk, one, Outpoint, tx.script, seq, num)
      BY <2>1, <2>2, SevenInARow
    <2> QED
      BY <2>3, Zenon DEF InARow
  <1> QED
    BY <1>16, <1>17, <1>18, Zenon DEF HeadBytes, HeadVals, ver, mk, one, seq, num, k, h

(* The fields after the outputs.                                           *)
LEMMA TailRead ==
    ASSUME NEW tx, IsTx(tx), NEW marked \in BOOLEAN
    PROVE  Reads(TailBytes(tx, marked), TailFields(marked), TailVals(tx, marked))
  <1> DEFINE cnt == Count(marked)
             wit == IF marked THEN SerializeScript(Zeros(HashSize)) ELSE <<>>
             w == Witness(marked)
             lt == LeBytes(tx.locktime, 4)
             i == IF marked THEN 1 ELSE 0
             j == IF marked THEN ScriptField ELSE 0
  <1>1. lt \in Strings /\ Len(lt) = 4
    <2>1. tx.locktime \in Nat
      BY DEF IsTx, Fits
    <2> QED
      BY <2>1, LeBytesType
  <1>2. /\ cnt \in Strings /\ Len(cnt) = i /\ w \in Strings
        /\ Zeros(HashSize) \in Strings /\ Fits(Len(Zeros(HashSize)), 8)
    <2>1. Zeros(HashSize) \in Strings
      BY Sizes, ZerosType
    <2> QED
      BY <2>1, FixedParts
  <1>3. Reads(wit, <<j>>, <<w>>)
    <2>1. CASE marked
      <3>1. Reads(SerializeScript(Zeros(HashSize)), <<ScriptField>>, <<Zeros(HashSize)>>)
        BY <1>2, ReadsFields
      <3> QED
        BY <2>1, <3>1 DEF Witness
    <2>2. CASE ~marked
      <3> DEFINE e == <<>>
      <3>1. e \in Strings /\ Len(e) = 0
        BY DEF Strings
      <3>2. wit = e /\ w = e /\ j = 0
        BY <2>2 DEF Witness
      <3> HIDE DEF e, wit, w, j
      <3>3. Reads(e, <<Len(e)>>, <<e>>)
        BY <3>1, ReadsFields
      <3> QED
        BY <3>1, <3>2, <3>3
    <2> QED
      BY <2>1, <2>2
  <1> HIDE DEF cnt, wit, w, lt, i, j
  <1>4. Reads(cnt, <<i>>, <<cnt>>) /\ Reads(lt, <<4>>, <<lt>>)
    BY <1>1, <1>2, ReadsFields
  <1>5. Reads(cnt \o wit, <<i>> \o <<j>>, <<cnt>> \o <<w>>)
    BY <1>3, <1>4, ReadsBoth
  <1>6. Reads(cnt \o wit \o lt, <<i>> \o <<j>> \o <<4>>, <<cnt>> \o <<w>> \o <<lt>>)
    BY <1>4, <1>5, ReadsBoth
  <1>7. <<i>> \o <<j>> \o <<4>> = <<i, j, 4>>
    <2>1. i \in Int /\ j \in Int /\ 4 \in Int
      BY DEF i, j, ScriptField
    <2> QED
      BY <2>1, ThreeInARow, Zenon
  <1>8. <<cnt>> \o <<w>> \o <<lt>> = <<cnt, w, lt>>
    <2> DEFINE S == Seq(Nat)
    <2>1. cnt \in S /\ w \in S /\ lt \in S
      BY <1>1, <1>2, StringsAre
    <2> HIDE DEF S
    <2> QED
      BY <2>1, ThreeInARow, Zenon
  <1> QED
    BY <1>6, <1>7, <1>8, Zenon DEF TailBytes, TailFields, TailVals, cnt, wit, w, lt, i, j

(* What follows a string leaves its first bytes alone.                     *)
LEMMA Fifth ==
    ASSUME NEW s \in Strings, NEW t \in Strings, Len(s) >= 5
    PROVE  s \o t \in Strings /\ Len(s \o t) >= 5 /\ (s \o t)[5] = s[5]
  <1>1. /\ s \o t \in Strings /\ Len(s \o t) = Len(s) + Len(t) /\ Len(s) \in Nat /\ Len(t) \in Nat
        /\ \A i \in 1 .. Len(s) + Len(t) : (s \o t)[i] = IF i <= Len(s) THEN s[i] ELSE t[i - Len(s)]
    BY ConcatProperties, LenProperties DEF Strings
  <1>2. 5 \in 1 .. Len(s) + Len(t) /\ 5 <= Len(s)
    BY <1>1
  <1> QED
    BY <1>1, <1>2

(* The byte after the version tells whether there is a witness.            *)
LEMMA MarkRead ==
    ASSUME NEW tx, IsTx(tx), NEW marked \in BOOLEAN, NEW t \in Strings
    PROVE  LET bytes == HeadBytes(tx, marked) \o t
           IN  Len(bytes) > 4 /\ (bytes[5] = 0 <=> marked)
  <1> DEFINE ver == LeBytes(tx.version, 4)
             mk == Marks(marked)
             one == <<1>>
             seq == LeBytes(tx.sequence, 4)
             p == ver \o mk
             b1 == p \o one
             b2 == b1 \o Outpoint
             b3 == b2 \o SerializeScript(tx.script)
             b4 == b3 \o seq
             b5 == b4 \o CompactSize(Len(tx.outputs))
             b6 == b5 \o t
  <1>1. tx.version \in Nat /\ tx.sequence \in Nat
    BY DEF IsTx, Fits
  <1>2. ver \in Strings /\ Len(ver) = 4 /\ seq \in Strings
    BY <1>1, LeBytesType
  <1>3. /\ mk \in Strings /\ Len(mk) = (IF marked THEN 2 ELSE 0) /\ one \in Strings /\ Len(one) = 1
        /\ Outpoint \in Strings
    BY FixedParts
  <1>4. SerializeScript(tx.script) \in Strings /\ CompactSize(Len(tx.outputs)) \in Strings
    <2>1. Reads(SerializeScript(tx.script), <<ScriptField>>, <<tx.script>>)
      BY ReadsFields DEF IsTx
    <2>2. Reads(CompactSize(Len(tx.outputs)), <<SizeField>>, <<<<Len(tx.outputs)>>>>)
      BY ReadsFields DEF IsTx
    <2> QED
      BY <2>1, <2>2 DEF Reads
  <1>5. (marked => mk[1] = 0) /\ one[1] = 1
    BY DEF Marks
  <1> HIDE DEF ver, mk, one, seq
  <1>6. /\ p \in Strings /\ Len(p) = Len(ver) + Len(mk)
        /\ \A i \in 1 .. Len(ver) + Len(mk) : p[i] = IF i <= Len(ver) THEN ver[i] ELSE mk[i - Len(ver)]
    BY <1>2, <1>3, CatType, CatAt
  <1> HIDE DEF p
  <1>7. /\ b1 \in Strings /\ Len(b1) = Len(p) + Len(one)
        /\ \A i \in 1 .. Len(p) + Len(one) : b1[i] = IF i <= Len(p) THEN p[i] ELSE one[i - Len(p)]
    BY <1>3, <1>6, CatType, CatAt
  <1> HIDE DEF b1
  <1>8. Len(b1) >= 5 /\ (b1[5] = 0 <=> marked)
    <2>1. CASE marked
      <3>1. Len(p) = 6 /\ p[5] = 0
        BY <1>2, <1>3, <1>5, <1>6, <2>1
      <3> QED
        BY <1>3, <1>7, <2>1, <3>1
    <2>2. CASE ~marked
      <3>1. Len(p) = 4
        BY <1>2, <1>3, <1>6, <2>2
      <3> QED
        BY <1>3, <1>5, <1>7, <2>2, <3>1
    <2> QED
      BY <2>1, <2>2
  <1>9. b2 \in Strings /\ Len(b2) >= 5 /\ b2[5] = b1[5]
    BY <1>3, <1>7, <1>8, Fifth
  <1> HIDE DEF b2
  <1>10. b3 \in Strings /\ Len(b3) >= 5 /\ b3[5] = b2[5]
    BY <1>4, <1>9, Fifth
  <1> HIDE DEF b3
  <1>11. b4 \in Strings /\ Len(b4) >= 5 /\ b4[5] = b3[5]
    BY <1>2, <1>10, Fifth
  <1> HIDE DEF b4
  <1>12. b5 \in Strings /\ Len(b5) >= 5 /\ b5[5] = b4[5]
    BY <1>4, <1>11, Fifth
  <1> HIDE DEF b5
  <1>13. b6 \in Strings /\ Len(b6) >= 5 /\ b6[5] = b5[5]
    BY <1>12, Fifth
  <1> HIDE DEF b6
  <1>14. Len(b6) > 4 /\ (b6[5] = 0 <=> marked)
    <2>1. Len(b6) \in Nat
      BY <1>13 DEF Strings
    <2> QED
      BY <1>8, <1>9, <1>10, <1>11, <1>12, <1>13, <2>1
  <1>15. HeadBytes(tx, marked) = b5
    BY Zenon DEF HeadBytes, b5, b4, b3, b2, b1, p, ver, mk, one, seq
  <1> QED
    BY <1>14, <1>15 DEF b6

(* Where the values are.                                                   *)
LEMMA ValuesAt ==
    ASSUME NEW tx, IsTx(tx), NEW marked \in BOOLEAN
    PROVE  LET n == Len(tx.outputs)
               got == HeadVals(tx, marked) \o (OutVals(tx.outputs) \o TailVals(tx, marked))
           IN  /\ got[1] = LeBytes(tx.version, 4) /\ got[2] = Marks(marked) /\ got[3] = <<1>>
               /\ got[4] = Outpoint /\ got[5] = tx.script /\ got[6] = LeBytes(tx.sequence, 4)
               /\ \A i \in 1 .. 2 * n : got[7 + i] = OutVals(tx.outputs)[i]
               /\ got[8 + 2 * n] = Count(marked) /\ got[9 + 2 * n] = Witness(marked)
               /\ got[10 + 2 * n] = LeBytes(tx.locktime, 4)
               /\ HeadVals(tx, marked) \in Values /\ HeadVals(tx, marked)[7] = <<n>>
               /\ HeadVals(tx, marked)[2] = Marks(marked)
  <1> DEFINE n == Len(tx.outputs)
             HV == HeadVals(tx, marked)
             OV == OutVals(tx.outputs)
             TV == TailVals(tx, marked)
             rest == OV \o TV
             got == HV \o rest
  <1>1. HV \in Values /\ TV \in Values
    BY HeadRead, TailRead DEF Reads
  <1>2. /\ Len(HV) = 7 /\ HV[1] = LeBytes(tx.version, 4) /\ HV[2] = Marks(marked) /\ HV[3] = <<1>>
        /\ HV[4] = Outpoint /\ HV[5] = tx.script /\ HV[6] = LeBytes(tx.sequence, 4) /\ HV[7] = <<n>>
    BY DEF HeadVals
  <1>3. /\ Len(TV) = 3 /\ TV[1] = Count(marked) /\ TV[2] = Witness(marked)
        /\ TV[3] = LeBytes(tx.locktime, 4)
    BY DEF TailVals
  <1>4. OV \in Values /\ Len(OV) = 2 * n /\ n \in Nat
    BY OutValsAre DEF IsTx
  <1> HIDE DEF HV, OV, TV, n
  <1>5. /\ rest \in Values /\ Len(rest) = Len(OV) + Len(TV)
        /\ \A i \in 1 .. Len(OV) + Len(TV) : rest[i] = IF i <= Len(OV) THEN OV[i] ELSE TV[i - Len(OV)]
    BY <1>1, <1>4, ConcatProperties DEF Values
  <1> HIDE DEF rest
  <1>6. \A i \in 1 .. Len(HV) + Len(rest) : got[i] = IF i <= Len(HV) THEN HV[i] ELSE rest[i - Len(HV)]
    BY <1>1, <1>5, ConcatProperties DEF Values
  <1> HIDE DEF got
  <1>7. Len(rest) = 2 * n + 3 /\ Len(HV) + Len(rest) = 2 * n + 10 /\ 2 * n \in Nat
    BY <1>2, <1>3, <1>4, <1>5
  <1>8. \A i \in 1 .. 7 : got[i] = HV[i]
    BY <1>2, <1>6, <1>7, SMTT(30)
  <1>9. \A i \in 1 .. 2 * n + 3 : got[7 + i] = rest[i]
    BY <1>2, <1>6, <1>7, SMTT(30)
  <1>10. \A i \in 1 .. 2 * n : got[7 + i] = OV[i]
    BY <1>3, <1>4, <1>5, <1>7, <1>9
  <1>11. /\ got[7 + (2 * n + 1)] = TV[1] /\ got[7 + (2 * n + 2)] = TV[2]
         /\ got[7 + (2 * n + 3)] = TV[3]
    <2> DEFINE m == 2 * n
    <2> HIDE DEF m
    <2>1. /\ m \in Nat /\ Len(OV) = m /\ Len(TV) = 3
          /\ \A i \in 1 .. m + 3 : rest[i] = IF i <= m THEN OV[i] ELSE TV[i - m]
          /\ \A i \in 1 .. m + 3 : got[7 + i] = rest[i]
      BY <1>3, <1>4, <1>5, <1>7, <1>9 DEF m
    <2>2. \A i \in 1 .. 3 : m + i \in 1 .. m + 3 /\ ~(m + i <= m) /\ (m + i) - m = i
      BY <2>1
    <2>3. \A i \in 1 .. 3 : got[7 + (m + i)] = TV[i]
      BY <2>1, <2>2, ZenonT(60)
    <2> QED
      BY <2>3 DEF m
  <1>12. 7 + (2 * n + 1) = 8 + 2 * n /\ 7 + (2 * n + 2) = 9 + 2 * n /\ 7 + (2 * n + 3) = 10 + 2 * n
    BY <1>7
  <1>13. /\ got[8 + 2 * n] = TV[1] /\ got[9 + 2 * n] = TV[2] /\ got[10 + 2 * n] = TV[3]
    BY <1>11, <1>12
  <1>14. /\ got[1] = HV[1] /\ got[2] = HV[2] /\ got[3] = HV[3] /\ got[4] = HV[4] /\ got[5] = HV[5]
         /\ got[6] = HV[6]
    BY <1>8
  <1> QED
    BY <1>1, <1>2, <1>3, <1>10, <1>13, <1>14, Zenon DEF got, rest, HV, OV, TV, n

(* The outputs are put together from their values.                         *)
LEMMA OutputsBack ==
    ASSUME NEW outs \in Seq(Outs), NEW got,
           \A i \in 1 .. 2 * Len(outs) : got[7 + i] = OutVals(outs)[i]
    PROVE  [i \in 1 .. Len(outs) |-> [value |-> FromLe(got[6 + 2 * i]), script |-> got[7 + 2 * i]]]
           = outs
  <1> DEFINE n == Len(outs)
             back == [i \in 1 .. n |-> [value |-> FromLe(got[6 + 2 * i]), script |-> got[7 + 2 * i]]]
  <1>1. n \in Nat
    OBVIOUS
  <1>2. ASSUME NEW i \in 1 .. n
        PROVE  [value |-> FromLe(got[6 + 2 * i]), script |-> got[7 + 2 * i]] = outs[i]
    <2> DEFINE o == outs[i]
    <2>1. /\ 2 * i - 1 \in 1 .. 2 * n /\ 2 * i \in 1 .. 2 * n /\ 7 + (2 * i - 1) = 6 + 2 * i
          /\ (2 * i - 1) % 2 = 1 /\ (2 * i) % 2 # 1 /\ ((2 * i - 1) + 1) \div 2 = i
          /\ (2 * i) \div 2 = i
      BY <1>1
    <2>2. got[7 + (2 * i - 1)] = LeBytes(o.value, 8)
      <3>1. OutVals(outs)[2 * i - 1] = IF (2 * i - 1) % 2 = 1
                                       THEN LeBytes(outs[((2 * i - 1) + 1) \div 2].value, 8)
                                       ELSE outs[(2 * i - 1) \div 2].script
        BY <2>1, OutValsAre
      <3> QED
        BY <2>1, <3>1, Zenon
    <2>3. got[7 + 2 * i] = o.script
      <3>1. OutVals(outs)[2 * i] = IF (2 * i) % 2 = 1
                                   THEN LeBytes(outs[(2 * i + 1) \div 2].value, 8)
                                   ELSE outs[(2 * i) \div 2].script
        BY <2>1, OutValsAre
      <3> QED
        BY <2>1, <3>1, Zenon
    <2>4. o \in Outs
      BY ElementOfSeq
    <2>5. o \in [value : Nat, script : Strings] /\ Fits(o.value, 8)
      BY <2>4 DEF Outs
    <2>6. FromLe(LeBytes(o.value, 8)) = o.value
      BY <2>5, FromLeBytes
    <2>7. got[6 + 2 * i] = LeBytes(o.value, 8)
      BY <2>1, <2>2
    <2> HIDE DEF o
    <2>8. [value |-> o.value, script |-> o.script] = o
      BY <2>5
    <2> QED
      BY <2>3, <2>6, <2>7, <2>8, Zenon DEF o
  <1>3. back \in Seq(Outs) /\ Len(back) = n /\ \A i \in 1 .. n : back[i] = outs[i]
    <2>1. \A i \in 1 .. n : outs[i] \in Outs
      BY ElementOfSeq
    <2>2. back = [i \in 1 .. n |-> outs[i]]
      BY <1>2
    <2> HIDE DEF back
    <2> QED
      BY <1>1, <2>1, <2>2
  <1> QED
    BY <1>1, <1>3, SeqEqual DEF n, back

(* The parts of a coinbase on the wire are strings.                        *)
LEMMA WireType ==
    ASSUME NEW tx, IsTx(tx), NEW marked \in BOOLEAN
    PROVE  /\ HeadBytes(tx, marked) \in Strings /\ SerializeOutputs(tx.outputs) \in Strings
           /\ TailBytes(tx, marked) \in Strings
           /\ SerializeOutputs(tx.outputs) \o TailBytes(tx, marked) \in Strings
           /\ Wire(tx, marked) \in Strings
  <1>1. tx.outputs \in Seq(Outs)
    BY DEF IsTx
  <1>2. /\ HeadBytes(tx, marked) \in Strings /\ SerializeOutputs(tx.outputs) \in Strings
        /\ TailBytes(tx, marked) \in Strings
    BY <1>1, HeadRead, OutputsRead, TailRead DEF Reads
  <1>3. SerializeOutputs(tx.outputs) \o TailBytes(tx, marked) \in Strings
    BY <1>2, CatType
  <1> QED
    BY <1>2, <1>3, CatType DEF Wire

(* All the fields of a coinbase are read.                                  *)
LEMMA AllRead ==
    ASSUME NEW tx, IsTx(tx), NEW marked \in BOOLEAN
    PROVE  LET n == Len(tx.outputs)
               HV == HeadVals(tx, marked)
               rest == SerializeOutputs(tx.outputs) \o TailBytes(tx, marked)
           IN  /\ ReadFields(Cursor(Wire(tx, marked), <<>>), HeadFields(Wire(tx, marked)))
                  = Cursor(rest, HV)
               /\ ReadFields(Cursor(rest, HV), RestFields(n, marked))
                  = Cursor(<<>>, HV \o (OutVals(tx.outputs) \o TailVals(tx, marked)))
               /\ n <= Len(rest)
  <1> DEFINE n == Len(tx.outputs)
             HV == HeadVals(tx, marked)
             OV == OutVals(tx.outputs)
             TV == TailVals(tx, marked)
             SO == SerializeOutputs(tx.outputs)
             TB == TailBytes(tx, marked)
             rest == SO \o TB
             b == HeadBytes(tx, marked) \o rest
  <1>1. tx.outputs \in Seq(Outs) /\ <<>> \in Values /\ <<>> \in Strings
    BY DEF IsTx, Values, Strings
  <1>2. SO \in Strings /\ TB \in Strings /\ rest \in Strings
    BY WireType
  <1>3. HeadFields(b) = <<4, IF marked THEN 2 ELSE 0, 1, HashSize + 4, ScriptField, 4, SizeField>>
    <2> HIDE DEF rest
    <2>1. Len(b) > 4 /\ (b[5] = 0 <=> marked)
      BY <1>2, MarkRead
    <2> HIDE DEF b
    <2> QED
      BY <2>1 DEF HeadFields
  <1>4. ReadFields(Cursor(b, <<>>), HeadFields(b)) = Cursor(rest, <<>> \o HV)
    <2> HIDE DEF rest
    <2>1. ReadFields(Cursor(b, <<>>),
                     <<4, IF marked THEN 2 ELSE 0, 1, HashSize + 4, ScriptField, 4, SizeField>>)
          = Cursor(rest, <<>> \o HV)
      BY <1>1, <1>2, HeadRead, ZenonT(60) DEF Reads
    <2> QED
      BY <1>3, <2>1, Zenon
  <1>5. HV \in Values /\ <<>> \o HV = HV
    <2>1. HV \in Values
      BY HeadRead DEF Reads
    <2> QED
      BY <2>1, ConcatEmptySeq DEF Values
  <1>6. RestFields(n, marked) = OutFields(n) \o TailFields(marked)
    BY Zenon DEF RestFields, OutFields, TailFields
  <1>7. Reads(rest, OutFields(n) \o TailFields(marked), OV \o TV) /\ n <= Len(SO)
    <2>1. Reads(SO, OutFields(n), OV) /\ n <= Len(SO)
      BY <1>1, OutputsRead
    <2>2. Reads(TB, TailFields(marked), TV)
      BY TailRead
    <2> HIDE DEF SO, TB, OV, TV, n
    <2> QED
      BY <2>1, <2>2, ReadsBoth
  <1>8. ReadFields(Cursor(rest, HV), RestFields(n, marked)) = Cursor(<<>>, HV \o (OV \o TV))
    <2> HIDE DEF rest, HV, OV, TV, n
    <2>1. ReadFields(Cursor(rest \o <<>>, HV), OutFields(n) \o TailFields(marked))
          = Cursor(<<>>, HV \o (OV \o TV))
      BY <1>1, <1>5, <1>7 DEF Reads
    <2>2. rest \o <<>> = rest
      BY <1>2, ConcatEmptySeq DEF Strings
    <2> QED
      BY <1>6, <2>1, <2>2, Zenon
  <1>9. n <= Len(rest)
    <2>1. n \in Nat
      BY <1>1
    <2> HIDE DEF SO, TB, n
    <2>2. Len(rest) = Len(SO) + Len(TB) /\ Len(SO) \in Nat /\ Len(TB) \in Nat
      BY <1>2, CatType
    <2> HIDE DEF rest
    <2> QED
      BY <1>7, <2>1, <2>2
  <1> QED
    BY <1>4, <1>5, <1>8, <1>9, Zenon DEF Wire, n, HV, OV, TV, SO, TB, rest, b

(* A coinbase reads back as it was written: whatever its scripts, its      *)
(* outputs and their number, the bytes of consensus::serialize, with a     *)
(* witness or without, are those from which consensus::deserialize makes   *)
(* the same transaction.                                                   *)
THEOREM ReadsBack ==
    ASSUME NEW tx, IsTx(tx), NEW marked \in BOOLEAN
    PROVE  Deserialize(Wire(tx, marked))
           = [ok |-> TRUE, tx |-> Coinbase(tx.version, tx.script, tx.sequence, tx.outputs,
                                           Witness(marked), tx.locktime)]
  <1> DEFINE n == Len(tx.outputs)
             HV == HeadVals(tx, marked)
             got == HV \o (OutVals(tx.outputs) \o TailVals(tx, marked))
             rest == SerializeOutputs(tx.outputs) \o TailBytes(tx, marked)
             b == Wire(tx, marked)
             c == ReadFields(Cursor(b, <<>>), HeadFields(b))
             all == ReadFields(c, RestFields(n, marked))
             out == Coinbase(tx.version, tx.script, tx.sequence, tx.outputs, Witness(marked),
                             tx.locktime)
  <1>1. c = Cursor(rest, HV) /\ all = Cursor(<<>>, got) /\ n <= Len(rest)
    BY AllRead
  <1>2. /\ got[1] = LeBytes(tx.version, 4) /\ got[2] = Marks(marked) /\ got[3] = <<1>>
        /\ got[4] = Outpoint /\ got[5] = tx.script /\ got[6] = LeBytes(tx.sequence, 4)
        /\ \A i \in 1 .. 2 * n : got[7 + i] = OutVals(tx.outputs)[i]
        /\ got[8 + 2 * n] = Count(marked) /\ got[9 + 2 * n] = Witness(marked)
        /\ got[10 + 2 * n] = LeBytes(tx.locktime, 4)
        /\ HV[7] = <<n>> /\ HV[2] = Marks(marked)
    BY ValuesAt
  <1>3. (Marks(marked) # <<>>) = marked /\ Marks(marked) \in {<<>>, <<0, 1>>}
    BY DEF Marks
  <1>4. tx.outputs \in Seq(Outs) /\ Fits(tx.version, 4) /\ Fits(tx.sequence, 4) /\ Fits(tx.locktime, 4)
    BY DEF IsTx
  <1>5. [i \in 1 .. n |-> [value |-> FromLe(got[6 + 2 * i]), script |-> got[7 + 2 * i]]] = tx.outputs
    BY <1>2, <1>4, OutputsBack
  <1>6. /\ FromLe(LeBytes(tx.version, 4)) = tx.version
        /\ FromLe(LeBytes(tx.sequence, 4)) = tx.sequence
        /\ FromLe(LeBytes(tx.locktime, 4)) = tx.locktime
    BY <1>4, FromLeBytes
  <1> HIDE DEF HV, got, rest, b, c, n
  <1>7. FromFields(got, n) = out
    BY <1>2, <1>5, <1>6, Zenon DEF FromFields
  <1>8. c.ok = TRUE /\ c.rest = rest /\ c.got = HV
    BY <1>1 DEF Cursor
  <1> HIDE DEF all, out
  <1>9. all.ok = TRUE /\ all.rest = <<>> /\ all.got = got
    BY <1>1 DEF Cursor
  <1>10. c.got[7][1] = n /\ (c.got[2] # <<>>) = marked
    <2>1. <<n>>[1] = n
      OBVIOUS
    <2> QED
      BY <1>2, <1>3, <1>8, <2>1, Zenon
  <1>11. DeserializeRest(c) = [ok |-> TRUE, tx |-> out]
    <2>1. /\ all.ok /\ all.rest = <<>>
          /\ all.got[2] \in {<<>>, <<0, 1>>}
          /\ all.got[3] = <<1>> /\ all.got[4] = Zeros(HashSize) \o LeBytes(Max32, 4)
      BY <1>2, <1>3, <1>9, Zenon DEF Outpoint
    <2>2. marked => all.got[8 + 2 * n] = <<1>>
      BY <1>2, <1>9, Zenon DEF Count
    <2>3. DeserializeRest(c) =
             IF /\ all.ok /\ all.rest = <<>>
                /\ all.got[2] \in {<<>>, <<0, 1>>}
                /\ all.got[3] = <<1>> /\ all.got[4] = Zeros(HashSize) \o LeBytes(Max32, 4)
                /\ marked => all.got[8 + 2 * n] = <<1>>
             THEN [ok |-> TRUE, tx |-> FromFields(all.got, n)]
             ELSE Unreadable
      BY <1>10, Zenon DEF DeserializeRest, all
    <2> QED
      BY <1>7, <1>9, <2>1, <2>2, <2>3, Zenon
  <1>12. Deserialize(b) = IF c.ok /\ c.got[7][1] <= Len(c.rest) THEN DeserializeRest(c) ELSE Unreadable
    BY Zenon DEF Deserialize, Cursor, c
  <1>13. c.ok /\ c.got[7][1] <= Len(c.rest)
    BY <1>1, <1>8, <1>10, Zenon
  <1> QED
    BY <1>11, <1>12, <1>13, Zenon DEF b, out

-----------------------------------------------------------------------------
(* ---- The coinbase of a share ---- *)

(* An output of Core's coinbase; only the sum of the values is known to    *)
(* be an integer of 64 bits.                                               *)
CoreOuts == {o \in [value : Nat, script : Strings] : Fits(Len(o.script), 8)}

KeepEmpty(o, s) == IF o.value = 0 THEN Append(s, o) ELSE s
Kept == INSTANCE FoldTheory WITH Op <- KeepEmpty, Choose <- LastIndex

(* The zero-valued outputs, one output more at a time.                     *)
LEMMA EmptyStep ==
    /\ Empty(<<>>) = <<>>
    /\ \A outs \in Seq(CoreOuts), o \in CoreOuts :
          Empty(Append(outs, o)) = IF o.value = 0 THEN Append(Empty(outs), o) ELSE Empty(outs)
  <1>1. \A outs : Empty(outs) = Kept!Fold(<<>>, outs, DOMAIN outs)
    BY DEF Empty, FoldLeft, MapThenFoldSet, Kept!Fold, Kept!MapThenFoldSet, KeepEmpty, LastIndex
  <1>2. Kept!ChoosesLast
    BY LastChooses DEF Kept!ChoosesLast
  <1>3. ASSUME NEW outs \in Seq(CoreOuts), NEW o \in CoreOuts
        PROVE  Empty(Append(outs, o)) = IF o.value = 0 THEN Append(Empty(outs), o) ELSE Empty(outs)
    <2>1. Kept!Fold(<<>>, Append(outs, o), DOMAIN Append(outs, o))
          = KeepEmpty(o, Kept!Fold(<<>>, outs, DOMAIN outs))
      BY <1>2, Kept!FoldAppend
    <2> QED
      BY <1>1, <2>1 DEF KeepEmpty
  <1>4. Empty(<<>>) = <<>>
    BY <1>1, Kept!FoldEmptySeq
  <1> QED
    BY <1>3, <1>4

(* They are outputs, and not more than Core's coinbase has.                *)
LEMMA EmptyType ==
    ASSUME NEW outs \in Seq(CoreOuts)
    PROVE  Empty(outs) \in Seq(Outs) /\ Len(Empty(outs)) <= Len(outs)
  <1> DEFINE P == {q \in Seq(CoreOuts) : Empty(q) \in Seq(Outs) /\ Len(Empty(q)) <= Len(q)}
  <1>1. <<>> \in P
    <2>1. <<>> \in Seq(Outs) /\ <<>> \in Seq(CoreOuts) /\ Len(<<>>) <= Len(<<>>)
      OBVIOUS
    <2> QED
      BY <2>1, EmptyStep, Zenon
  <1>2. ASSUME NEW q \in Seq(CoreOuts), NEW o \in CoreOuts, q \in P PROVE Append(q, o) \in P
    <2> DEFINE e == Empty(q)
    <2>1. e \in Seq(Outs) /\ Len(e) <= Len(q) /\ Len(q) \in Nat /\ Len(e) \in Nat
      BY <1>2
    <2>2. Append(q, o) \in Seq(CoreOuts) /\ Len(Append(q, o)) = Len(q) + 1
      BY AppendProperties
    <2>3. Empty(Append(q, o)) = IF o.value = 0 THEN Append(e, o) ELSE e
      BY EmptyStep
    <2> HIDE DEF e
    <2>4. CASE o.value = 0
      <3>1. Fits(0, 8)
        <4>1. 0 \in Nat /\ 0 < TxBase
          BY Sizes
        <4> QED
          BY <4>1, FitsWide
      <3>2. o \in [value : Nat, script : Strings] /\ Fits(o.value, 8) /\ Fits(Len(o.script), 8)
        BY <2>4, <3>1 DEF CoreOuts
      <3>3. o \in Outs
        BY <3>2 DEF Outs
      <3>4. Append(e, o) \in Seq(Outs) /\ Len(Append(e, o)) = Len(e) + 1
        BY <2>1, <3>3, AppendProperties
      <3>5. Empty(Append(q, o)) = Append(e, o)
        BY <2>3, <2>4
      <3>6. Len(Append(e, o)) <= Len(Append(q, o))
        BY <2>1, <2>2, <3>4
      <3> QED
        BY <2>2, <3>4, <3>5, <3>6, Zenon
    <2>5. CASE o.value # 0
      <3>1. Empty(Append(q, o)) = e
        BY <2>3, <2>5
      <3> QED
        BY <2>1, <2>2, <3>1
    <2> QED
      BY <2>4, <2>5
  <1> HIDE DEF P
  <1>3. \A q \in Seq(CoreOuts) : q \in P
    BY <1>1, <1>2, Shifts!SeqInduct
  <1> QED
    BY <1>3 DEF P

(* The witness that is written by hand is the bitcoin crate's.             *)
LEMMA WitnessBytes ==
    ASSUME NEW marked \in BOOLEAN
    PROVE  LET w == IF marked THEN <<1, HashSize>> \o Zeros(HashSize) ELSE <<>>
           IN  /\ w = Count(marked) \o (IF marked THEN SerializeScript(Zeros(HashSize)) ELSE <<>>)
               /\ w \in Strings
  <1> DEFINE Z == Zeros(HashSize)
  <1>1. Z \in Strings /\ Len(Z) = HashSize
    BY Sizes, ZerosType
  <1>2. CompactSize(HashSize) = <<HashSize>>
    <2>1. HashSize \in Nat /\ HashSize < TxBase - 3 /\ HashSize < TxBase
      BY Sizes
    <2>2. Fits(HashSize, 8)
      BY <2>1, FitsWide
    <2> QED
      BY <2>1, <2>2, CompactCases
  <1>3. CASE marked
    <2> DEFINE f == <<1>>
               h == <<HashSize>>
    <2>1. f \in Strings /\ h \in Strings /\ <<1, HashSize>> = f \o h /\ <<1, HashSize>> \in Strings
      BY Sizes DEF Strings
    <2> HIDE DEF f, h, Z
    <2>2. (f \o h) \o Z = f \o (h \o Z)
      <3>1. Associates(f, h, Z)
        BY <1>1, <2>1, AssocNamed
      <3> QED
        BY <3>1, Zenon DEF Associates
    <2>3. <<1, HashSize>> \o Z \in Strings
      BY <1>1, <2>1, CatType
    <2>4. SerializeScript(Z) = h \o Z
      BY <1>1, <1>2 DEF SerializeScript, h
    <2>5. Count(marked) = f
      BY <1>3 DEF Count, f
    <2>6. <<1, HashSize>> \o Z = Count(marked) \o SerializeScript(Z)
      BY <2>1, <2>2, <2>4, <2>5
    <2> QED
      BY <1>3, <2>3, <2>6 DEF Z
  <1>4. CASE ~marked
    <2>1. <<>> \in Strings /\ <<>> \o <<>> = <<>>
      BY DEF Strings
    <2> QED
      BY <1>4, <2>1 DEF Count
  <1> QED
    BY <1>3, <1>4

(* The order in which the pool and the bitcoin crate put the parts of a    *)
(* coinbase together.                                                      *)
Regroups(a, z, l, c, p, x, s, k, y, r, w, t) ==
    (a \o z \o l \o c \o p \o x) \o (s \o k \o y \o r \o w \o t)
    = (a \o (z \o l) \o (c \o (p \o x)) \o s \o k) \o ((y \o r) \o (w \o t))

(* It does not matter.                                                     *)
LEMMA Regrouped ==
    ASSUME NEW a \in Strings, NEW z \in Strings, NEW l \in Strings, NEW c \in Strings,
           NEW p \in Strings, NEW x \in Strings, NEW s \in Strings, NEW k \in Strings,
           NEW y \in Strings, NEW r \in Strings, NEW w \in Strings, NEW t \in Strings
    PROVE  Regroups(a, z, l, c, p, x, s, k, y, r, w, t)
  <1> DEFINE zl == z \o l
             px == p \o x
             cpx == c \o px
             sk == s \o k
             yr == y \o r
             wt == w \o t
             B == a \o zl
             Bc == B \o c
             C == B \o cpx
             Y == sk \o yr
             Q == yr \o wt
  <1>1. /\ zl \in Strings /\ px \in Strings /\ sk \in Strings /\ yr \in Strings /\ wt \in Strings
    BY CatType
  <1>2. Associates(a, z, l) /\ Associates(s, k, y)
    BY AssocNamed
  <1> HIDE DEF zl, px, sk, yr, wt
  <1>3. B \in Strings /\ cpx \in Strings /\ Y \in Strings /\ Q \in Strings
    BY <1>1, CatType
  <1>4. Associates(sk, y, r) /\ Associates(sk, yr, wt)
    BY <1>1, AssocNamed
  <1> HIDE DEF B, cpx, Y, Q
  <1>5. Bc \in Strings /\ C \in Strings
    BY <1>3, CatType
  <1>6. Associates(B, c, px) /\ Associates(Y, w, t)
    BY <1>1, <1>3, AssocNamed
  <1> HIDE DEF Bc, C
  <1>7. Associates(Bc, p, x) /\ Associates(C, s, k) /\ Associates(C, sk, Q)
    BY <1>1, <1>3, <1>5, AssocNamed
  <1>8. a \o z \o l = B /\ B \o c = Bc /\ Bc \o p \o x = C
    BY <1>2, <1>6, <1>7, Zenon DEF Associates, B, Bc, C, cpx, px, zl
  <1>9. s \o k \o y \o r \o w \o t = sk \o Q
    <2>1. s \o k \o y \o r = Y
      BY <1>4, Zenon DEF Associates, Y, yr, sk
    <2>2. Y \o w \o t = Y \o wt
      BY <1>6, Zenon DEF Associates, wt
    <2>3. Y \o wt = sk \o Q
      BY <1>4, Zenon DEF Associates, Y, Q
    <2> QED
      BY <2>1, <2>2, <2>3, Zenon
  <1>10. C \o (sk \o Q) = (C \o s \o k) \o Q
    <2>1. C \o s \o k = C \o sk
      BY <1>7, Zenon DEF Associates, sk
    <2> QED
      BY <1>7, <2>1, Zenon DEF Associates
  <1>11. (a \o z \o l \o c \o p \o x) \o (s \o k \o y \o r \o w \o t) = (C \o s \o k) \o Q
    BY <1>8, <1>9, <1>10, Zenon
  <1> QED
    BY <1>11, Zenon DEF Regroups, C, Q, B, cpx, px, zl, yr, wt

Nonce(id, ext2) == BuildFullExtranonce(ExtranoncePrefix(id), ext2)
Paid(cb, miner_script) == [value |-> Total(cb.outputs), script |-> miner_script]

(* The coinbase that a share on a job is meant to have.                    *)
JobTx(cb, miner_script, id, ext2) ==
    Coinbase(cb.version, cb.script \o Nonce(id, ext2), cb.sequence,
             <<Paid(cb, miner_script)>> \o Empty(cb.outputs),
             IF Empty(cb.outputs) = <<>> THEN <<>> ELSE Zeros(HashSize), cb.locktime)

(* The extranonce is the channel's prefix and the miner's bytes, cut or    *)
(* padded with zeros; it is as long as the script's length says.           *)
LEMMA NonceIs ==
    ASSUME NEW id \in Nat, NEW ext2 \in Strings
    PROVE  LET own == SubSeq(ext2 \o Zeros(Extranonce2Size), 1, Extranonce2Size)
           IN  /\ ExtranoncePrefix(id) \in Strings /\ own \in Strings
               /\ Nonce(id, ext2) = ExtranoncePrefix(id) \o own
               /\ Nonce(id, ext2) \in Strings /\ Len(Nonce(id, ext2)) = SV2_EXTRANONCE_TOTAL
  <1> DEFINE E == Extranonce2Size
             Z == Zeros(E)
             padded == ext2 \o Z
             own == SubSeq(padded, 1, E)
             bytes == [i \in 1 .. E |-> IF i <= Len(ext2) THEN ext2[i] ELSE 0]
             prefix == ExtranoncePrefix(id)
  <1>1. E \in Nat /\ PrefixSize - 4 \in Nat /\ PrefixSize \in Nat
    BY Sizes
  <1>2. Z \in Strings /\ Len(Z) = E /\ \A i \in 1 .. E : Z[i] = 0
    BY <1>1, ZerosType
  <1>3. prefix \in Strings /\ Len(prefix) = PrefixSize
    <2>1. LeBytes(id, 4) \in Strings /\ Len(LeBytes(id, 4)) = 4
      BY LeBytesType
    <2>2. Zeros(PrefixSize - 4) \in Strings /\ Len(Zeros(PrefixSize - 4)) = PrefixSize - 4
      BY <1>1, ZerosType
    <2>3. /\ LeBytes(id, 4) \o Zeros(PrefixSize - 4) \in Strings
          /\ Len(LeBytes(id, 4) \o Zeros(PrefixSize - 4)) = 4 + (PrefixSize - 4)
      BY <2>1, <2>2, CatType
    <2> QED
      BY <1>1, <2>3 DEF ExtranoncePrefix
  <1> HIDE DEF E, Z, prefix
  <1>4. /\ padded \in Strings /\ Len(padded) = Len(ext2) + Len(Z) /\ Len(ext2) \in Nat
        /\ \A i \in 1 .. Len(ext2) + Len(Z) :
              padded[i] = IF i <= Len(ext2) THEN ext2[i] ELSE Z[i - Len(ext2)]
    BY <1>2, CatType, CatAt
  <1> HIDE DEF padded
  <1>5. /\ own \in Strings /\ Len(own) = E /\ \A i \in 1 .. E : own[i] = padded[i]
    <2>1. \A i \in 1 .. E : padded[i] \in Byte
      <3>1. \A i \in 1 .. E : i \in 1 .. Len(padded)
        BY <1>1, <1>2, <1>4
      <3> QED
        BY <1>4, <3>1, ElementOfSeq DEF Strings, Byte
    <2>2. E \in Int /\ 1 \in Int
      BY <1>1
    <2>3. /\ own \in Seq(Byte) /\ Len(own) = (IF 1 <= E THEN E - 1 + 1 ELSE 0)
          /\ \A i \in 1 .. E - 1 + 1 : own[i] = padded[1 + i - 1]
      BY <2>1, <2>2, SubSeqProperties
    <2>4. (IF 1 <= E THEN E - 1 + 1 ELSE 0) = E /\ E - 1 + 1 = E /\ \A i \in 1 .. E : 1 + i - 1 = i
      BY <1>1
    <2> HIDE DEF own
    <2> QED
      BY <2>3, <2>4 DEF Strings, Byte
  <1>6. \A i \in 1 .. E : own[i] = IF i <= Len(ext2) THEN ext2[i] ELSE 0
    <2> SUFFICES ASSUME NEW i \in 1 .. E PROVE own[i] = IF i <= Len(ext2) THEN ext2[i] ELSE 0
      OBVIOUS
    <2>1. own[i] = padded[i] /\ i \in 1 .. Len(ext2) + Len(Z)
      BY <1>1, <1>2, <1>4, <1>5
    <2>2. ~(i <= Len(ext2)) => i - Len(ext2) \in 1 .. E
      BY <1>1, <1>4
    <2> HIDE DEF own
    <2> QED
      BY <1>2, <1>4, <2>1, <2>2
  <1> HIDE DEF own
  <1>7. bytes = own
    <2>1. own = [i \in 1 .. E |-> own[i]]
      BY <1>1, <1>5 DEF Strings
    <2> QED
      BY <1>6, <2>1
  <1>8. Nonce(id, ext2) = prefix \o own
    BY <1>7 DEF Nonce, BuildFullExtranonce, prefix, E
  <1>9. prefix \o own \in Strings /\ Len(prefix \o own) = PrefixSize + E
    BY <1>3, <1>5, CatType
  <1> QED
    BY <1>3, <1>5, <1>8, <1>9 DEF own, padded, Z, E, prefix, SV2_EXTRANONCE_TOTAL

(* What is known of Core's coinbases.                                      *)
LEMMA CoreCoinbase ==
    ASSUME NEW cb \in Coinbases
    PROVE  /\ Fits(cb.version, 4) /\ Fits(cb.sequence, 4) /\ Fits(cb.locktime, 4)
           /\ cb.script \in Strings /\ Fits(Len(cb.script) + SV2_EXTRANONCE_TOTAL, 8)
           /\ cb.outputs \in Seq(CoreOuts) /\ Fits(1 + Len(cb.outputs), 8)
           /\ Fits(Total(cb.outputs), 8)
  <1>1. /\ Fits(cb.version, 4) /\ Fits(cb.sequence, 4) /\ Fits(cb.locktime, 4)
        /\ cb.script \in Strings /\ Fits(Len(cb.script) + SV2_EXTRANONCE_TOTAL, 8)
        /\ cb.outputs \in Seq([value : Nat, script : Strings])
        /\ Fits(1 + Len(cb.outputs), 8) /\ Fits(Total(cb.outputs), 8)
        /\ \A i \in DOMAIN cb.outputs : Fits(Len(cb.outputs[i].script), 8)
    BY CoinbaseAssumption
  <1> DEFINE D == [value : Nat, script : Strings]
             outs == cb.outputs
  <1>2. ASSUME NEW i \in 1 .. Len(outs) PROVE outs[i] \in CoreOuts
    <2>1. outs \in Seq(D)
      BY <1>1
    <2> HIDE DEF D
    <2>2. outs[i] \in D /\ i \in DOMAIN outs
      BY <2>1, ElementOfSeq
    <2>3. Fits(Len(outs[i].script), 8)
      BY <1>1, <2>2
    <2> QED
      BY <2>2, <2>3 DEF CoreOuts, D
  <1>3. outs \in Seq(CoreOuts)
    <2>1. outs \in Seq(D)
      BY <1>1
    <2> HIDE DEF D
    <2>2. Len(outs) \in Nat /\ outs = [i \in 1 .. Len(outs) |-> outs[i]]
      BY <2>1
    <2> HIDE DEF outs
    <2> QED
      BY <1>2, <2>2
  <1> QED
    BY <1>1, <1>3

(* The integers of that coinbase have their widths.                        *)
LEMMA JobTxType ==
    ASSUME NEW cb \in Coinbases, NEW miner_script \in MinerScripts, NEW id \in Nat,
           NEW ext2 \in Strings
    PROVE  /\ IsTx(JobTx(cb, miner_script, id, ext2))
           /\ Paid(cb, miner_script) \in Outs /\ Empty(cb.outputs) \in Seq(Outs)
           /\ Len(<<Paid(cb, miner_script)>> \o Empty(cb.outputs)) = 1 + Len(Empty(cb.outputs))
           /\ Len(cb.script \o Nonce(id, ext2)) = Len(cb.script) + SV2_EXTRANONCE_TOTAL
           /\ Fits(1 + Len(Empty(cb.outputs)), 8)
  <1> DEFINE kept == Empty(cb.outputs)
             paid == Paid(cb, miner_script)
             nonce == Nonce(id, ext2)
             tx == JobTx(cb, miner_script, id, ext2)
             script == cb.script \o nonce
             outs == <<paid>> \o kept
  <1>1. /\ Fits(cb.version, 4) /\ Fits(cb.sequence, 4) /\ Fits(cb.locktime, 4)
        /\ cb.script \in Strings /\ Fits(Len(cb.script) + SV2_EXTRANONCE_TOTAL, 8)
        /\ cb.outputs \in Seq(CoreOuts) /\ Fits(1 + Len(cb.outputs), 8)
        /\ Fits(Total(cb.outputs), 8)
    BY CoreCoinbase
  <1>2. kept \in Seq(Outs) /\ Len(kept) <= Len(cb.outputs) /\ Len(cb.outputs) \in Nat
    BY <1>1, EmptyType
  <1>3. paid \in Outs
    <2>1. miner_script \in Strings /\ Fits(Len(miner_script), 8)
      BY CoinbaseAssumption
    <2>2. Total(cb.outputs) \in Nat
      BY <1>1 DEF Fits
    <2> QED
      BY <1>1, <2>1, <2>2 DEF Paid, Outs
  <1>4. nonce \in Strings /\ Len(nonce) = SV2_EXTRANONCE_TOTAL
    BY NonceIs
  <1> HIDE DEF nonce, paid, kept
  <1>5. script \in Strings /\ Len(script) = Len(cb.script) + SV2_EXTRANONCE_TOTAL
    BY <1>1, <1>4, CatType
  <1>6. outs \in Seq(Outs) /\ Len(outs) = 1 + Len(kept) /\ Len(kept) \in Nat
    <2>1. outs \in Seq(Outs) /\ Len(outs) = Len(kept) + 1
      BY <1>2, <1>3, InFront
    <2>2. Len(kept) \in Nat
      BY <1>2
    <2> HIDE DEF outs
    <2> QED
      BY <2>1, <2>2
  <1>7. Fits(1 + Len(kept), 8)
    <2>1. 1 + Len(kept) \in Nat /\ 1 + Len(kept) <= 1 + Len(cb.outputs)
      BY <1>2, <1>6
    <2> QED
      BY <1>1, <2>1, FitsMore
  <1> HIDE DEF script, outs
  <1>8. /\ tx.version = cb.version /\ tx.sequence = cb.sequence /\ tx.locktime = cb.locktime
        /\ tx.script = script /\ tx.outputs = outs
    BY DEF JobTx, Coinbase, script, outs, nonce, paid, kept
  <1>9. IsTx(tx)
    <2> HIDE DEF tx
    <2>1. Fits(Len(script), 8) /\ Fits(Len(outs), 8)
      BY <1>1, <1>5, <1>6, <1>7
    <2> QED
      BY <1>1, <1>5, <1>6, <1>8, <2>1 DEF IsTx
  <1> QED
    BY <1>2, <1>3, <1>5, <1>6, <1>7, <1>9 DEF tx, script, outs, nonce, paid, kept

(* The parts of a job around an extranonce are that coinbase on the wire.  *)
LEMMA JoinedIsWire ==
    ASSUME NEW cb \in Coinbases, NEW miner_script \in MinerScripts, NEW id \in Nat,
           NEW ext2 \in Strings
    PROVE  LET job == BuildSv2CoinbaseFromTdp(RawTemplate(cb), miner_script)
           IN  job.coinb1 \o Nonce(id, ext2) \o job.coinb2
               = Wire(JobTx(cb, miner_script, id, ext2), Empty(cb.outputs) # <<>>)
  <1> DEFINE kept == Empty(cb.outputs)
             marked == kept # <<>>
             paid == Paid(cb, miner_script)
             tx == JobTx(cb, miner_script, id, ext2)
             temp == RawTemplate(cb)
             a == LeBytes(cb.version, 4) \o Marks(marked) \o <<1>>
             z == Zeros(HashSize)
             l == LeBytes(Max32, 4)
             c == VarInt(ScriptLen(temp))
             p == cb.script
             x == Nonce(id, ext2)
             s == LeBytes(cb.sequence, 4)
             k == VarInt(1 + temp.count)
             y == SerializeOutput(paid)
             r == SerializeOutputs(kept)
             w == IF marked THEN <<1, HashSize>> \o Zeros(HashSize) ELSE <<>>
             t == LeBytes(cb.locktime, 4)
  <1>1. /\ Fits(cb.version, 4) /\ Fits(cb.sequence, 4) /\ Fits(cb.locktime, 4)
        /\ cb.script \in Strings /\ Fits(Len(cb.script) + SV2_EXTRANONCE_TOTAL, 8)
    BY CoreCoinbase
  <1>2. /\ IsTx(tx) /\ paid \in Outs /\ kept \in Seq(Outs)
        /\ Len(<<paid>> \o kept) = 1 + Len(kept)
        /\ Len(cb.script \o x) = Len(cb.script) + SV2_EXTRANONCE_TOTAL
        /\ Fits(1 + Len(kept), 8)
    BY JobTxType
  <1>3. /\ temp.version = cb.version /\ temp.prefix = cb.script /\ temp.sequence = cb.sequence
        /\ temp.value = Total(cb.outputs) /\ temp.count = Len(kept)
        /\ temp.outputs = SerializeOutputs(kept) /\ temp.locktime = cb.locktime
    BY DEF RawTemplate
  <1>4. /\ tx.version = cb.version /\ tx.sequence = cb.sequence /\ tx.locktime = cb.locktime
        /\ tx.script = cb.script \o x /\ tx.outputs = <<paid>> \o kept
    BY DEF JobTx, Coinbase
  <1>5. (temp.count > 0) = marked
    <2>1. Len(kept) \in Nat /\ (Len(kept) = 0 <=> kept = <<>>)
      BY <1>2, EmptySeq
    <2> HIDE DEF kept, temp
    <2> QED
      BY <1>3, <2>1
  <1>6. c = CompactSize(Len(cb.script \o x)) /\ c \in Strings
    <2>1. ScriptLen(temp) = Len(cb.script \o x)
      BY <1>2, <1>3 DEF ScriptLen
    <2>2. Fits(ScriptLen(temp), 8)
      BY <1>1, <1>2, <2>1
    <2> HIDE DEF x, temp
    <2>3. VarInt(ScriptLen(temp)) = CompactSize(ScriptLen(temp))
      BY <2>2, VarIntIsCompact
    <2>4. Reads(CompactSize(ScriptLen(temp)), <<SizeField>>, <<<<ScriptLen(temp)>>>>)
      BY <2>2, ReadsFields
    <2> QED
      BY <2>1, <2>3, <2>4 DEF Reads
  <1>7. k = CompactSize(Len(<<paid>> \o kept)) /\ k \in Strings
    <2> HIDE DEF paid, kept, temp
    <2>1. 1 + temp.count = Len(<<paid>> \o kept) /\ Fits(1 + temp.count, 8)
      BY <1>2, <1>3
    <2>2. VarInt(1 + temp.count) = CompactSize(1 + temp.count)
      BY <2>1, VarIntIsCompact
    <2>3. Reads(CompactSize(1 + temp.count), <<SizeField>>, <<<<1 + temp.count>>>>)
      BY <2>1, ReadsFields
    <2> QED
      BY <2>1, <2>2, <2>3 DEF Reads
  <1>8. y \o r = SerializeOutputs(<<paid>> \o kept) /\ y \in Strings /\ r \in Strings
    <2>1. y \o r = SerializeOutputs(<<paid>> \o kept)
      BY <1>2, OutputInFront
    <2>2. r \in Strings
      BY <1>2, OutputsRead DEF Reads
    <2>3. paid.value \in Nat /\ paid.script \in Strings /\ Fits(Len(paid.script), 8)
      BY <1>2 DEF Outs
    <2>4. LeBytes(paid.value, 8) \in Strings
      BY <2>3, LeBytesType
    <2>5. Reads(SerializeScript(paid.script), <<ScriptField>>, <<paid.script>>)
      BY <2>3, ReadsFields
    <2>6. y \in Strings
      BY <2>4, <2>5, CatType DEF SerializeOutput, Reads
    <2> QED
      BY <2>1, <2>2, <2>6
  <1>9. /\ w = Count(marked) \o (IF marked THEN SerializeScript(Zeros(HashSize)) ELSE <<>>)
        /\ w \in Strings
    <2>1. marked \in BOOLEAN
      OBVIOUS
    <2> HIDE DEF marked
    <2> QED
      BY <2>1, WitnessBytes
  <1>10. a \in Strings
    <2>1. Marks(marked) \in Strings /\ <<1>> \in Strings
      BY FixedParts
    <2>2. LeBytes(cb.version, 4) \in Strings
      <3>1. cb.version \in Nat
        BY <1>1 DEF Fits
      <3> QED
        BY <3>1, LeBytesType
    <2>3. LeBytes(cb.version, 4) \o Marks(marked) \in Strings
      BY <2>1, <2>2, CatType
    <2> QED
      BY <2>1, <2>3, CatType
  <1>11. z \in Strings /\ l \in Strings /\ s \in Strings /\ t \in Strings
    <2>1. HashSize \in Nat /\ Max32 \in Nat /\ 4 \in Nat
      BY Sizes DEF Max32
    <2>2. cb.sequence \in Nat /\ cb.locktime \in Nat
      BY <1>1 DEF Fits
    <2> QED
      BY <2>1, <2>2, ZerosType, LeBytesType
  <1>12. p \in Strings /\ x \in Strings
    BY <1>1, NonceIs
  <1> DEFINE job == BuildSv2CoinbaseFromTdp(temp, miner_script)
  <1>13. job.coinb1 = a \o z \o l \o c \o p
    <2>1. job.coinb1 = LeBytes(temp.version, 4) \o (IF temp.count > 0 THEN <<0, 1>> ELSE <<>>)
                    \o <<1>> \o Zeros(HashSize) \o LeBytes(Max32, 4)
                    \o VarInt(ScriptLen(temp)) \o temp.prefix
      BY DEF BuildSv2CoinbaseFromTdp
    <2> HIDE DEF temp, job, marked
    <2> QED
      BY <1>3, <1>5, <2>1, Zenon DEF Marks
  <1>14. job.coinb2 = s \o k \o y \o r \o w \o t
    <2>1. job.coinb2 = LeBytes(temp.sequence, 4) \o VarInt(1 + temp.count)
                    \o SerializeOutput([value |-> temp.value, script |-> miner_script]) \o temp.outputs
                    \o (IF temp.count > 0 THEN <<1, HashSize>> \o Zeros(HashSize) ELSE <<>>)
                    \o LeBytes(temp.locktime, 4)
      BY DEF BuildSv2CoinbaseFromTdp
    <2>2. [value |-> temp.value, script |-> miner_script] = paid
      BY <1>3 DEF Paid
    <2> HIDE DEF temp, job, paid, marked, kept
    <2> QED
      BY <1>3, <1>5, <2>1, <2>2, Zenon
  <1> HIDE DEF a, z, l, c, p, x, s, k, y, r, w, t, tx, job, marked, kept, paid
  <1>15. Regroups(a, z, l, c, p, x, s, k, y, r, w, t)
    BY <1>6, <1>7, <1>8, <1>9, <1>10, <1>11, <1>12, Regrouped
  <1>16. HeadBytes(tx, marked) = a \o (z \o l) \o (c \o (p \o x)) \o s \o k
    BY <1>4, <1>6, <1>7, Zenon DEF HeadBytes, SerializeScript, Outpoint, a, z, l, p, s
  <1>17. SerializeOutputs(tx.outputs) \o TailBytes(tx, marked) = (y \o r) \o (w \o t)
    BY <1>4, <1>8, <1>9, Zenon DEF TailBytes, t
  <1>18. job.coinb1 \o x \o job.coinb2 = Wire(tx, marked)
    BY <1>13, <1>14, <1>15, <1>16, <1>17, Zenon DEF Regroups, Wire
  <1> QED
    BY <1>18, Zenon DEF job, x, tx, marked, kept

(* A share's coinbase is read back as it was meant.                        *)
LEMMA ShareReads ==
    ASSUME NEW cb \in Coinbases, NEW miner_script \in MinerScripts, NEW id \in Nat,
           NEW ext2 \in Strings
    PROVE  LET job == BuildSv2CoinbaseFromTdp(RawTemplate(cb), miner_script)
           IN  Deserialize(job.coinb1 \o Nonce(id, ext2) \o job.coinb2)
               = [ok |-> TRUE, tx |-> JobTx(cb, miner_script, id, ext2)]
  <1> DEFINE tx == JobTx(cb, miner_script, id, ext2)
             marked == Empty(cb.outputs) # <<>>
             back == Coinbase(tx.version, tx.script, tx.sequence, tx.outputs, Witness(marked),
                              tx.locktime)
  <1>1. Deserialize(Wire(tx, marked)) = [ok |-> TRUE, tx |-> back]
    <2>1. IsTx(tx) /\ marked \in BOOLEAN
      BY JobTxType
    <2> HIDE DEF tx, marked
    <2> QED
      BY <2>1, ReadsBack
  <1>2. back = tx
    <2>1. Witness(marked) = IF Empty(cb.outputs) = <<>> THEN <<>> ELSE Zeros(HashSize)
      BY DEF Witness
    <2>2. /\ tx.version = cb.version /\ tx.sequence = cb.sequence /\ tx.locktime = cb.locktime
          /\ tx.script = cb.script \o Nonce(id, ext2)
          /\ tx.outputs = <<Paid(cb, miner_script)>> \o Empty(cb.outputs)
      BY DEF JobTx, Coinbase
    <2> HIDE DEF tx
    <2> QED
      BY <2>1, <2>2, Zenon DEF JobTx, tx
  <1> HIDE DEF back
  <1> QED
    BY <1>1, <1>2, JoinedIsWire, Zenon

(* What the transaction id is the hash of is a string.                     *)
LEMMA BaseType == ASSUME NEW tx, IsTx(tx) PROVE SerializeBase(tx) \in Strings
  <1> DEFINE ver == LeBytes(tx.version, 4)
             z == Zeros(HashSize)
             l == LeBytes(Max32, 4)
             ss == SerializeScript(tx.script)
             seq == LeBytes(tx.sequence, 4)
             cs == CompactSize(Len(tx.outputs))
             so == SerializeOutputs(tx.outputs)
             lt == LeBytes(tx.locktime, 4)
  <1>1. ver \in Strings /\ seq \in Strings /\ lt \in Strings
    <2>1. tx.version \in Nat /\ tx.sequence \in Nat /\ tx.locktime \in Nat
      BY DEF IsTx, Fits
    <2> QED
      BY <2>1, LeBytesType
  <1>2. z \in Strings /\ l \in Strings
    <2>1. HashSize \in Nat /\ Max32 \in Nat
      BY Sizes DEF Max32
    <2> QED
      BY <2>1, ZerosType, LeBytesType
  <1>3. ss \in Strings /\ cs \in Strings
    <2>1. Reads(ss, <<ScriptField>>, <<tx.script>>)
      BY ReadsFields DEF IsTx
    <2>2. Reads(cs, <<SizeField>>, <<<<Len(tx.outputs)>>>>)
      BY ReadsFields DEF IsTx
    <2> QED
      BY <2>1, <2>2 DEF Reads
  <1>4. so \in Strings
    BY WireType
  <1>5. <<1>> \in Strings
    BY FixedParts
  <1> HIDE DEF ver, z, l, ss, seq, cs, so, lt
  <1>6. ver \o <<1>> \in Strings
    BY <1>1, <1>5, CatType
  <1>7. ver \o <<1>> \o z \in Strings
    BY <1>2, <1>6, CatType
  <1>8. ver \o <<1>> \o z \o l \in Strings
    BY <1>2, <1>7, CatType
  <1>9. ver \o <<1>> \o z \o l \o ss \in Strings
    BY <1>3, <1>8, CatType
  <1>10. ver \o <<1>> \o z \o l \o ss \o seq \in Strings
    BY <1>1, <1>9, CatType
  <1>11. ver \o <<1>> \o z \o l \o ss \o seq \o cs \in Strings
    BY <1>3, <1>10, CatType
  <1>12. ver \o <<1>> \o z \o l \o ss \o seq \o cs \o so \in Strings
    BY <1>4, <1>11, CatType
  <1>13. ver \o <<1>> \o z \o l \o ss \o seq \o cs \o so \o lt \in Strings
    BY <1>1, <1>12, CatType
  <1> QED
    BY <1>13, Zenon DEF SerializeBase, ver, z, l, ss, seq, cs, so, lt

-----------------------------------------------------------------------------
(* ---- The job and the share on it ---- *)

Job == [cb : Coinbases, miner_script : MinerScripts, txids : TxLists, id : ChannelIds,
        ext2 : Strings]

(* A job is what was built from what it was built from; a share's coinbase *)
(* was read back as it was meant.                                          *)
JobInv ==
    /\ phase \in {"job", "checked"} =>
          /\ from \in Job
          /\ parts = BuildSv2CoinbaseFromTdp(RawTemplate(from.cb), from.miner_script)
          /\ merkle_path = BuildMerkleBranch(from.txids)
    /\ phase = "checked" =>
          /\ parsed = [ok |-> TRUE,
                       tx |-> JobTx(from.cb, from.miner_script, from.id, from.ext2)]
          /\ merkle_root = Climb(SerializeBase(parsed.tx), merkle_path)

(* It is inductive.                                                        *)
LEMMA JobInductive == JobSpec => []JobInv
  <1>1. JobInit => JobInv
    BY DEF JobInit, JobInv
  <1>2. JobInv /\ [JobNext]_jobVars => JobInv'
    <2> SUFFICES ASSUME JobInv, [JobNext]_jobVars PROVE JobInv'
      OBVIOUS
    <2>1. CASE UNCHANGED jobVars
      BY <2>1 DEF JobInv, jobVars
    <2>2. ASSUME NEW cb \in Coinbases, NEW s \in MinerScripts, NEW txids \in TxLists,
                 NEW id \in ChannelIds, BuildJob(cb, s, txids, id)
          PROVE  JobInv'
      <3>1. /\ phase' = "job"
            /\ from' = [cb |-> cb, miner_script |-> s, txids |-> txids, id |-> id, ext2 |-> <<>>]
            /\ parts' = BuildSv2CoinbaseFromTdp(RawTemplate(cb), s)
            /\ merkle_path' = BuildMerkleBranch(txids)
        BY <2>2 DEF BuildJob
      <3>2. <<>> \in Strings
        BY DEF Strings
      <3>3. /\ from' \in Job
            /\ from'.cb = cb /\ from'.miner_script = s /\ from'.txids = txids
        BY <3>1, <3>2 DEF Job
      <3> QED
        BY <3>1, <3>3 DEF JobInv
    <2>3. ASSUME NEW ext2 \in Extranonces2, SubmitShare(ext2) PROVE JobInv'
      <3> DEFINE nonce == BuildFullExtranonce(ExtranoncePrefix(from.id), ext2)
                 read == Deserialize(parts.coinb1 \o nonce \o parts.coinb2)
      <3>1. /\ phase = "job" /\ phase' = "checked" /\ from' = [from EXCEPT !.ext2 = ext2]
            /\ parsed' = read
            /\ merkle_root' = IF read.ok THEN Climb(SerializeBase(read.tx), merkle_path) ELSE <<>>
            /\ parts' = parts /\ merkle_path' = merkle_path
        BY <2>3 DEF SubmitShare
      <3>2. /\ from \in Job
            /\ parts = BuildSv2CoinbaseFromTdp(RawTemplate(from.cb), from.miner_script)
            /\ merkle_path = BuildMerkleBranch(from.txids)
        BY <3>1 DEF JobInv
      <3>3. /\ from.cb \in Coinbases /\ from.miner_script \in MinerScripts
            /\ from.id \in Nat /\ ext2 \in Strings
        BY <3>2, CoinbaseAssumption DEF Job
      <3>4. /\ from' \in Job
            /\ from'.cb = from.cb /\ from'.miner_script = from.miner_script
            /\ from'.txids = from.txids /\ from'.id = from.id /\ from'.ext2 = ext2
        BY <3>1, <3>2, <3>3 DEF Job
      <3> DEFINE tx == JobTx(from.cb, from.miner_script, from.id, ext2)
      <3>5. read = [ok |-> TRUE, tx |-> tx]
        BY <3>2, <3>3, ShareReads, Zenon DEF Nonce
      <3> HIDE DEF read, tx
      <3>6. read.ok = TRUE /\ read.tx = tx
        BY <3>5
      <3>7. parsed' = [ok |-> TRUE, tx |-> tx] /\ parsed'.tx = tx
        BY <3>1, <3>5, <3>6
      <3>8. merkle_root' = Climb(SerializeBase(parsed'.tx), merkle_path')
        BY <3>1, <3>6, <3>7, Zenon
      <3>9. parts' = BuildSv2CoinbaseFromTdp(RawTemplate(from'.cb), from'.miner_script)
        BY <3>1, <3>2, <3>4, Zenon
      <3>10. merkle_path' = BuildMerkleBranch(from'.txids)
        BY <3>1, <3>2, <3>4, Zenon
      <3>11. parsed' = [ok |-> TRUE,
                        tx |-> JobTx(from'.cb, from'.miner_script, from'.id, from'.ext2)]
        BY <3>4, <3>7, Zenon DEF tx
      <3> QED
        BY <3>4, <3>8, <3>9, <3>10, <3>11, Zenon DEF JobInv
    <2>4. ASSUME NEW push \in HeightPushes, NEW s \in MinerScripts, NEW c \in Commitments,
                 NEW n \in Nonces, CutCoinbase(push, s, c, n)
          PROVE  JobInv'
      <3>1. phase' = "cut"
        BY <2>4 DEF CutCoinbase
      <3> QED
        BY <3>1 DEF JobInv
    <2> QED
      BY <2>1, <2>2, <2>3, <2>4 DEF JobNext
  <1> QED
    BY <1>1, <1>2, PTL DEF JobSpec

(* CoinbasePays, for every size of a byte and of a hash, every coinbase,   *)
(* address, channel and miner's extranonce: what the handler reads back is *)
(* a transaction that pays the miner all that Core's coinbase paid.        *)
THEOREM CoinbasePaysAlways == JobSpec => []CoinbasePays
  <1>1. JobInv => CoinbasePays
    <2> SUFFICES ASSUME JobInv, phase = "checked" PROVE CoinbasePays
      BY DEF CoinbasePays
    <2> DEFINE cb == from.cb
               kept == Empty(cb.outputs)
               own == SubSeq(from.ext2 \o Zeros(Extranonce2Size), 1, Extranonce2Size)
               prefix == ExtranoncePrefix(from.id)
               paid == Paid(cb, from.miner_script)
    <2>1. /\ from \in Job
          /\ parsed = [ok |-> TRUE,
                       tx |-> JobTx(from.cb, from.miner_script, from.id, from.ext2)]
      BY DEF JobInv
    <2>2. cb \in Coinbases /\ from.id \in Nat /\ from.ext2 \in Strings
      BY <2>1, CoinbaseAssumption DEF Job
    <2>3. cb.script \in Strings
      BY <2>2, CoreCoinbase
    <2>4. /\ prefix \in Strings /\ own \in Strings /\ Nonce(from.id, from.ext2) = prefix \o own
      BY <2>2, NonceIs
    <2>5. cb.script \o prefix \o own = cb.script \o Nonce(from.id, from.ext2)
      <3> HIDE DEF prefix, own, cb
      <3>1. cb.script \o prefix \o own = cb.script \o (prefix \o own)
        BY <2>3, <2>4, Assoc
      <3> QED
        BY <2>4, <3>1, Zenon
    <2>6. /\ parsed.ok
          /\ parsed.tx = Coinbase(cb.version, cb.script \o Nonce(from.id, from.ext2), cb.sequence,
                                  <<paid>> \o kept, IF kept = <<>> THEN <<>> ELSE Zeros(HashSize),
                                  cb.locktime)
      BY <2>1 DEF JobTx
    <2>7. /\ parsed.ok
          /\ parsed.tx = Coinbase(cb.version, cb.script \o prefix \o own, cb.sequence,
                                  <<paid>> \o kept, IF kept = <<>> THEN <<>> ELSE Zeros(HashSize),
                                  cb.locktime)
      BY <2>5, <2>6, Zenon
    <2> QED
      BY <2>7, Zenon DEF CoinbasePays, Empty, Total, Paid
  <1> QED
    BY <1>1, JobInductive, PTL

(* RootMatches, for every block and every coinbase: the root that a share  *)
(* is checked with is the one the consensus rule gives.                    *)
THEOREM RootMatchesAlways == JobSpec => []RootMatches
  <1>1. JobInv => RootMatches
    <2> SUFFICES ASSUME JobInv, phase = "checked" PROVE RootMatches
      BY DEF RootMatches
    <2> DEFINE tx == JobTx(from.cb, from.miner_script, from.id, from.ext2)
               h == SerializeBase(tx)
    <2>1. /\ from \in Job /\ merkle_path = BuildMerkleBranch(from.txids)
          /\ parsed = [ok |-> TRUE, tx |-> tx]
          /\ merkle_root = Climb(SerializeBase(parsed.tx), merkle_path)
      BY DEF JobInv
    <2>2. /\ from.cb \in Coinbases /\ from.miner_script \in MinerScripts
          /\ from.id \in Nat /\ from.ext2 \in Strings
      BY <2>1, CoinbaseAssumption DEF Job
    <2>3. h \in Hash
      <3>1. h \in Strings
        BY <2>2, JobTxType, BaseType
      <3>2. Seq(Nat) \subseteq Seq(Int)
        OBVIOUS
      <3> QED
        BY <3>1, <3>2, StringsAre DEF Hash
    <2>4. from.txids \in Seq(Hash)
      <3>1. from.txids \in Seq(Seq(Nat))
        BY <2>1, CoinbaseAssumption DEF Job
      <3>2. Seq(Nat) \subseteq Seq(Int)
        OBVIOUS
      <3> DEFINE S == Seq(Nat)
                 T == Seq(Int)
      <3>3. S \subseteq T /\ from.txids \in Seq(S)
        BY <3>1, <3>2
      <3> HIDE DEF S, T
      <3>4. from.txids \in Seq(T)
        BY <3>3
      <3> QED
        BY <3>4 DEF T, Hash
    <2>5. parsed.tx = tx
      <3> HIDE DEF tx
      <3> QED
        BY <2>1
    <2>6. Climb(h, BuildMerkleBranch(from.txids)) = MerkleRoot(<<h>> \o Bottom(from.txids))
      <3> HIDE DEF h
      <3> QED
        BY <2>3, <2>4, BranchLeadsToRoot
    <2> HIDE DEF tx
    <2>7. merkle_root = MerkleRoot(<<SerializeBase(parsed.tx)>> \o Bottom(from.txids))
      BY <2>1, <2>5, <2>6, Zenon
    <2> QED
      BY <2>7, Zenon DEF RootMatches, Bottom
  <1> QED
    BY <1>1, JobInductive, PTL

-----------------------------------------------------------------------------
(* ---- A coinbase cut at its placeholder ---- *)

(* No byte of s is a byte of p.                                            *)
Avoids(s, p) == \A k \in 1 .. Len(s), i \in 1 .. Len(p) : s[k] # p[i]

(* Neither has a byte of p, nor do both in a row.                          *)
LEMMA AvoidsBoth ==
    ASSUME NEW x \in Strings, NEW y \in Strings, NEW p \in Strings, Avoids(x, p), Avoids(y, p)
    PROVE  Avoids(x \o y, p)
  <1> SUFFICES ASSUME NEW k \in 1 .. Len(x \o y), NEW i \in 1 .. Len(p)
               PROVE  (x \o y)[k] # p[i]
    BY DEF Avoids
  <1>1. Len(x \o y) = Len(x) + Len(y) /\ Len(x) \in Nat /\ Len(y) \in Nat
    BY CatType
  <1>2. (x \o y)[k] = IF k <= Len(x) THEN x[k] ELSE y[k - Len(x)]
    <2>1. k \in 1 .. Len(x) + Len(y)
      BY <1>1
    <2> QED
      BY <2>1, CatAt
  <1>3. (k <= Len(x) /\ k \in 1 .. Len(x)) \/ (~(k <= Len(x)) /\ k - Len(x) \in 1 .. Len(y))
    BY <1>1
  <1> QED
    BY <1>2, <1>3 DEF Avoids

(* Where the bytes of a string are that z follows and x precedes.          *)
Followed(x, y, z) ==
    /\ \A i \in 1 .. Len(x) : (x \o y \o z)[i] = x[i]
    /\ \A i \in 1 .. Len(y) : (x \o y \o z)[Len(x) + i] = y[i]

(* They are where its first byte is, and after it.                         *)
LEMMA MiddleAt ==
    ASSUME NEW x \in Strings, NEW y \in Strings, NEW z \in Strings
    PROVE  Followed(x, y, z)
  <1> DEFINE xy == x \o y
  <1>1. xy \in Strings /\ Len(xy) = Len(x) + Len(y) /\ Len(x) \in Nat /\ Len(y) \in Nat
    BY CatType
  <1>2. \A i \in 1 .. Len(x) + Len(y) : xy[i] = IF i <= Len(x) THEN x[i] ELSE y[i - Len(x)]
    BY CatAt
  <1> HIDE DEF xy
  <1>3. xy \o z \in Strings /\ Len(xy \o z) = Len(xy) + Len(z) /\ Len(z) \in Nat
    BY <1>1, CatType
  <1>4. \A i \in 1 .. Len(xy) + Len(z) : (xy \o z)[i] = IF i <= Len(xy) THEN xy[i] ELSE z[i - Len(xy)]
    BY <1>1, CatAt
  <1>5. ASSUME NEW i \in 1 .. Len(x) PROVE (xy \o z)[i] = x[i]
    <2>1. i \in 1 .. Len(xy) + Len(z) /\ i <= Len(xy) /\ i \in 1 .. Len(x) + Len(y) /\ i <= Len(x)
      BY <1>1, <1>3
    <2> QED
      BY <1>2, <1>4, <2>1, Zenon
  <1>6. ASSUME NEW i \in 1 .. Len(y) PROVE (xy \o z)[Len(x) + i] = y[i]
    <2> DEFINE j == Len(x) + i
    <2>1. /\ j \in 1 .. Len(xy) + Len(z) /\ j <= Len(xy) /\ j \in 1 .. Len(x) + Len(y)
          /\ ~(j <= Len(x)) /\ j - Len(x) = i
      BY <1>1, <1>3
    <2> HIDE DEF j
    <2>2. (xy \o z)[j] = y[i]
      BY <1>2, <1>4, <2>1, Zenon
    <2> QED
      BY <2>2 DEF j
  <1> QED
    BY <1>5, <1>6 DEF xy, Followed

(* The placeholder's bytes from a place on that is before its own.         *)
EarlyMatch(head, push, tail, rest, p, i) ==
    /\ i \in Nat /\ i < Len(head) + Len(push) + Len(tail)
    /\ \A j \in 1 .. Len(p) : (head \o push \o tail \o rest)[i + j] = p[j]

(* The placeholder does not begin earlier than where it was put, although  *)
(* the push may hold any bytes: it is too short for all of the placeholder *)
(* and is followed by a byte that the placeholder does not have.           *)
LEMMA NoEarlierMatch ==
    ASSUME NEW head \in Strings, NEW push \in Strings, NEW tail \in Strings,
           NEW p \in Strings, NEW rest \in Strings,
           Avoids(head, p), Avoids(tail, p), Len(push) < Len(p), tail # <<>>, NEW i
    PROVE  ~EarlyMatch(head, push, tail, rest, p, i)
  <1> SUFFICES ASSUME i \in Nat, i < Len(head) + Len(push) + Len(tail),
                      \A j \in 1 .. Len(p) : (head \o push \o tail \o rest)[i + j] = p[j]
               PROVE  FALSE
    BY DEF EarlyMatch
  <1> DEFINE hp == head \o push
             tr == tail \o rest
             raw == hp \o tail \o rest
             a == Len(head)
             b == Len(push)
             c == Len(tail)
             n == Len(p)
  <1>1. a \in Nat /\ b \in Nat /\ n \in Nat /\ Len(hp) = a + b /\ hp \in Strings
    BY CatType
  <1>2. c \in Nat \ {0}
    BY EmptySeq DEF Strings
  <1>3. \A k \in 1 .. a : hp[k] = head[k]
    <2>1. \A k \in 1 .. a + b : hp[k] = IF k <= a THEN head[k] ELSE push[k - a]
      BY CatAt
    <2> HIDE DEF hp, a, b
    <2> QED
      BY <1>1, <2>1
  <1> HIDE DEF hp
  <1>4. /\ \A k \in 1 .. Len(hp) : raw[k] = hp[k]
        /\ \A k \in 1 .. c : raw[Len(hp) + k] = tail[k]
    <2>1. Followed(hp, tail, rest)
      BY <1>1, MiddleAt
    <2> QED
      BY <2>1, Zenon DEF Followed
  <1>5. \A j \in 1 .. n : raw[i + j] = p[j]
    BY DEF hp
  <1> HIDE DEF raw
  <1>6. CASE i < a
    <2>1. i + 1 \in 1 .. a /\ i + 1 \in 1 .. Len(hp) /\ 1 \in 1 .. n
      BY <1>1, <1>6
    <2>2. p[1] = head[i + 1]
      BY <1>3, <1>4, <1>5, <2>1
    <2> QED
      BY <2>1, <2>2 DEF Avoids
  <1>7. CASE i >= a /\ i < a + b
    <2> DEFINE j == (a + b + 1) - i
    <2>1. j \in 1 .. n /\ i + j = Len(hp) + 1 /\ 1 \in 1 .. c
      BY <1>1, <1>2, <1>7
    <2>2. p[j] = tail[1]
      BY <1>4, <1>5, <2>1, ZenonT(60)
    <2> QED
      BY <2>1, <2>2 DEF Avoids
  <1>8. CASE i >= a + b
    <2> DEFINE k == (i + 1) - (a + b)
    <2>1. k \in 1 .. c /\ i + 1 = Len(hp) + k /\ 1 \in 1 .. n
      BY <1>1, <1>2, <1>8
    <2>2. p[1] = tail[k]
      BY <1>4, <1>5, <2>1
    <2> QED
      BY <2>1, <2>2 DEF Avoids
  <1> QED
    BY <1>1, <1>6, <1>7, <1>8

(* The coinbase without the placeholder.                                   *)
CutAround(head, push, tail, p, post) ==
    SplitAtExtranonce(head \o push \o tail \o p \o post, p)
    = [coinb1 |-> head \o push \o tail, coinb2 |-> post]

(* The coinbase is cut where the placeholder was put.                      *)
LEMMA SplitFinds ==
    ASSUME NEW head \in Strings, NEW push \in Strings, NEW tail \in Strings,
           NEW p \in Strings, NEW post \in Strings,
           Avoids(head, p), Avoids(tail, p), Len(push) < Len(p), tail # <<>>
    PROVE  CutAround(head, push, tail, p, post)
  <1> DEFINE hp == head \o push
             pre == hp \o tail
             rest == p \o post
             raw == pre \o p \o post
             n == Len(p)
             at == Len(pre)
             M == Matches(raw, p)
  <1>1. /\ hp \in Strings /\ Len(hp) = Len(head) + Len(push) /\ Len(head) \in Nat
        /\ Len(push) \in Nat
    BY CatType
  <1> HIDE DEF hp
  <1>2. pre \in Strings /\ at = Len(hp) + Len(tail) /\ Len(tail) \in Nat
    BY <1>1, CatType
  <1>3. at = Len(head) + Len(push) + Len(tail) /\ at \in Nat
    BY <1>1, <1>2
  <1> HIDE DEF pre
  <1>4. rest \in Strings /\ n \in Nat /\ Len(post) \in Nat /\ Len(rest) = n + Len(post)
    BY CatType
  <1>5. raw = pre \o rest
    <2>1. Associates(pre, p, post)
      BY <1>2, AssocNamed
    <2> QED
      BY <2>1, Zenon DEF Associates
  <1>6. /\ SubSeq(raw, at + 1, at + n) = p
        /\ SubSeq(raw, at + n + 1, Len(raw)) = post
    <2>1. CutApart(pre, p, post)
      BY <1>2, CutNamed
    <2> QED
      BY <2>1, Zenon DEF CutApart
  <1> HIDE DEF rest, raw
  <1>7. raw \in Strings /\ Len(raw) = at + Len(rest)
    BY <1>2, <1>4, <1>5, CatType
  <1>8. SubSeq(raw, 1, at) = pre
    <2>1. SubSeq(pre \o rest, 1, Len(pre)) = pre
      BY <1>2, <1>4, CutTwo
    <2> QED
      BY <1>5, <2>1, Zenon
  <1>9. M = {i \in 0 .. Len(raw) - n : SubSeq(raw, i + 1, i + n) = p}
    BY DEF Matches
  <1> HIDE DEF M
  <1>10. at \in M /\ M \in SUBSET Nat
    <2>1. at \in 0 .. Len(raw) - n /\ 0 .. Len(raw) - n \subseteq Nat
      BY <1>3, <1>4, <1>7
    <2> QED
      BY <1>6, <1>9, <2>1, Zenon
  <1>11. ASSUME NEW i \in M, i < at PROVE FALSE
    <2>1. i \in Nat /\ i \in 0 .. Len(raw) - n /\ SubSeq(raw, i + 1, i + n) = p
      BY <1>9, <1>10
    <2>2. ASSUME NEW j \in 1 .. n PROVE raw[i + j] = p[j]
      <3>1. i + 1 \in Int /\ i + n \in Int /\ \A k \in i + 1 .. i + n : k \in 1 .. Len(raw)
        BY <1>3, <1>4, <1>7, <2>1
      <3>2. \A k \in i + 1 .. i + n : raw[k] \in Byte
        BY <1>7, <3>1, ElementOfSeq DEF Strings, Byte
      <3>3. \A k \in 1 .. (i + n) - (i + 1) + 1 : SubSeq(raw, i + 1, i + n)[k] = raw[(i + 1) + k - 1]
        BY <3>1, <3>2, SubSeqProperties
      <3>4. j \in 1 .. (i + n) - (i + 1) + 1 /\ (i + 1) + j - 1 = i + j
        BY <1>4, <2>1
      <3> QED
        BY <2>1, <3>3, <3>4
    <2>3. \A j \in 1 .. Len(p) : (head \o push \o tail \o rest)[i + j] = p[j]
      BY <1>5, <2>2 DEF pre, hp
    <2>4. i < Len(head) + Len(push) + Len(tail)
      BY <1>3, <1>11
    <2>5. EarlyMatch(head, push, tail, rest, p, i)
      BY <2>1, <2>3, <2>4 DEF EarlyMatch
    <2>6. ~EarlyMatch(head, push, tail, rest, p, i)
      BY <1>4, NoEarlierMatch
    <2> QED
      BY <2>5, <2>6
  <1>12. Min(M) = at
    <2>1. FirstIndex(M) \in M /\ \A y \in M : FirstIndex(M) <= y
      BY <1>10, FirstChooses
    <2>2. FirstIndex(M) \in Nat /\ FirstIndex(M) <= at /\ ~(FirstIndex(M) < at)
      BY <1>10, <1>11, <2>1
    <2> QED
      BY <1>3, <2>2 DEF FirstIndex
  <1>13. SplitAtExtranonce(raw, p) = [coinb1 |-> SubSeq(raw, 1, at),
                                      coinb2 |-> SubSeq(raw, at + n + 1, Len(raw))]
    BY <1>12, Zenon DEF SplitAtExtranonce, M
  <1> QED
    BY <1>6, <1>8, <1>13, Zenon DEF CutAround, raw, pre, hp

(* The numbers that a coinbase of the pool's own begins with.              *)
LEMMA HeadNumbers ==
    /\ \A i \in 1 .. 4 : LeBytes(1, 4)[i] \in {0, 1}
    /\ \A i \in 1 .. 4 : LeBytes(Max32, 4)[i] = TxBase - 1
    /\ Fits(1, 4) /\ Fits(0, 4) /\ Fits(Max32, 4) /\ Fits(70, 8)
  <1> DEFINE B == TxBase
             B2 == B * B
             B3 == B2 * B
             B4 == B3 * B
  <1>1. B \in Nat /\ B >= 5 /\ B2 \in Nat
    BY Sizes
  <1>2. B2 >= 25
    BY <1>1, Z3
  <1> HIDE DEF B2
  <1>3. B3 \in Nat /\ B3 >= 125
    BY <1>1, <1>2, Z3
  <1> HIDE DEF B3
  <1>4. B4 \in Nat /\ B4 >= 625
    BY <1>1, <1>3, Z3
  <1>5. Max32 = B4 - 1
    BY DEF Max32, B2, B3
  <1> HIDE DEF B4
  <1>6. Max32 \in Nat /\ Max32 >= 70
    BY <1>4, <1>5
  <1>7. Fits(1, 4) /\ Fits(0, 4) /\ Fits(Max32, 4) /\ Fits(70, 8)
    <2>1. 0 <= Max32 /\ 1 <= Max32 /\ Max32 <= Max32 /\ 70 <= Max32
      BY <1>6
    <2>2. Fits(70, 4) /\ Fits(0, 4) /\ Fits(1, 4)
      BY <2>1, FitsWide
    <2> QED
      BY <1>6, <2>1, <2>2, FitsWide
  <1>8. ASSUME NEW m \in Nat PROVE (m * B + (B - 1)) \div B = m /\ (m * B + (B - 1)) % B = B - 1
    <2> DEFINE x == m * B + (B - 1)
    <2>1. x \in Nat
      BY <1>1
    <2>2. x \div B \in Nat /\ x % B \in 0 .. B - 1 /\ (x \div B) * B + (x % B) = x
      BY <2>1, DivMod DEF Byte
    <2> DEFINE q == x \div B
               r == x % B
    <2> HIDE DEF q, r
    <2>3. q \in Nat /\ r \in 0 .. B - 1 /\ q * B + r = m * B + (B - 1)
      BY <2>2 DEF q, r
    <2>4. q = m
      <3>1. CASE q < m
        <4>1. (q + 1) * B <= m * B
          BY <1>1, <2>3, <3>1, Z3
        <4> QED
          BY <1>1, <2>3, <4>1, Z3
      <3>2. CASE q > m
        <4>1. (m + 1) * B <= q * B
          BY <1>1, <2>3, <3>2, Z3
        <4> QED
          BY <1>1, <2>3, <4>1, Z3
      <3> QED
        BY <2>3, <3>1, <3>2
    <2>5. r = B - 1
      BY <1>1, <2>3, <2>4
    <2> QED
      BY <2>4, <2>5 DEF q, r
  <1>9. \A n : /\ Shift(n, 0) = n /\ Shift(n, 1) = Shift(n, 0) \div B
               /\ Shift(n, 2) = Shift(n, 1) \div B /\ Shift(n, 3) = Shift(n, 2) \div B
    <2> SUFFICES ASSUME NEW n
                 PROVE  /\ Shift(n, 0) = n /\ Shift(n, 1) = Shift(n, 0) \div B
                        /\ Shift(n, 2) = Shift(n, 1) \div B /\ Shift(n, 3) = Shift(n, 2) \div B
      OBVIOUS
    <2>1. Shift(n, 0) = n /\ \A k \in Nat : Shift(n, k + 1) = Shift(n, k) \div B
      BY ShiftStep
    <2>2. 0 \in Nat /\ 1 \in Nat /\ 2 \in Nat /\ 0 + 1 = 1 /\ 1 + 1 = 2 /\ 2 + 1 = 3
      OBVIOUS
    <2> QED
      BY <2>1, <2>2
  <1>10. \A i \in 1 .. 4 : i - 1 = 0 \/ i - 1 = 1 \/ i - 1 = 2 \/ i - 1 = 3
    OBVIOUS
  <1>11. \A i \in 1 .. 4 : LeBytes(1, 4)[i] \in {0, 1}
    <2>1. 1 \div B = 0 /\ 0 \div B = 0 /\ 1 % B = 1 /\ 0 % B = 0
      BY <1>1
    <2>2. Shift(1, 0) = 1 /\ Shift(1, 1) = 0 /\ Shift(1, 2) = 0 /\ Shift(1, 3) = 0
      BY <1>9, <2>1
    <2>3. \A i \in 1 .. 4 : LeBytes(1, 4)[i] = Shift(1, i - 1) % B
      BY LeBytesType
    <2>4. \A i \in 1 .. 4 : Shift(1, i - 1) % B \in {0, 1}
      BY <1>10, <2>1, <2>2
    <2> QED
      BY <2>3, <2>4
  <1>12. \A i \in 1 .. 4 : LeBytes(Max32, 4)[i] = B - 1
    <2>1. /\ B4 - 1 = (B3 - 1) * B + (B - 1) /\ B3 - 1 = (B2 - 1) * B + (B - 1)
          /\ B2 - 1 = (B - 1) * B + (B - 1) /\ B - 1 = 0 * B + (B - 1)
      BY <1>1, <1>2, <1>3, Z3 DEF B4, B3, B2
    <2>2. B3 - 1 \in Nat /\ B2 - 1 \in Nat /\ B - 1 \in Nat /\ 0 \in Nat
      BY <1>1, <1>2, <1>3
    <2>3. /\ (B4 - 1) \div B = B3 - 1 /\ (B4 - 1) % B = B - 1
          /\ (B3 - 1) \div B = B2 - 1 /\ (B3 - 1) % B = B - 1
          /\ (B2 - 1) \div B = B - 1 /\ (B2 - 1) % B = B - 1
          /\ (B - 1) % B = B - 1
      BY <1>8, <2>1, <2>2, Zenon
    <2>4. /\ Shift(Max32, 0) = B4 - 1 /\ Shift(Max32, 1) = B3 - 1
          /\ Shift(Max32, 2) = B2 - 1 /\ Shift(Max32, 3) = B - 1
      BY <1>5, <1>9, <2>3
    <2>5. \A i \in 1 .. 4 : LeBytes(Max32, 4)[i] = Shift(Max32, i - 1) % B
      BY <1>6, LeBytesType
    <2>6. \A i \in 1 .. 4 : Shift(Max32, i - 1) % B = B - 1
      BY <1>10, <2>3, <2>4
    <2> QED
      BY <2>5, <2>6
  <1> QED
    BY <1>7, <1>11, <1>12

(* A coinbase without a witness on the wire is what its id is the hash of. *)
LEMMA BaseIsWire == ASSUME NEW tx, IsTx(tx) PROVE SerializeBase(tx) = Wire(tx, FALSE)
  <1> DEFINE ver == LeBytes(tx.version, 4)
             one == <<1>>
             a == ver \o one
             z == Zeros(HashSize)
             l == LeBytes(Max32, 4)
             ss == SerializeScript(tx.script)
             seq == LeBytes(tx.sequence, 4)
             cs == CompactSize(Len(tx.outputs))
             H == a \o (z \o l) \o ss \o seq \o cs
             so == SerializeOutputs(tx.outputs)
             lt == LeBytes(tx.locktime, 4)
  <1>1. ver \in Strings /\ lt \in Strings
    <2>1. tx.version \in Nat /\ tx.locktime \in Nat
      BY SMTT(30) DEF IsTx, Fits
    <2> QED
      BY <2>1, LeBytesType
  <1>2. z \in Strings /\ l \in Strings
    <2>1. HashSize \in Nat /\ Max32 \in Nat
      BY Sizes DEF Max32
    <2> QED
      BY <2>1, ZerosType, LeBytesType
  <1>3. one \in Strings /\ <<>> \in Strings
    <2>1. <<>> \in Strings
      BY DEF Strings
    <2> QED
      BY <2>1, FixedParts
  <1>4. ver \o <<>> = ver /\ <<>> \o <<>> = <<>> /\ <<>> \o lt = lt
    BY <1>1, ConcatEmptySeq DEF Strings
  <1>5. HeadBytes(tx, FALSE) \in Strings /\ so \in Strings
    BY WireType
  <1> HIDE DEF ver, one, z, l, ss, seq, cs, so, lt
  <1>6. a \in Strings
    BY <1>1, <1>3, CatType
  <1>7. HeadBytes(tx, FALSE) = H
    <2>1. Marks(FALSE) = <<>>
      BY DEF Marks
    <2> QED
      BY <1>4, <2>1, Zenon DEF HeadBytes, Outpoint, ver, one, z, l, ss, seq, cs
  <1> HIDE DEF a
  <1>8. TailBytes(tx, FALSE) = lt
    <2>1. Count(FALSE) = <<>> /\ (IF FALSE THEN SerializeScript(Zeros(HashSize)) ELSE <<>>) = <<>>
      BY DEF Count
    <2> QED
      BY <1>4, <2>1, Zenon DEF TailBytes, lt
  <1>9. Associates(a, z, l) /\ Associates(H, so, lt)
    <2>1. Associates(a, z, l)
      BY <1>2, <1>6, AssocNamed
    <2> HIDE DEF H
    <2>2. Associates(H, so, lt)
      BY <1>1, <1>5, <1>7, AssocNamed
    <2> QED
      BY <2>1, <2>2
  <1>10. SerializeBase(tx) = a \o z \o l \o ss \o seq \o cs \o so \o lt
    BY Zenon DEF SerializeBase, a, ver, one, z, l, ss, seq, cs, so, lt
  <1>11. SerializeBase(tx) = H \o so \o lt
    BY <1>9, <1>10, Zenon DEF Associates
  <1>12. SerializeBase(tx) = HeadBytes(tx, FALSE) \o (so \o TailBytes(tx, FALSE))
    BY <1>7, <1>8, <1>9, <1>11, Zenon DEF Associates
  <1> QED
    BY <1>12, Zenon DEF Wire, so

(* The order in which the parts of a coinbase with an extranonce are put   *)
(* together, and the one in which it is cut.                               *)
Recuts(a, c, push, tag, n, x, s, k, o, t) ==
    a \o (c \o (push \o tag \o (n \o x))) \o s \o k \o o \o t
    = (a \o c) \o push \o (tag \o n) \o x \o (s \o k \o o \o t)

(* It does not matter either.                                              *)
LEMMA Recut ==
    ASSUME NEW a \in Strings, NEW c \in Strings, NEW push \in Strings, NEW tag \in Strings,
           NEW n \in Strings, NEW x \in Strings, NEW s \in Strings, NEW k \in Strings,
           NEW o \in Strings, NEW t \in Strings
    PROVE  Recuts(a, c, push, tag, n, x, s, k, o, t)
  <1> DEFINE ps == push \o tag
             nx == n \o x
             script == ps \o nx
             ac == a \o c
             H == ac \o push
             Hs == H \o tag
             T == tag \o n
             HT == H \o T
             R == HT \o x
             sk == s \o k
             sko == sk \o o
  <1>1. /\ ps \in Strings /\ nx \in Strings /\ ac \in Strings /\ T \in Strings /\ sk \in Strings
    BY CatType
  <1> HIDE DEF ps, nx, ac, T, sk
  <1>2. script \in Strings /\ H \in Strings /\ sko \in Strings
    BY <1>1, CatType
  <1> HIDE DEF script, H, sko
  <1>3. Hs \in Strings /\ HT \in Strings
    BY <1>1, <1>2, CatType
  <1> HIDE DEF Hs, HT
  <1>4. R \in Strings
    BY <1>3, CatType
  <1> HIDE DEF R
  <1>5. /\ Associates(a, c, script) /\ Associates(ac, ps, nx) /\ Associates(ac, push, tag)
        /\ Associates(Hs, n, x) /\ Associates(H, tag, n)
    BY <1>1, <1>2, <1>3, AssocNamed
  <1>6. Associates(R, s, k) /\ Associates(R, sk, o) /\ Associates(R, sko, t)
    BY <1>1, <1>2, <1>4, AssocNamed
  <1>7. a \o (c \o script) = R
    <2>1. a \o (c \o script) = ac \o script
      BY <1>5, Zenon DEF Associates, ac
    <2>2. ac \o script = ac \o ps \o nx
      BY <1>5, Zenon DEF Associates, script
    <2>3. ac \o ps = Hs
      BY <1>5, Zenon DEF Associates, ps, Hs, H
    <2>4. Hs \o nx = Hs \o n \o x
      BY <1>5, Zenon DEF Associates, nx
    <2>5. Hs \o n = HT
      BY <1>5, Zenon DEF Associates, Hs, HT, T
    <2> QED
      BY <2>1, <2>2, <2>3, <2>4, <2>5, Zenon DEF R
  <1>8. R \o s \o k \o o \o t = R \o (sko \o t)
    BY <1>6, Zenon DEF Associates, sko, sk
  <1>9. a \o (c \o script) \o s \o k \o o \o t = R \o (sko \o t)
    BY <1>7, <1>8, Zenon
  <1> QED
    BY <1>9, Zenon DEF Recuts, script, ps, nx, R, HT, H, ac, T, sko, sk

(* What comes before the height, between it and the extranonce, and after  *)
(* the extranonce.                                                         *)
CutTx(push, x, miner_script, commitment) ==
    CoinbaseTx(push, <<1>>, x, 70, miner_script, commitment)
HeadPart(push, size) ==
    LeBytes(1, 4) \o <<1>> \o Zeros(HashSize) \o LeBytes(Max32, 4) \o CompactSize(Len(push) + 3 + size)
TagPart(size) == SerializeScript(<<1>>) \o CompactSize(size)
CutOutputs(miner_script, commitment) ==
    <<[value |-> 70, script |-> miner_script]>>
        \o (IF commitment = <<>> THEN <<>> ELSE <<[value |-> 0, script |-> commitment]>>)
AfterPart(miner_script, commitment) ==
    LeBytes(Max32, 4) \o CompactSize(Len(CutOutputs(miner_script, commitment)))
        \o SerializeOutputs(CutOutputs(miner_script, commitment)) \o LeBytes(0, 4)

(* The miner's output and, if there is one, the commitment's.              *)
LEMMA CutOutputsType ==
    ASSUME NEW miner_script \in MinerScripts, NEW commitment \in Commitments
    PROVE  LET outs == CutOutputs(miner_script, commitment)
           IN  outs \in Seq(Outs) /\ Fits(Len(outs), 8)
  <1> DEFINE u == [value |-> 70, script |-> miner_script]
             v == [value |-> 0, script |-> commitment]
             outs == CutOutputs(miner_script, commitment)
  <1>1. /\ miner_script \in Strings /\ Fits(Len(miner_script), 8)
        /\ commitment \in Strings /\ Fits(Len(commitment), 8)
    BY CoinbaseAssumption
  <1>2. Fits(70, 8) /\ Fits(0, 8) /\ Fits(1, 8) /\ Fits(2, 8)
    <2>1. 0 \in Nat /\ 0 < TxBase /\ 1 \in Nat /\ 1 < TxBase /\ 2 \in Nat /\ 2 < TxBase
      BY Sizes
    <2> QED
      BY <2>1, HeadNumbers, FitsWide
  <1>3. u \in Outs /\ v \in Outs
    <2>1. 70 \in Nat /\ 0 \in Nat
      OBVIOUS
    <2> QED
      BY <1>1, <1>2, <2>1 DEF Outs
  <1> HIDE DEF u, v
  <1>4. CASE commitment = <<>>
    <2>1. outs = <<u>> \o <<>>
      BY <1>4 DEF CutOutputs, u
    <2>2. <<u>> \o <<>> = <<u>> /\ <<u>> \in Seq(Outs) /\ Len(<<u>>) = 1
      BY <1>3
    <2> QED
      BY <1>2, <2>1, <2>2
  <1>5. CASE commitment # <<>>
    <2>1. outs = <<u>> \o <<v>>
      BY <1>5 DEF CutOutputs, u, v
    <2>2. <<u>> \o <<v>> \in Seq(Outs) /\ Len(<<u>> \o <<v>>) = 2
      BY <1>3
    <2> QED
      BY <1>2, <2>1, <2>2
  <1> QED
    BY <1>4, <1>5

(* Sizes below the ones that are announced take a byte; the script's may   *)
(* take more.                                                              *)
LEMMA PushSizes ==
    ASSUME NEW push \in Strings, NEW size \in 1 .. TxBase - 4, Len(push) < size
    PROVE  /\ CompactSize(1) = <<1>> /\ CompactSize(size) = <<size>>
           /\ Fits(1, 8) /\ Fits(size, 8) /\ Fits(Len(push) + 3 + size, 8)
           /\ CompactSize(Len(push) + 3 + size) \in Strings
           /\ <<1>> \in Strings /\ <<size>> \in Strings
  <1>1. Len(push) \in Nat /\ size \in Nat /\ 1 \in Nat
    BY DEF Strings
  <1>2. 1 < TxBase - 3 /\ size < TxBase - 3 /\ 1 < TxBase /\ size < TxBase
    BY Sizes
  <1>3. Fits(1, 8) /\ Fits(size, 8)
    BY <1>1, <1>2, FitsWide
  <1>4. CompactSize(1) = <<1>> /\ CompactSize(size) = <<size>>
    BY <1>2, <1>3, CompactCases
  <1>5. Fits(Len(push) + 3 + size, 8)
    <2>1. 5 * TxBase <= TxBase * TxBase
      BY Sizes, Z3
    <2>2. Len(push) + 3 + size \in Nat /\ Len(push) + 3 + size <= 2 * TxBase - 6
      BY <1>1, Sizes
    <2>3. Len(push) + 3 + size <= Max16
      BY <2>1, <2>2, Sizes DEF Max16
    <2> QED
      BY <2>2, <2>3, FitsWide
  <1>6. CompactSize(Len(push) + 3 + size) \in Strings
    <2> DEFINE m == Len(push) + 3 + size
    <2> HIDE DEF m
    <2>1. Reads(CompactSize(m), <<SizeField>>, <<<<m>>>>)
      BY <1>5, ReadsFields DEF m
    <2> QED
      BY <2>1 DEF Reads, m
  <1>7. <<1>> \in Strings /\ <<size>> \in Strings
    <2>1. 1 \in 0 .. TxBase - 1 /\ size \in 0 .. TxBase - 1
      BY <1>1, <1>2, Sizes
    <2> QED
      BY <2>1 DEF Strings
  <1> QED
    BY <1>3, <1>4, <1>5, <1>6, <1>7

(* A coinbase with an extranonce of the size that its script announces, in *)
(* its parts.                                                              *)
LEMMA CutTxIs ==
    ASSUME NEW push \in Strings, NEW x \in Strings, Len(x) \in 1 .. TxBase - 4, Len(push) < Len(x),
           NEW miner_script \in MinerScripts, NEW commitment \in Commitments
    PROVE  /\ IsTx(CutTx(push, x, miner_script, commitment))
           /\ SerializeBase(CutTx(push, x, miner_script, commitment))
              = HeadPart(push, Len(x)) \o push \o TagPart(Len(x)) \o x
                    \o AfterPart(miner_script, commitment)
           /\ AfterPart(miner_script, commitment) \in Strings
  <1> DEFINE tx == CutTx(push, x, miner_script, commitment)
             outs == CutOutputs(miner_script, commitment)
             size == Len(x)
             m == Len(push) + 3 + size
             a == LeBytes(1, 4) \o <<1>> \o Zeros(HashSize) \o LeBytes(Max32, 4)
             c == CompactSize(m)
             tag == SerializeScript(<<1>>)
             n == CompactSize(size)
             s == LeBytes(Max32, 4)
             k == CompactSize(Len(outs))
             o == SerializeOutputs(outs)
             t == LeBytes(0, 4)
             ps == push \o tag
             nx == n \o x
             script == ps \o nx
  <1>1. /\ CompactSize(1) = <<1>> /\ n = <<size>> /\ Fits(m, 8) /\ c \in Strings
        /\ <<1>> \in Strings /\ n \in Strings
    <2> HIDE DEF size
    <2>1. size \in 1 .. TxBase - 4 /\ Len(push) < size
      BY DEF size
    <2> QED
      BY <2>1, PushSizes
  <1>2. outs \in Seq(Outs) /\ Fits(Len(outs), 8)
    BY CutOutputsType
  <1>3. tag \in Strings /\ Len(tag) = 2
    <2> DEFINE one == <<1>>
    <2>1. one \in Strings /\ Len(one) = 1 /\ CompactSize(1) = one
      BY <1>1
    <2> HIDE DEF one
    <2>2. one \o one \in Strings /\ Len(one \o one) = Len(one) + Len(one)
      BY <2>1, CatType
    <2>3. SerializeScript(one) = one \o one
      BY <2>1, Zenon DEF SerializeScript
    <2>4. Len(one) + Len(one) = 2
      BY <2>1
    <2> QED
      BY <2>2, <2>3, <2>4, Zenon DEF one
  <1>4. Len(n) = 1
    BY <1>1
  <1>5. a \in Strings /\ s \in Strings /\ t \in Strings
    <2>1. HashSize \in Nat /\ Max32 \in Nat /\ 1 \in Nat /\ 0 \in Nat /\ 4 \in Nat
      BY Sizes DEF Max32
    <2>2. LeBytes(1, 4) \in Strings /\ s \in Strings /\ t \in Strings /\ Zeros(HashSize) \in Strings
      BY <2>1, LeBytesType, ZerosType
    <2>3. LeBytes(1, 4) \o <<1>> \in Strings
      BY <1>1, <2>2, CatType
    <2>4. LeBytes(1, 4) \o <<1>> \o Zeros(HashSize) \in Strings
      BY <2>2, <2>3, CatType
    <2>5. a \in Strings
      BY <2>2, <2>4, CatType
    <2> QED
      BY <2>2, <2>5
  <1>6. k \in Strings /\ o \in Strings
    <2>1. Reads(k, <<SizeField>>, <<<<Len(outs)>>>>)
      BY <1>2, ReadsFields
    <2>2. Reads(o, OutFields(Len(outs)), OutVals(outs))
      BY <1>2, OutputsRead
    <2> QED
      BY <2>1, <2>2 DEF Reads
  <1> HIDE DEF size, a, c, tag, n, s, k, o, t
  <1>7. /\ ps \in Strings /\ Len(ps) = Len(push) + 2 /\ nx \in Strings /\ Len(nx) = 1 + Len(x)
        /\ Len(push) \in Nat /\ Len(x) \in Nat
    <2>1. ps \in Strings /\ Len(ps) = Len(push) + Len(tag) /\ Len(push) \in Nat
      BY <1>3, CatType
    <2>2. nx \in Strings /\ Len(nx) = Len(n) + Len(x) /\ Len(x) \in Nat
      BY <1>1, CatType
    <2> QED
      BY <1>3, <1>4, <2>1, <2>2, Zenon
  <1> HIDE DEF ps, nx
  <1>8. script \in Strings /\ Len(script) = m
    <2>1. script \in Strings /\ Len(script) = Len(ps) + Len(nx)
      BY <1>7, CatType
    <2> HIDE DEF script
    <2> QED
      BY <1>7, <2>1 DEF size
  <1>9. AfterPart(miner_script, commitment) = s \o k \o o \o t
    BY Zenon DEF AfterPart, s, k, o, t, outs
  <1>10. AfterPart(miner_script, commitment) \in Strings
    <2>1. s \o k \in Strings
      BY <1>5, <1>6, CatType
    <2>2. s \o k \o o \in Strings
      BY <1>6, <2>1, CatType
    <2>3. s \o k \o o \o t \in Strings
      BY <1>5, <2>2, CatType
    <2> QED
      BY <1>9, <2>3
  <1>11. Recuts(a, c, push, tag, n, x, s, k, o, t)
    BY <1>1, <1>3, <1>5, <1>6, Recut
  <1> HIDE DEF outs
  <1>12. script = ScriptWith(push, <<1>>, x)
    BY Zenon DEF ScriptWith, SerializeScript, script, ps, nx, tag, n, size
  <1> HIDE DEF script
  <1>13. /\ tx.version = 1 /\ tx.sequence = Max32 /\ tx.locktime = 0
         /\ tx.script = script /\ tx.outputs = outs
    BY <1>12 DEF CutTx, CoinbaseTx, Coinbase, CutOutputs, outs
  <1> HIDE DEF tx
  <1>14. IsTx(tx)
    BY <1>1, <1>2, <1>8, <1>13, HeadNumbers DEF IsTx
  <1>15. SerializeScript(tx.script) = c \o script
    BY <1>8, <1>13, Zenon DEF SerializeScript, c
  <1>16. SerializeBase(tx) = a \o (c \o script) \o s \o k \o o \o t
    BY <1>13, <1>15, Zenon DEF SerializeBase, a, s, k, o, t
  <1>17. a \o (c \o script) \o s \o k \o o \o t = (a \o c) \o push \o (tag \o n) \o x \o (s \o k \o o \o t)
    BY <1>11, Zenon DEF Recuts, script, ps, nx
  <1>18. HeadPart(push, Len(x)) = a \o c /\ TagPart(Len(x)) = tag \o n
    BY Zenon DEF HeadPart, TagPart, a, c, m, tag, n, size
  <1> QED
    BY <1>9, <1>10, <1>14, <1>16, <1>17, <1>18, Zenon DEF tx

(* Bytes that the placeholder does not have.                               *)
LEMMA AvoidsThese ==
    ASSUME NEW s, NEW p, \A k \in 1 .. Len(s) : s[k] \in {0, 1, TxBase - 1, Len(p)},
           \A i \in 1 .. Len(p) : p[i] \notin {0, 1, TxBase - 1, Len(p)}
    PROVE  Avoids(s, p)
  BY DEF Avoids

(* The placeholder shares no byte with what is around the height.          *)
LEMMA PlaceholderStands ==
    ASSUME NEW nonce \in Nonces, NEW push \in HeightPushes
    PROVE  LET p == nonce.placeholder
               head == HeadPart(push, Len(p))
               tag == TagPart(Len(p))
           IN  /\ Avoids(head, p) /\ Avoids(tag, p) /\ head \in Strings /\ tag \in Strings
               /\ tag # <<>>
  <1> DEFINE p == nonce.placeholder
             size == Len(p)
             m == Len(push) + 3 + size
             ver == LeBytes(1, 4)
             one == <<1>>
             z == Zeros(HashSize)
             l == LeBytes(Max32, 4)
             c == CompactSize(m)
             num == <<size>>
  <1>1. /\ p \in Strings /\ size \in 1 .. TxBase - 4 /\ Len(push) < size
        /\ \A i \in 1 .. size : p[i] \notin {0, 1, TxBase - 1, size}
        /\ \A i \in 1 .. size : \A k \in DOMAIN c : p[i] # c[k]
    BY PlaceholderAssumption
  <1>2. push \in Strings
    BY CoinbaseAssumption
  <1>3. /\ CompactSize(1) = one /\ CompactSize(size) = num /\ c \in Strings
        /\ one \in Strings /\ num \in Strings
    <2> HIDE DEF size
    <2> QED
      BY <1>1, <1>2, PushSizes
  <1>4. /\ Len(one) = 1 /\ one[1] = 1 /\ Len(num) = 1 /\ num[1] = size
    OBVIOUS
  <1>5. /\ ver \in Strings /\ Len(ver) = 4 /\ \A i \in 1 .. 4 : ver[i] \in {0, 1}
        /\ l \in Strings /\ Len(l) = 4 /\ \A i \in 1 .. 4 : l[i] = TxBase - 1
    <2>1. 1 \in Nat /\ Max32 \in Nat /\ 4 \in Nat
      BY Sizes DEF Max32
    <2> QED
      BY <2>1, LeBytesType, HeadNumbers
  <1>6. z \in Strings /\ Len(z) = HashSize /\ \A i \in 1 .. HashSize : z[i] = 0
    BY Sizes, ZerosType
  <1>7. Avoids(c, p)
    <2> HIDE DEF c, p
    <2>1. DOMAIN c = 1 .. Len(c)
      BY <1>3 DEF Strings
    <2> QED
      BY <1>1, <2>1 DEF Avoids
  <1> HIDE DEF p, ver, one, z, l, c, num
  <1>8. Avoids(ver, p) /\ Avoids(one, p) /\ Avoids(z, p) /\ Avoids(l, p) /\ Avoids(num, p)
    <2>1. /\ \A k \in 1 .. Len(ver) : ver[k] \in {0, 1, TxBase - 1, size}
          /\ \A k \in 1 .. Len(z) : z[k] \in {0, 1, TxBase - 1, size}
          /\ \A k \in 1 .. Len(l) : l[k] \in {0, 1, TxBase - 1, size}
      BY <1>5, <1>6
    <2>2. \A k \in 1 .. 1 : k = 1
      OBVIOUS
    <2>3. /\ \A k \in 1 .. Len(one) : one[k] \in {0, 1, TxBase - 1, size}
          /\ \A k \in 1 .. Len(num) : num[k] \in {0, 1, TxBase - 1, size}
      BY <1>4, <2>2
    <2> QED
      BY <1>1, <2>1, <2>3, AvoidsThese
  <1> DEFINE h1 == ver \o one
             h2 == h1 \o z
             h3 == h2 \o l
             h4 == h3 \o c
             t1 == one \o one
             t2 == t1 \o num
  <1>9. h1 \in Strings /\ Avoids(h1, p) /\ t1 \in Strings /\ Avoids(t1, p) /\ Len(t1) = Len(one) + Len(one)
    BY <1>1, <1>3, <1>5, <1>8, CatType, AvoidsBoth
  <1> HIDE DEF h1, t1
  <1>10. h2 \in Strings /\ Avoids(h2, p)
    BY <1>1, <1>6, <1>8, <1>9, CatType, AvoidsBoth
  <1> HIDE DEF h2
  <1>11. h3 \in Strings /\ Avoids(h3, p)
    BY <1>1, <1>5, <1>8, <1>10, CatType, AvoidsBoth
  <1> HIDE DEF h3
  <1>12. h4 \in Strings /\ Avoids(h4, p)
    BY <1>1, <1>3, <1>7, <1>11, CatType, AvoidsBoth
  <1>13. t2 \in Strings /\ Avoids(t2, p) /\ Len(t2) = Len(t1) + Len(num)
    BY <1>1, <1>3, <1>8, <1>9, CatType, AvoidsBoth
  <1> HIDE DEF h4, t2
  <1>14. t2 # <<>>
    <2>1. Len(t2) = 3 /\ Len(<<>>) = 0 /\ 3 # 0
      BY <1>4, <1>9, <1>13
    <2> QED
      BY <2>1, Zenon
  <1>15. HeadPart(push, size) = h4
    BY Zenon DEF HeadPart, h4, h3, h2, h1, ver, one, z, l, c, m
  <1>16. TagPart(size) = t2
    <2>1. SerializeScript(one) = t1
      BY <1>3, <1>4, Zenon DEF SerializeScript, t1
    <2> QED
      BY <1>3, <2>1, Zenon DEF TagPart, t2, one
  <1> QED
    BY <1>12, <1>13, <1>14, <1>15, <1>16, Zenon DEF p, size

(* A coinbase that is cut and joined around an extranonce reads as the     *)
(* coinbase with that extranonce.                                          *)
LEMMA CutReads ==
    ASSUME NEW push \in HeightPushes, NEW miner_script \in MinerScripts,
           NEW commitment \in Commitments, NEW nonce \in Nonces
    PROVE  LET cut == SplitAtExtranonce(
                          SerializeBase(CutTx(push, nonce.placeholder, miner_script, commitment)),
                          nonce.placeholder)
           IN  Deserialize(cut.coinb1 \o nonce.extranonce \o cut.coinb2)
               = [ok |-> TRUE, tx |-> CutTx(push, nonce.extranonce, miner_script, commitment)]
  <1> DEFINE p == nonce.placeholder
             e == nonce.extranonce
             size == Len(p)
             head == HeadPart(push, size)
             tag == TagPart(size)
             after == AfterPart(miner_script, commitment)
             tx == CutTx(push, e, miner_script, commitment)
             raw == SerializeBase(CutTx(push, p, miner_script, commitment))
             cut == SplitAtExtranonce(raw, p)
             back == Coinbase(tx.version, tx.script, tx.sequence, tx.outputs, Witness(FALSE),
                              tx.locktime)
  <1>1. /\ p \in Strings /\ size \in 1 .. TxBase - 4 /\ Len(push) < size
        /\ e \in Strings /\ Len(e) = size
    BY PlaceholderAssumption
  <1>2. push \in Strings
    BY CoinbaseAssumption
  <1>3. /\ Avoids(head, p) /\ Avoids(tag, p) /\ head \in Strings /\ tag \in Strings /\ tag # <<>>
    BY PlaceholderStands
  <1>4. raw = head \o push \o tag \o p \o after /\ after \in Strings
    <2> HIDE DEF p
    <2> QED
      BY <1>1, <1>2, CutTxIs
  <1>5. IsTx(tx) /\ SerializeBase(tx) = head \o push \o tag \o e \o after
    <2> HIDE DEF e
    <2>1. Len(e) \in 1 .. TxBase - 4 /\ Len(push) < Len(e)
      BY <1>1
    <2>2. /\ IsTx(tx)
          /\ SerializeBase(tx) = HeadPart(push, Len(e)) \o push \o TagPart(Len(e)) \o e \o after
      BY <1>1, <1>2, <2>1, CutTxIs
    <2> QED
      BY <1>1, <2>2, Zenon
  <1> HIDE DEF p, e, size, head, tag, after, raw
  <1>6. cut = [coinb1 |-> head \o push \o tag, coinb2 |-> after]
    <2>1. Len(push) < Len(p)
      BY <1>1 DEF size
    <2>2. CutAround(head, push, tag, p, after)
      BY <1>1, <1>2, <1>3, <1>4, <2>1, SplitFinds
    <2> QED
      BY <1>4, <2>2, Zenon DEF CutAround
  <1> HIDE DEF cut
  <1>7. cut.coinb1 \o e \o cut.coinb2 = SerializeBase(tx)
    <2>1. cut.coinb1 = head \o push \o tag /\ cut.coinb2 = after
      BY <1>6
    <2> QED
      BY <1>5, <2>1, Zenon
  <1>8. Deserialize(SerializeBase(tx)) = [ok |-> TRUE, tx |-> back]
    <2> HIDE DEF tx
    <2>1. SerializeBase(tx) = Wire(tx, FALSE)
      BY <1>5, BaseIsWire
    <2>2. Deserialize(Wire(tx, FALSE)) = [ok |-> TRUE, tx |-> back]
      BY <1>5, ReadsBack
    <2> QED
      BY <2>1, <2>2, Zenon
  <1>9. back = tx
    <2>1. /\ tx.version = 1 /\ tx.script = ScriptWith(push, <<1>>, e) /\ tx.sequence = Max32
          /\ tx.outputs = CutOutputs(miner_script, commitment) /\ tx.locktime = 0
      BY DEF CutTx, CoinbaseTx, Coinbase, CutOutputs
    <2>2. Witness(FALSE) = <<>>
      BY DEF Witness
    <2>3. back = Coinbase(1, ScriptWith(push, <<1>>, e), Max32,
                          CutOutputs(miner_script, commitment), <<>>, 0)
      BY <2>1, <2>2, Zenon
    <2> HIDE DEF back
    <2> QED
      BY <2>3, Zenon DEF CutTx, CoinbaseTx, CutOutputs
  <1> HIDE DEF back, tx
  <1> QED
    BY <1>7, <1>8, <1>9, Zenon DEF cut, raw, p, e, tx

(* SplitReadsBack, for every height, address, commitment and extranonce,   *)
(* and every placeholder that shares no byte with what precedes it but the *)
(* height: build_coinbase_parts cuts the coinbase where the placeholder    *)
(* was put, whatever bytes follow it.                                      *)
THEOREM SplitReadsBackAlways == JobSpec => []SplitReadsBack
  <1>1. JobInit => SplitReadsBack
    BY DEF JobInit, SplitReadsBack
  <1>2. SplitReadsBack /\ [JobNext]_jobVars => SplitReadsBack'
    <2> SUFFICES ASSUME SplitReadsBack, [JobNext]_jobVars PROVE SplitReadsBack'
      OBVIOUS
    <2>1. CASE UNCHANGED jobVars
      BY <2>1 DEF SplitReadsBack, jobVars
    <2>2. ASSUME NEW cb \in Coinbases, NEW s \in MinerScripts, NEW txids \in TxLists,
                 NEW id \in ChannelIds, BuildJob(cb, s, txids, id)
          PROVE  SplitReadsBack'
      <3>1. phase' = "job"
        BY <2>2 DEF BuildJob
      <3> QED
        BY <3>1 DEF SplitReadsBack
    <2>3. ASSUME NEW ext2 \in Extranonces2, SubmitShare(ext2) PROVE SplitReadsBack'
      <3>1. phase' = "checked"
        BY <2>3 DEF SubmitShare
      <3> QED
        BY <3>1 DEF SplitReadsBack
    <2>4. ASSUME NEW push \in HeightPushes, NEW s \in MinerScripts, NEW c \in Commitments,
                 NEW n \in Nonces, CutCoinbase(push, s, c, n)
          PROVE  SplitReadsBack'
      <3> DEFINE tx == CutTx(push, n.extranonce, s, c)
                 read == Deserialize(parts'.coinb1 \o from'.nonce \o parts'.coinb2)
      <3>1. /\ from' = [push |-> push, miner_script |-> s, commitment |-> c, nonce |-> n.extranonce]
            /\ parts' = SplitAtExtranonce(SerializeBase(CutTx(push, n.placeholder, s, c)),
                                          n.placeholder)
        BY <2>4 DEF CutCoinbase, CutTx
      <3>2. /\ from'.push = push /\ from'.miner_script = s /\ from'.commitment = c
            /\ from'.nonce = n.extranonce
        BY <3>1
      <3>3. read = [ok |-> TRUE, tx |-> tx]
        BY <3>1, <3>2, CutReads, Zenon
      <3> HIDE DEF read, tx
      <3>4. read.ok /\ read.tx = tx
        BY <3>3
      <3>5. tx = CoinbaseTx(from'.push, <<1>>, from'.nonce, 70, from'.miner_script, from'.commitment)
        BY <3>2, Zenon DEF tx, CutTx
      <3> QED
        BY <3>4, <3>5, Zenon DEF SplitReadsBack, read
    <2> QED
      BY <2>1, <2>2, <2>3, <2>4 DEF JobNext
  <1> QED
    BY <1>1, <1>2, PTL DEF JobSpec
===============================================================================
