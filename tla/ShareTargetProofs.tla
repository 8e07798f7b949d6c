-------------------------- MODULE ShareTargetProofs --------------------------
(***************************************************************************)
(* Proofs about the long division of ShareTarget, for every size of a      *)
(* byte, number of bytes and difficulty that leaves the accumulator room.  *)
(***************************************************************************)
EXTENDS ShareTarget, SequenceTheorems, TLAPS

(* A natural number is its quotient by a divisor, times it, and a smaller  *)
(* remainder.                                                              *)
LEMMA DivMod ==
    ASSUME NEW n \in Nat, NEW d \in Nat \ {0}
    PROVE  /\ n \div d \in Nat
           /\ n % d \in 0 .. d - 1
           /\ n = (n \div d) * d + (n % d)
<1> DEFINE q == n \div d
           r == n % d
<1>1. q \in Nat
  BY SMT
<1>2. r \in 0 .. d - 1
  BY SMT
<1>3. n - q * d = r
  BY Z3
<1> HIDE DEF q, r
<1>4. n = q * d + r
  BY <1>1, <1>2, <1>3
<1>5. q = n \div d /\ r = n % d
  BY DEF q, r
<1> QED
  BY <1>1, <1>2, <1>4, <1>5, Zenon

(* The quotient of a number below a product by one factor is below the     *)
(* other.                                                                  *)
LEMMA QuotientBelow ==
    ASSUME NEW n \in Nat, NEW d \in Nat \ {0}, NEW k \in Nat, n < k * d
    PROVE  n \div d < k
BY Z3

(* A quotient with a remainder below the divisor is the quotient.          *)
LEMMA QuotientUnique ==
    ASSUME NEW n \in Nat, NEW d \in Nat \ {0}, NEW q \in Nat, NEW r \in Nat,
           n = q * d + r, r < d
    PROVE  n \div d = q
<1> DEFINE p == n \div d
           s == n % d
<1>1. p \in Nat /\ s \in 0 .. d - 1 /\ n = p * d + s
  BY DivMod
<1> HIDE DEF p, s
<1>2. CASE p < q
  <2>1. (p + 1) * d <= q * d
    BY <1>1, <1>2, Z3
  <2>2. (p + 1) * d = p * d + d
    BY <1>1
  <2>3. p * d \in Int /\ q * d \in Int
    BY <1>1
  <2> QED
    BY <1>1, <2>1, <2>2, <2>3
<1>3. CASE q < p
  <2>1. (q + 1) * d <= p * d
    BY <1>1, <1>3, Z3
  <2>2. (q + 1) * d = q * d + d
    BY <1>1
  <2>3. p * d \in Int /\ q * d \in Int
    BY <1>1
  <2> QED
    BY <1>1, <2>1, <2>2, <2>3
<1>4. p = q
  BY <1>1, <1>2, <1>3
<1> QED
  BY <1>4 DEF p

(* A remainder by a divisor that is larger is the number itself.           *)
LEMMA RemainderOfSmaller ==
    ASSUME NEW n \in Nat, NEW d \in Nat \ {0}, n < d
    PROVE  n % d = n
BY Z3

(* The range of the constants the division works with.                     *)
LEMMA Sizes ==
    /\ Byte \in Nat \ {0}
    /\ Width \in Nat \ {0}
    /\ AccLimit \in Nat \ {0}
BY TargetAssumption

-----------------------------------------------------------------------------
(* ---- Numbers in bytes ---- *)

AddDigit(b, v) == v * Byte + b
Times(b, p) == p * b
LastIndex(s) == Max(s)
Numbers == INSTANCE FoldTheory WITH Op <- AddDigit, Choose <- LastIndex
Powers == INSTANCE FoldTheory WITH Op <- Times, Choose <- LastIndex

(* LastIndex is the last index of a sequence's domain.                     *)
LEMMA LastChooses == Numbers!ChoosesLast /\ Powers!ChoosesLast
<1>1. ASSUME NEW n \in Nat, NEW T \in SUBSET (1 .. n), T # {}
      PROVE  LastIndex(T) \in T /\ \A y \in T : y <= LastIndex(T)
  <2>1. LastIndex(T) = CHOOSE x \in T : \A y \in T : x >= y
    BY DEF LastIndex, Max
  <2> QED
    BY <1>1, <2>1, Numbers!LastOfIndices
<1> QED
  BY <1>1 DEF Numbers!ChoosesLast, Powers!ChoosesLast

(* BigEndian is a fold of the bytes, Power one of equal factors.           *)
LEMMA NumberIsFold == ASSUME NEW s PROVE BigEndian(s) = Numbers!Fold(0, s, DOMAIN s)
BY DEF BigEndian, FoldLeft, MapThenFoldSet, Numbers!Fold, Numbers!MapThenFoldSet, AddDigit, LastIndex

(* The first n factors of a power.                                         *)
Factors(n) == [i \in 1 .. n |-> Byte]

(* Power is a fold of equal factors.                                       *)
LEMMA PowerIsFold ==
    ASSUME NEW n
    PROVE  Power(n) = Powers!Fold(1, Factors(n), DOMAIN Factors(n))
BY DEF Power, Factors, FoldLeft, MapThenFoldSet, Powers!Fold, Powers!MapThenFoldSet, Times, LastIndex

(* The recursion of Power.                                                 *)
LEMMA PowerStep ==
    /\ Power(0) = 1
    /\ \A n \in Nat : Power(n + 1) = Power(n) * Byte
<1>1. Power(0) = 1
  <2>1. Factors(0) = <<>>
    BY DEF Factors
  <2> QED
    BY <2>1, PowerIsFold, Powers!FoldEmptySeq
<1>2. ASSUME NEW n \in Nat PROVE Power(n + 1) = Power(n) * Byte
  <2> DEFINE f == Factors(n)
  <2>1. f \in Seq(Nat) /\ Byte \in Nat
    BY Sizes DEF Factors
  <2>2. Factors(n + 1) = Append(f, Byte)
    <3>1. Factors(n + 1) \in Seq(Nat) /\ Append(f, Byte) \in Seq(Nat)
      BY <2>1 DEF Factors
    <3>2. Len(Factors(n + 1)) = n + 1 /\ Len(f) = n
      BY DEF Factors
    <3>3. Len(Append(f, Byte)) = n + 1
      BY <2>1, <3>2
    <3>4. ASSUME NEW i \in 1 .. n + 1 PROVE Factors(n + 1)[i] = Append(f, Byte)[i]
      BY <2>1, <3>2 DEF Factors
    <3> HIDE DEF f
    <3> QED
      BY <3>1, <3>2, <3>3, <3>4, SeqEqual
  <2>3. Powers!Fold(1, Append(f, Byte), DOMAIN Append(f, Byte))
        = Times(Byte, Powers!Fold(1, f, DOMAIN f))
    BY <2>1, LastChooses, Powers!FoldAppend
  <2> QED
    BY <2>2, <2>3, PowerIsFold DEF Times
<1> QED
  BY <1>1, <1>2

(* A power is positive.                                                    *)
LEMMA PowerType == \A n \in Nat : Power(n) \in Nat \ {0}
<1> DEFINE P == {n \in Nat : Power(n) \in Nat \ {0}}
<1>1. 0 \in P
  BY PowerStep
<1>2. ASSUME NEW n \in Nat, n \in P PROVE n + 1 \in P
  <2>1. Power(n) \in Nat \ {0} /\ Byte \in Nat \ {0}
    BY <1>2, Sizes
  <2>2. Power(n + 1) = Power(n) * Byte
    BY PowerStep
  <2> QED
    BY <2>1, <2>2
<1> HIDE DEF P
<1>3. \A n \in Nat : n \in P
  BY <1>1, <1>2, Numbers!NatInduct
<1> QED
  BY <1>3 DEF P

(* The arrays of bytes the code compares, and what the first k bytes of    *)
(* one stand for.                                                          *)
Bytes == [1 .. Width -> 0 .. Byte - 1]
Prefix(x, k) == BigEndian(SubSeq(x, 1, k))

(* A byte more.                                                            *)
LEMMA PrefixStep ==
    ASSUME NEW x \in Bytes
    PROVE  /\ Prefix(x, 0) = 0
           /\ \A k \in 0 .. Width - 1 : Prefix(x, k + 1) = Prefix(x, k) * Byte + x[k + 1]
           /\ Prefix(x, Width) = BigEndian(x)
<1>0. x \in Seq(0 .. Byte - 1) /\ Len(x) = Width /\ Width \in Nat
  BY Sizes DEF Bytes
<1>1. Prefix(x, 0) = 0
  <2>1. SubSeq(x, 1, 0) = <<>>
    BY SubSeqEmpty
  <2> QED
    BY <2>1, NumberIsFold, Numbers!FoldEmptySeq DEF Prefix
<1>2. ASSUME NEW k \in 0 .. Width - 1
      PROVE  Prefix(x, k + 1) = Prefix(x, k) * Byte + x[k + 1]
  <2> DEFINE s == SubSeq(x, 1, k)
             b == x[k + 1]
  <2>1. k \in Nat /\ b \in 0 .. Byte - 1 /\ s \in Seq(0 .. Byte - 1)
    <3>1. k \in Int /\ 1 \in Int /\ k + 1 \in 1 .. Width
      BY <1>0
    <3>2. \A i \in 1 .. k + 1 : x[i] \in 0 .. Byte - 1
      <4>1. \A i \in 1 .. k + 1 : i \in 1 .. Width
        BY <1>0
      <4> QED
        BY <4>1 DEF Bytes
    <3>3. \A i \in 1 .. k : x[i] \in 0 .. Byte - 1
      BY <3>1, <3>2
    <3>4. s \in Seq(0 .. Byte - 1)
      BY <3>1, <3>3, SubSeqProperties
    <3>5. k \in Nat /\ b \in 0 .. Byte - 1
      BY <1>0, <3>2
    <3> QED
      BY <3>4, <3>5
  <2>2. SubSeq(x, 1, k + 1) = Append(s, b)
    <3>1. k + 1 \in 1 .. Len(x) /\ 1 \in 1 .. Len(x) /\ (k + 1) - 1 = k
      BY <1>0
    <3>2. SubSeq(x, 1, k + 1) = SubSeq(x, 1, (k + 1) - 1) \o <<x[k + 1]>>
      BY <1>0, <3>1, SubSeqRecursiveSecond
    <3>3. Append(s, b) = s \o <<b>>
      BY <2>1, AppendIsConcat
    <3> QED
      BY <3>1, <3>2, <3>3
  <2> HIDE DEF s, b
  <2>3. Numbers!Fold(0, Append(s, b), DOMAIN Append(s, b))
        = AddDigit(b, Numbers!Fold(0, s, DOMAIN s))
    BY <2>1, LastChooses, Numbers!FoldAppend
  <2>4. BigEndian(Append(s, b)) = BigEndian(s) * Byte + b
    BY <2>3, NumberIsFold DEF AddDigit
  <2> QED
    BY <2>2, <2>4 DEF Prefix, s, b
<1>3. Prefix(x, Width) = BigEndian(x)
  BY <1>0, SubSeqFull DEF Prefix
<1> QED
  BY <1>1, <1>2, <1>3

(* What bytes stand for is a natural number.                               *)
LEMMA PrefixType == ASSUME NEW x \in Bytes, NEW k \in 0 .. Width PROVE Prefix(x, k) \in Nat
<1> DEFINE P == {n \in Nat : n <= Width => Prefix(x, n) \in Nat}
<1>1. 0 \in P
  BY PrefixStep
<1>2. ASSUME NEW n \in Nat, n \in P PROVE n + 1 \in P
  <2> SUFFICES ASSUME n + 1 <= Width PROVE Prefix(x, n + 1) \in Nat
    OBVIOUS
  <2>1. n \in 0 .. Width - 1 /\ n + 1 \in 1 .. Width /\ Byte \in Nat /\ n <= Width
    BY Sizes
  <2>2. Prefix(x, n) \in Nat /\ x[n + 1] \in Nat
    <3>1. x[n + 1] \in 0 .. Byte - 1
      BY <2>1 DEF Bytes
    <3> QED
      BY <1>2, <2>1, <3>1
  <2>3. Prefix(x, n + 1) = Prefix(x, n) * Byte + x[n + 1]
    BY <2>1, PrefixStep
  <2> QED
    BY <2>1, <2>2, <2>3
<1> HIDE DEF P
<1>3. \A n \in Nat : n \in P
  BY <1>1, <1>2, Numbers!NatInduct
<1> QED
  BY <1>3 DEF P

(* A prefix depends on its own bytes only.                                 *)
LEMMA PrefixEqual ==
    ASSUME NEW x \in Bytes, NEW y \in Bytes, NEW k \in 0 .. Width, \A i \in 1 .. k : x[i] = y[i]
    PROVE  Prefix(x, k) = Prefix(y, k)
<1> DEFINE P == {n \in Nat : n <= k => Prefix(x, n) = Prefix(y, n)}
<1>0. k \in Nat /\ k <= Width /\ Width \in Nat
  BY Sizes
<1>1. 0 \in P
  BY PrefixStep
<1>2. ASSUME NEW n \in Nat, n \in P PROVE n + 1 \in P
  <2> SUFFICES ASSUME n + 1 <= k PROVE Prefix(x, n + 1) = Prefix(y, n + 1)
    OBVIOUS
  <2>1. n \in 0 .. Width - 1 /\ n + 1 \in 1 .. k /\ n <= k
    BY <1>0
  <2>2. Prefix(x, n + 1) = Prefix(x, n) * Byte + x[n + 1]
    BY <2>1, PrefixStep
  <2>3. Prefix(y, n + 1) = Prefix(y, n) * Byte + y[n + 1]
    BY <2>1, PrefixStep
  <2>4. Prefix(x, n) = Prefix(y, n) /\ x[n + 1] = y[n + 1]
    BY <1>2, <2>1
  <2> QED
    BY <2>2, <2>3, <2>4
<1> HIDE DEF P
<1>3. \A n \in Nat : n \in P
  BY <1>1, <1>2, Numbers!NatInduct
<1> QED
  BY <1>0, <1>3 DEF P

(* The difficulty-1 target is made of bytes.                               *)
LEMMA PDiff1Type == PDiff1 \in Bytes
BY Sizes DEF PDiff1, Bytes

(* So is the target of a block.                                            *)
LEMMA CompactType == ASSUME NEW bits \in NBits PROVE CompactToTargetBe(bits) \in Bytes
<1> DEFINE mantissa == bits.mantissa % ((Byte * Byte * Byte) \div 2)
<1>1. bits.mantissa \in Nat /\ Byte \in Nat /\ Byte >= 4
  BY TargetAssumption
<1>2. (Byte * Byte * Byte) \div 2 \in Nat \ {0}
  <2>1. Byte * Byte * Byte \in Nat /\ Byte * Byte * Byte >= 4
    BY <1>1
  <2> QED
    BY <2>1
<1>3. mantissa \in Nat
  BY <1>1, <1>2, DivMod
<1> HIDE DEF mantissa
<1>4. /\ (mantissa \div (Byte * Byte)) % Byte \in 0 .. Byte - 1
      /\ (mantissa \div Byte) % Byte \in 0 .. Byte - 1
      /\ mantissa % Byte \in 0 .. Byte - 1
  <2>1. Byte \in Nat \ {0} /\ Byte * Byte \in Nat \ {0}
    BY <1>1
  <2>2. mantissa \div (Byte * Byte) \in Nat /\ mantissa \div Byte \in Nat
    BY <1>3, <2>1, DivMod
  <2> QED
    BY <1>3, <2>1, <2>2, DivMod
<1> QED
  BY <1>1, <1>4 DEF CompactToTargetBe, mantissa, Bytes

-----------------------------------------------------------------------------
(* ---- The long division ---- *)

(* What the loop maintains besides its type: the accumulator has room for  *)
(* the remainder followed by another byte.                                 *)
Room ==
    /\ difficulty * Byte <= AccLimit
    /\ stage = "idle" => num = 0 /\ quo = 0 /\ carry = 0

IndInv == TypeOK /\ DivisionExact /\ Room

(* The invariant holds before a channel is opened.                         *)
LEMMA InitOK == Init => IndInv
<1> SUFFICES ASSUME Init PROVE IndInv
  OBVIOUS
<1>1. PDiff1 \in [1 .. Width -> 0 .. Byte - 1]
  BY PDiff1Type DEF Bytes
<1>2. TypeOK
  BY <1>1, Sizes DEF Init, TypeOK
<1>3. DivisionExact /\ Room
  BY TargetAssumption DEF Init, DivisionExact, Room
<1> QED
  BY <1>2, <1>3 DEF IndInv

(* Opening a channel chooses a difficulty that leaves room, and divides    *)
(* nothing yet.                                                            *)
LEMMA OpenChannelOK ==
    ASSUME IndInv, NEW rate \in Rates, OpenChannel(rate)
    PROVE  IndInv'
<1> DEFINE d == (rate * Interval) \div DiffUnit
<1>1. d \in Nat /\ d * Byte <= AccLimit
  <2>1. rate \in Nat /\ Interval \in Nat /\ DiffUnit \in Nat \ {0}
    BY TargetAssumption
  <2>2. rate * Interval \in Nat
    BY <2>1
  <2>3. d \in Nat
    BY <2>1, <2>2, DivMod
  <2> QED
    BY <2>3, TargetAssumption
<1>2. RateDifficulty(rate) \in Nat \ {0} /\ RateDifficulty(rate) * Byte <= AccLimit
  <2>1. RateDifficulty(rate) = IF d > 1 THEN d ELSE 1
    BY DEF RateDifficulty
  <2> HIDE DEF d
  <2>2. 1 * Byte <= AccLimit
    BY Sizes, TargetAssumption
  <2> QED
    BY <1>1, <2>1, <2>2
<1> HIDE DEF d
<1>3. TypeOK'
  BY <1>2 DEF IndInv, TypeOK, OpenChannel, Room
<1>4. DivisionExact' /\ Room'
  BY <1>2 DEF IndInv, TypeOK, OpenChannel, Room, DivisionExact
<1> QED
  BY <1>3, <1>4 DEF IndInv

(* One turn of the loop keeps the division exact: the accumulator does not *)
(* wrap and the quotient fits in the byte it is stored in.                 *)
LEMMA DivideByteOK ==
    ASSUME IndInv, DivideByte
    PROVE  IndInv'
<1> DEFINE b == target_be[pos + 1]
           v == carry * Byte + b
           digit == v \div difficulty
<1>1. /\ difficulty \in Nat \ {0} /\ carry \in Nat /\ carry <= difficulty - 1
      /\ num \in Nat /\ quo \in Nat /\ Byte \in Nat \ {0} /\ AccLimit \in Nat \ {0}
      /\ b \in Nat /\ b <= Byte - 1
      /\ pos + 1 \in 1 .. Width
  BY Sizes DEF IndInv, TypeOK, DivideByte
<1>2. num = quo * difficulty + carry /\ difficulty * Byte <= AccLimit
  BY DEF IndInv, DivisionExact, Room
<1> HIDE DEF b
<1>3. v \in Nat /\ v < Byte * difficulty
  <2>1. carry * Byte \in Nat
    BY <1>1
  <2>2. carry * Byte <= (difficulty - 1) * Byte
    BY <1>1
  <2>3. (difficulty - 1) * Byte = Byte * difficulty - Byte /\ Byte * difficulty \in Nat
    BY <1>1
  <2> QED
    BY <1>1, <2>1, <2>2, <2>3
<1>4. Accumulated(b) = v
  <2>1. Byte * difficulty = difficulty * Byte /\ Byte * difficulty \in Nat
    BY <1>1
  <2>2. v < AccLimit
    BY <1>1, <1>2, <1>3, <2>1
  <2> QED
    BY <1>1, <1>3, <2>2, RemainderOfSmaller DEF Accumulated
<1> HIDE DEF v
<1>5. /\ digit \in Nat /\ digit < Byte
      /\ v % difficulty \in 0 .. difficulty - 1
      /\ v = digit * difficulty + (v % difficulty)
  BY <1>1, <1>3, DivMod, QuotientBelow
<1>6. digit % Byte = digit
  BY <1>1, <1>5, RemainderOfSmaller
<1>7. /\ target_be' = [target_be EXCEPT ![pos + 1] = digit]
      /\ carry' = v % difficulty
      /\ pos' = pos + 1
      /\ num' = num * Byte + b
      /\ quo' = quo * Byte + digit
      /\ UNCHANGED <<stage, difficulty, nbits>>
      /\ stage = "divide"
  BY <1>4, <1>6 DEF DivideByte, Carried, b
<1> HIDE DEF digit
<1>8. num' \in Nat /\ quo' \in Nat
  BY <1>1, <1>5, <1>7
<1>9. TypeOK'
  BY <1>1, <1>5, <1>7, <1>8 DEF IndInv, TypeOK
<1>10. DivisionExact'
  <2>1. num * Byte + b = quo * Byte * difficulty + v
    <3>1. num * Byte = quo * difficulty * Byte + carry * Byte
      BY <1>1, <1>2
    <3>2. quo * difficulty * Byte = quo * Byte * difficulty
      BY <1>1
    <3> QED
      BY <1>1, <3>1, <3>2 DEF v
  <2>2. (quo * Byte + digit) * difficulty = quo * Byte * difficulty + digit * difficulty
    BY <1>1, <1>5
  <2>3. /\ quo * Byte * difficulty \in Nat /\ digit * difficulty \in Nat
        /\ v % difficulty \in Nat
    BY <1>1, <1>5
  <2>4. num * Byte + b = (quo * Byte + digit) * difficulty + (v % difficulty)
    <3>1. ASSUME NEW x \in Nat, NEW y \in Nat, NEW z \in Nat, NEW s, v = y + z, s = x + v
          PROVE  s = x + y + z
      BY <3>1
    <3> QED
      BY <1>5, <2>1, <2>2, <2>3, <3>1
  <2>5. num' = quo' * difficulty' + carry'
    BY <1>7, <2>4, Zenon
  <2>6. carry' < difficulty'
    BY <1>1, <1>5, <1>7
  <2> QED
    BY <2>5, <2>6 DEF DivisionExact
<1>11. Room'
  BY <1>7 DEF IndInv, Room
<1> QED
  BY <1>9, <1>10, <1>11 DEF IndInv

(* The target of the network is made of bytes too, and clamping chooses    *)
(* between two targets.                                                    *)
LEMMA RegisterChannelOK ==
    ASSUME IndInv, NEW bits \in NBits, RegisterChannel(bits)
    PROVE  IndInv'
<1>1. CompactToTargetBe(bits) \in [1 .. Width -> 0 .. Byte - 1]
  BY CompactType DEF Bytes
<1>2. target_be' \in [1 .. Width -> 0 .. Byte - 1]
  BY <1>1 DEF IndInv, TypeOK, RegisterChannel, Clamped
<1>3. TypeOK'
  BY <1>2 DEF IndInv, TypeOK, RegisterChannel
<1>4. DivisionExact' /\ Room'
  BY DEF IndInv, DivisionExact, Room, RegisterChannel
<1> QED
  BY <1>3, <1>4 DEF IndInv

(* Every step keeps the invariant.                                         *)
LEMMA NextOK == IndInv /\ [Next]_targetVars => IndInv'
<1> SUFFICES ASSUME IndInv, [Next]_targetVars PROVE IndInv'
  OBVIOUS
<1>1. CASE UNCHANGED targetVars
  BY <1>1 DEF targetVars, IndInv, TypeOK, DivisionExact, Room
<1>2. CASE \E rate \in Rates : OpenChannel(rate)
  BY <1>2, OpenChannelOK
<1>3. CASE DivideByte
  BY <1>3, DivideByteOK
<1>4. CASE \E bits \in NBits : RegisterChannel(bits)
  BY <1>4, RegisterChannelOK
<1> QED
  BY <1>1, <1>2, <1>3, <1>4 DEF Next

(* Every variable of the channel's target keeps its type; in particular    *)
(* each quotient hashrate_to_target_be stores is a byte.                   *)
THEOREM TypeCorrect == Spec => []TypeOK
<1>1. IndInv => TypeOK
  BY DEF IndInv
<1> QED
  BY <1>1, InitOK, NextOK, PTL DEF Spec

(* The long division of hashrate_to_target_be is exact after every byte,   *)
(* for every declared rate whose difficulty leaves the accumulator room    *)
(* for one more byte.                                                      *)
THEOREM DivisionIsExact == Spec => []DivisionExact
<1>1. IndInv => DivisionExact
  BY DEF IndInv
<1> QED
  BY <1>1, InitOK, NextOK, PTL DEF Spec

-----------------------------------------------------------------------------
(* ---- The target of the channel ---- *)

(* The bytes behind the loop make up num and quo, those before it are      *)
(* still the difficulty-1 target's.                                        *)
Divided ==
    stage # "open" =>
        /\ num = Prefix(PDiff1, pos) /\ quo = Prefix(target_be, pos)
        /\ \A i \in pos + 1 .. Width : target_be[i] = PDiff1[i]

(* An open channel's target is the quotient or the network's target, and   *)
(* never below the network's.                                              *)
Opened ==
    stage = "open" =>
        /\ nbits \in NBits
        /\ ~Less(target_be, CompactToTargetBe(nbits))
        /\ \/ target_be = CompactToTargetBe(nbits)
           \/ BigEndian(target_be) = BigEndian(PDiff1) \div difficulty

TargetInv == IndInv /\ Divided /\ Opened

(* One turn of the loop puts the next byte of the quotient behind it.      *)
LEMMA DividedOK == ASSUME TargetInv, DivideByte PROVE Divided'
<1> DEFINE digit == target_be'[pos + 1]
           b == target_be[pos + 1]
<1>0. IndInv /\ IndInv' /\ Divided
  BY DivideByteOK DEF TargetInv
<1>1. /\ target_be \in Bytes /\ target_be' \in Bytes
      /\ pos \in 0 .. Width - 1 /\ pos' = pos + 1 /\ stage = "divide" /\ stage' = "divide"
      /\ Width \in Nat
  <2>1. target_be \in Bytes /\ target_be' \in Bytes /\ pos \in 0 .. Width /\ Width \in Nat
    BY <1>0, Sizes DEF IndInv, TypeOK, Bytes
  <2>2. pos < Width /\ pos' = pos + 1 /\ stage = "divide" /\ stage' = "divide"
    BY DEF DivideByte
  <2> QED
    BY <2>1, <2>2
<1>2. /\ num' = num * Byte + b /\ quo' = quo * Byte + digit
      /\ \A i \in 1 .. Width : i # pos + 1 => target_be'[i] = target_be[i]
  BY <1>1 DEF DivideByte, Bytes
<1>3. /\ num = Prefix(PDiff1, pos) /\ quo = Prefix(target_be, pos)
      /\ \A i \in pos + 1 .. Width : target_be[i] = PDiff1[i]
  BY <1>0, <1>1 DEF Divided
<1>4. b = PDiff1[pos + 1]
  BY <1>1, <1>3
<1>5. num' = Prefix(PDiff1, pos + 1)
  BY <1>1, <1>2, <1>3, <1>4, PDiff1Type, PrefixStep
<1>6. Prefix(target_be', pos) = Prefix(target_be, pos)
  <2>1. pos \in 0 .. Width /\ \A i \in 1 .. pos : target_be'[i] = target_be[i]
    BY <1>1, <1>2
  <2> QED
    BY <1>1, <2>1, PrefixEqual
<1>7. quo' = Prefix(target_be', pos + 1)
  <2>1. Prefix(target_be', pos + 1) = Prefix(target_be', pos) * Byte + digit
    BY <1>1, PrefixStep
  <2> QED
    BY <1>2, <1>3, <1>6, <2>1
<1>8. \A i \in pos + 2 .. Width : target_be'[i] = PDiff1[i]
  BY <1>1, <1>2, <1>3
<1>9. pos' + 1 = pos + 2
  BY <1>1
<1> QED
  BY <1>1, <1>5, <1>7, <1>8, <1>9 DEF Divided

(* What the loop leaves in place is the quotient.                          *)
LEMMA QuotientLeft ==
    ASSUME TargetInv, stage = "divide", pos = Width
    PROVE  BigEndian(target_be) = BigEndian(PDiff1) \div difficulty
<1>1. /\ target_be \in Bytes /\ difficulty \in Nat \ {0} /\ carry \in Nat
      /\ num \in Nat /\ quo \in Nat /\ num = quo * difficulty + carry /\ carry < difficulty
  BY DEF TargetInv, IndInv, TypeOK, DivisionExact, Bytes
<1>2. num = BigEndian(PDiff1) /\ quo = BigEndian(target_be)
  BY <1>1, PDiff1Type, PrefixStep DEF TargetInv, Divided
<1>3. quo = num \div difficulty
  BY <1>1, QuotientUnique
<1> QED
  BY <1>2, <1>3

(* Every step keeps it.                                                    *)
LEMMA TargetOK == TargetInv /\ [Next]_targetVars => TargetInv'
<1> SUFFICES ASSUME TargetInv, [Next]_targetVars PROVE TargetInv'
  OBVIOUS
<1>0. IndInv /\ IndInv' /\ Divided /\ Opened
  BY NextOK DEF TargetInv
<1>1. CASE UNCHANGED targetVars
  <2>1. Divided' /\ Opened'
    BY <1>0, <1>1 DEF targetVars, Divided, Opened
  <2> QED
    BY <1>0, <2>1 DEF TargetInv
<1>2. ASSUME NEW rate \in Rates, OpenChannel(rate) PROVE TargetInv'
  <2>1. Divided' /\ Opened'
    BY <1>0, <1>2 DEF OpenChannel, Divided, Opened
  <2> QED
    BY <1>0, <2>1 DEF TargetInv
<1>3. CASE DivideByte
  <2>1. Opened'
    BY <1>3 DEF DivideByte, Opened
  <2> QED
    BY <1>0, <1>3, <2>1, DividedOK DEF TargetInv
<1>4. ASSUME NEW bits \in NBits, RegisterChannel(bits) PROVE TargetInv'
  <2> DEFINE n == CompactToTargetBe(bits)
  <2>1. /\ stage' = "open" /\ nbits' = bits /\ difficulty' = difficulty
        /\ target_be' = IF Less(target_be, n) THEN n ELSE target_be
    BY <1>4 DEF RegisterChannel, Clamped
  <2>2. BigEndian(target_be) = BigEndian(PDiff1) \div difficulty
    BY <1>4, QuotientLeft DEF RegisterChannel
  <2>3. ~Less(n, n)
    <3>1. n \in Bytes
      BY CompactType
    <3>2. \A i \in DOMAIN n : n[i] \in Int
      BY <3>1 DEF Bytes
    <3> HIDE DEF n
    <3> QED
      BY <3>2 DEF Less
  <2>4. ~Less(target_be', n) /\ (target_be' = n \/ target_be' = target_be)
    <3> HIDE DEF n
    <3>1. CASE Less(target_be, n)
      BY <2>1, <2>3, <3>1
    <3>2. CASE ~Less(target_be, n)
      BY <2>1, <3>2
    <3> QED
      BY <3>1, <3>2
  <2>5. Opened'
    <3>1. CompactToTargetBe(nbits') = n
      BY <2>1
    <3> HIDE DEF n
    <3> QED
      BY <2>1, <2>2, <2>4, <3>1 DEF Opened
  <2>6. Divided'
    BY <2>1 DEF Divided
  <2> QED
    BY <1>0, <2>5, <2>6 DEF TargetInv
<1> QED
  BY <1>1, <1>2, <1>3, <1>4 DEF Next

(* The invariant holds in every state.                                     *)
LEMMA TargetInvariance == Spec => []TargetInv
<1>1. Init => TargetInv
  <2> SUFFICES ASSUME Init PROVE TargetInv
    OBVIOUS
  <2>1. Prefix(PDiff1, 0) = 0
    BY PDiff1Type, PrefixStep
  <2>2. Divided /\ Opened
    BY <2>1 DEF Init, Divided, Opened
  <2> QED
    BY <2>2, InitOK DEF TargetInv
<1> QED
  BY <1>1, TargetOK, PTL DEF Spec

(* The target the loop leaves in place is the difficulty-1 target divided  *)
(* by the difficulty of the declared rate, rounded down, whatever the      *)
(* number of bytes.                                                        *)
THEOREM QuotientIsTarget == Spec => []TargetIsQuotient
<1>1. TargetInv => TargetIsQuotient
  BY QuotientLeft DEF TargetIsQuotient
<1> QED
  BY <1>1, TargetInvariance, PTL

-----------------------------------------------------------------------------
(* ---- The order of byte strings ---- *)

(* x is below y among the first k bytes, and is y there.                   *)
Below(x, y, k) ==
    \E i \in 1 .. k : x[i] < y[i] /\ \A j \in 1 .. i - 1 : x[j] = y[j]
Same(x, y, k) == \A j \in 1 .. k : x[j] = y[j]

(* Strings of bytes are ordered as the numbers they stand for.             *)
LEMMA PrefixOrder ==
    ASSUME NEW x \in Bytes, NEW y \in Bytes, NEW k \in 0 .. Width
    PROVE  \/ Same(x, y, k) /\ Prefix(x, k) = Prefix(y, k)
           \/ Below(x, y, k) /\ Prefix(x, k) < Prefix(y, k)
           \/ Below(y, x, k) /\ Prefix(y, k) < Prefix(x, k)
<1> DEFINE Good(n) == \/ Same(x, y, n) /\ Prefix(x, n) = Prefix(y, n)
                      \/ Below(x, y, n) /\ Prefix(x, n) < Prefix(y, n)
                      \/ Below(y, x, n) /\ Prefix(y, n) < Prefix(x, n)
           P == {n \in Nat : n <= k => Good(n)}
<1>0. k \in Nat /\ k <= Width /\ Width \in Nat /\ Byte \in Nat \ {0}
  BY Sizes
<1>1. 0 \in P
  <2>1. Same(x, y, 0) /\ Prefix(x, 0) = Prefix(y, 0)
    BY PrefixStep DEF Same
  <2> QED
    BY <2>1
<1>2. ASSUME NEW n \in Nat, n \in P PROVE n + 1 \in P
  <2> SUFFICES ASSUME n + 1 <= k PROVE Good(n + 1)
    OBVIOUS
  <2>1. n \in 0 .. Width - 1 /\ n + 1 \in 1 .. Width /\ n <= k /\ n \in 0 .. Width
    BY <1>0
  <2> DEFINE p == Prefix(x, n)
             q == Prefix(y, n)
             a == x[n + 1]
             b == y[n + 1]
  <2>2. p \in Nat /\ q \in Nat /\ a \in 0 .. Byte - 1 /\ b \in 0 .. Byte - 1
    BY <2>1, PrefixType DEF Bytes
  <2>3. Prefix(x, n + 1) = p * Byte + a /\ Prefix(y, n + 1) = q * Byte + b
    BY <2>1, PrefixStep
  <2>4. Good(n)
    BY <1>2, <2>1
  <2>5. ASSUME NEW u \in Bytes, NEW v \in Bytes, Below(u, v, n) PROVE Below(u, v, n + 1)
    <3>1. PICK i \in 1 .. n : u[i] < v[i] /\ \A j \in 1 .. i - 1 : u[j] = v[j]
      BY <2>5 DEF Below
    <3>2. i \in 1 .. n + 1
      OBVIOUS
    <3> QED
      BY <3>1, <3>2 DEF Below
  <2>6. ASSUME NEW u \in Bytes, NEW v \in Bytes, Same(u, v, n), u[n + 1] < v[n + 1]
        PROVE  Below(u, v, n + 1)
    <3>1. n + 1 \in 1 .. n + 1 /\ (n + 1) - 1 = n
      OBVIOUS
    <3> QED
      BY <2>6, <3>1 DEF Below, Same
  <2>7. ASSUME NEW u \in Nat, NEW v \in Nat, u < v,
               NEW c \in 0 .. Byte - 1, NEW d \in 0 .. Byte - 1
        PROVE  u * Byte + c < v * Byte + d
    <3>1. (u + 1) * Byte <= v * Byte
      BY <1>0, <2>7, Z3
    <3>2. (u + 1) * Byte = u * Byte + Byte /\ u * Byte \in Nat /\ v * Byte \in Nat
      BY <1>0
    <3> QED
      BY <1>0, <3>1, <3>2
  <2>8. CASE Same(x, y, n) /\ p = q
    <3>1. p * Byte \in Nat
      BY <1>0, <2>2
    <3>2. CASE a = b
      <4>1. Same(x, y, n + 1)
        BY <2>8, <3>2 DEF Same
      <4> QED
        BY <2>3, <2>8, <3>2, <4>1
    <3>3. CASE a < b
      <4>1. p * Byte + a < q * Byte + b
        BY <2>2, <2>8, <3>1, <3>3
      <4> QED
        BY <2>3, <2>6, <2>8, <3>3, <4>1
    <3>4. CASE b < a
      <4>1. q * Byte + b < p * Byte + a
        BY <2>2, <2>8, <3>1, <3>4
      <4>2. Same(y, x, n)
        BY <2>8 DEF Same
      <4> QED
        BY <2>3, <2>6, <3>4, <4>1, <4>2
    <3> QED
      BY <2>2, <3>2, <3>3, <3>4
  <2>9. CASE Below(x, y, n) /\ p < q
    BY <2>2, <2>3, <2>5, <2>7, <2>9
  <2>10. CASE Below(y, x, n) /\ q < p
    BY <2>2, <2>3, <2>5, <2>7, <2>10
  <2> QED
    BY <2>4, <2>8, <2>9, <2>10
<1> HIDE DEF P
<1>3. \A n \in Nat : n \in P
  BY <1>1, <1>2, Numbers!NatInduct
<1>4. Good(k)
  BY <1>0, <1>3 DEF P
<1> QED
  BY <1>4

(* So the lexicographic comparison of the code compares numbers.           *)
LEMMA LessIsBelow ==
    ASSUME NEW x \in Bytes, NEW y \in Bytes
    PROVE  Less(x, y) <=> BigEndian(x) < BigEndian(y)
<1>0. Width \in Nat /\ Width \in 0 .. Width /\ DOMAIN x = 1 .. Width
  BY Sizes DEF Bytes
<1>1. /\ Prefix(x, Width) = BigEndian(x) /\ Prefix(y, Width) = BigEndian(y)
      /\ BigEndian(x) \in Nat /\ BigEndian(y) \in Nat
  <2>1. Prefix(x, Width) \in Nat /\ Prefix(y, Width) \in Nat
    BY <1>0, PrefixType
  <2> QED
    BY <2>1, PrefixStep
<1>2. Less(x, y) <=> Below(x, y, Width)
  BY <1>0 DEF Less, Below
<1>3. \A i \in 1 .. Width : x[i] \in Int /\ y[i] \in Int
  BY DEF Bytes
<1>4. ~(Below(x, y, Width) /\ Below(y, x, Width)) /\ ~(Below(x, y, Width) /\ Same(x, y, Width))
  <2>1. ASSUME Below(x, y, Width), Below(y, x, Width) PROVE FALSE
    <3>1. PICK i \in 1 .. Width : x[i] < y[i] /\ \A j \in 1 .. i - 1 : x[j] = y[j]
      BY <2>1 DEF Below
    <3>2. PICK l \in 1 .. Width : y[l] < x[l] /\ \A j \in 1 .. l - 1 : y[j] = x[j]
      BY <2>1 DEF Below
    <3>3. i \in Int /\ l \in Int /\ 1 <= i /\ 1 <= l
      BY <1>0
    <3>4. CASE i < l
      <4>1. i \in 1 .. l - 1
        BY <3>3, <3>4
      <4> QED
        BY <1>3, <3>1, <3>2, <4>1
    <3>5. CASE l < i
      <4>1. l \in 1 .. i - 1
        BY <3>3, <3>5
      <4> QED
        BY <1>3, <3>1, <3>2, <4>1
    <3>6. CASE i = l
      BY <1>3, <3>1, <3>2, <3>6
    <3> QED
      BY <3>3, <3>4, <3>5, <3>6
  <2>2. ASSUME Below(x, y, Width), Same(x, y, Width) PROVE FALSE
    <3>1. PICK i \in 1 .. Width : x[i] < y[i]
      BY <2>2 DEF Below
    <3>2. x[i] = y[i]
      BY <2>2 DEF Same
    <3> QED
      BY <1>3, <3>1, <3>2
  <2> QED
    BY <2>1, <2>2
<1>5. \/ Same(x, y, Width) /\ BigEndian(x) = BigEndian(y)
      \/ Below(x, y, Width) /\ BigEndian(x) < BigEndian(y)
      \/ Below(y, x, Width) /\ BigEndian(y) < BigEndian(x)
  BY <1>0, <1>1, PrefixOrder
<1> QED
  BY <1>1, <1>2, <1>4, <1>5

(* The digits of a byte are ordered as the byte.                           *)
LEMMA DigitOrder ==
    ASSUME NEW a \in 0 .. Byte - 1, NEW b \in 0 .. Byte - 1
    PROVE  /\ a < b <=> \/ a \div Hex < b \div Hex
                        \/ a \div Hex = b \div Hex /\ a % Hex < b % Hex
           /\ a = b <=> a \div Hex = b \div Hex /\ a % Hex = b % Hex
           /\ a \div Hex \in Nat /\ b \div Hex \in Nat /\ a % Hex \in Nat /\ b % Hex \in Nat
<1> DEFINE p == a \div Hex
           r == a % Hex
           q == b \div Hex
           s == b % Hex
<1>0. a \in Nat /\ b \in Nat /\ Hex \in Nat \ {0}
  <2>1. Hex # 0
    BY TargetAssumption
  <2> QED
    BY <2>1, TargetAssumption
<1>1. /\ p \in Nat /\ q \in Nat /\ r \in 0 .. Hex - 1 /\ s \in 0 .. Hex - 1
      /\ a = p * Hex + r /\ b = q * Hex + s
  BY <1>0, DivMod
<1> HIDE DEF p, q, r, s
<1>2. ASSUME NEW u \in Nat, NEW v \in Nat, u < v, NEW c \in 0 .. Hex - 1, NEW d \in 0 .. Hex - 1
      PROVE  u * Hex + c < v * Hex + d
  <2>1. (u + 1) * Hex <= v * Hex
    BY <1>0, <1>2, Z3
  <2>2. (u + 1) * Hex = u * Hex + Hex /\ u * Hex \in Nat /\ v * Hex \in Nat
    BY <1>0
  <2> QED
    BY <1>0, <2>1, <2>2
<1>3. p < q => a < b
  BY <1>1, <1>2
<1>4. q < p => b < a
  BY <1>1, <1>2
<1>5. p = q => (a < b <=> r < s) /\ (a = b <=> r = s)
  <2>1. SUFFICES ASSUME p = q PROVE (a < b <=> r < s) /\ (a = b <=> r = s)
    OBVIOUS
  <2>2. p * Hex \in Nat /\ a = p * Hex + r /\ b = p * Hex + s
    BY <1>0, <1>1, <2>1
  <2> QED
    BY <1>1, <2>2
<1>6. a < b <=> p < q \/ (p = q /\ r < s)
  BY <1>0, <1>1, <1>3, <1>4, <1>5
<1>7. a = b <=> p = q /\ r = s
  BY <1>0, <1>1, <1>3, <1>4, <1>5
<1> QED
  BY <1>1, <1>6, <1>7 DEF p, q, r, s

(* Nor does it matter that the code compares hex strings.                  *)
LEMMA HexOrder ==
    ASSUME NEW x \in Bytes, NEW y \in Bytes
    PROVE  Less(HexEncode(x), HexEncode(y)) <=> Less(x, y)
<1> DEFINE X == HexEncode(x)
           Y == HexEncode(y)
<1>0. /\ Width \in Nat /\ DOMAIN x = 1 .. Width /\ DOMAIN y = 1 .. Width
      /\ Len(x) = Width /\ Len(y) = Width
  BY Sizes DEF Bytes
<1>1. DOMAIN X = 1 .. 2 * Width /\ DOMAIN Y = 1 .. 2 * Width
  BY <1>0 DEF HexEncode
<1>2. ASSUME NEW i \in 1 .. Width
      PROVE  /\ 2 * i - 1 \in 1 .. 2 * Width /\ 2 * i \in 1 .. 2 * Width
             /\ X[2 * i - 1] = x[i] \div Hex /\ X[2 * i] = x[i] % Hex
             /\ Y[2 * i - 1] = y[i] \div Hex /\ Y[2 * i] = y[i] % Hex
  <2>1. /\ 2 * i - 1 \in 1 .. 2 * Width /\ 2 * i \in 1 .. 2 * Width
        /\ (2 * i - 1) % 2 = 1 /\ ((2 * i - 1) + 1) \div 2 = i
        /\ (2 * i) % 2 = 0 /\ (2 * i) \div 2 = i
    BY <1>0
  <2> QED
    BY <1>0, <2>1 DEF HexEncode
<1>3. ASSUME NEW p \in 1 .. 2 * Width
      PROVE  \E i \in 1 .. Width : p = 2 * i - 1 \/ p = 2 * i
  <2>1. CASE p % 2 = 0
    <3>1. p \div 2 \in 1 .. Width /\ p = 2 * (p \div 2)
      BY <1>0, <2>1
    <3> QED
      BY <3>1
  <2>2. CASE p % 2 # 0
    <3>1. (p + 1) \div 2 \in 1 .. Width /\ p = 2 * ((p + 1) \div 2) - 1
      BY <1>0, <2>2
    <3> QED
      BY <3>1
  <2> QED
    BY <2>1, <2>2
<1>4. \A i \in 1 .. Width : x[i] \in 0 .. Byte - 1 /\ y[i] \in 0 .. Byte - 1
  BY DEF Bytes
<1> HIDE DEF X, Y
<1>5. ASSUME Less(x, y) PROVE Less(X, Y)
  <2>1. PICK i \in 1 .. Width : x[i] < y[i] /\ \A j \in 1 .. i - 1 : x[j] = y[j]
    BY <1>0, <1>5 DEF Less
  <2>2. ASSUME NEW p \in 1 .. 2 * i - 2 PROVE X[p] = Y[p]
    <3>1. p \in 1 .. 2 * Width
      BY <1>0
    <3>2. PICK j \in 1 .. Width : p = 2 * j - 1 \/ p = 2 * j
      BY <1>3, <3>1
    <3>3. j \in 1 .. i - 1
      BY <1>0, <3>2
    <3>4. x[j] = y[j]
      BY <2>1, <3>3
    <3> QED
      BY <1>2, <3>2, <3>4
  <2>3. \/ x[i] \div Hex < y[i] \div Hex
        \/ x[i] \div Hex = y[i] \div Hex /\ x[i] % Hex < y[i] % Hex
    BY <1>4, <2>1, DigitOrder
  <2>4. CASE x[i] \div Hex < y[i] \div Hex
    <3>1. X[2 * i - 1] < Y[2 * i - 1] /\ 2 * i - 1 \in DOMAIN X
      BY <1>1, <1>2, <2>4
    <3>2. (2 * i - 1) - 1 = 2 * i - 2
      BY <1>0
    <3> QED
      BY <2>2, <3>1, <3>2 DEF Less
  <2>5. CASE x[i] \div Hex = y[i] \div Hex /\ x[i] % Hex < y[i] % Hex
    <3>1. X[2 * i] < Y[2 * i] /\ 2 * i \in DOMAIN X /\ X[2 * i - 1] = Y[2 * i - 1]
      BY <1>1, <1>2, <2>5
    <3>2. \A p \in 1 .. 2 * i - 1 : p = 2 * i - 1 \/ p \in 1 .. 2 * i - 2
      BY <1>0
    <3>3. \A p \in 1 .. 2 * i - 1 : X[p] = Y[p]
      BY <2>2, <3>1, <3>2
    <3> QED
      BY <3>1, <3>3 DEF Less
  <2> QED
    BY <2>3, <2>4, <2>5
<1>6. ASSUME Less(X, Y) PROVE Less(x, y)
  <2>1. PICK p \in 1 .. 2 * Width : X[p] < Y[p] /\ \A q \in 1 .. p - 1 : X[q] = Y[q]
    BY <1>1, <1>6 DEF Less
  <2>2. PICK i \in 1 .. Width : p = 2 * i - 1 \/ p = 2 * i
    BY <1>3
  <2>3. ASSUME NEW j \in 1 .. i - 1 PROVE x[j] = y[j]
    <3>1. j \in 1 .. Width /\ 2 * j - 1 \in 1 .. p - 1 /\ 2 * j \in 1 .. p - 1
      BY <1>0, <2>2
    <3>2. X[2 * j - 1] = Y[2 * j - 1] /\ X[2 * j] = Y[2 * j]
      BY <2>1, <3>1
    <3>3. x[j] \div Hex = y[j] \div Hex /\ x[j] % Hex = y[j] % Hex
      BY <1>2, <3>1, <3>2
    <3> QED
      BY <1>4, <3>1, <3>3, DigitOrder
  <2>4. x[i] < y[i]
    <3>1. CASE p = 2 * i - 1
      <4>1. x[i] \div Hex < y[i] \div Hex
        BY <1>2, <2>1, <3>1
      <4> QED
        BY <1>4, <4>1, DigitOrder
    <3>2. CASE p = 2 * i
      <4>1. 2 * i - 1 \in 1 .. p - 1
        BY <1>0, <3>2
      <4>2. X[2 * i - 1] = Y[2 * i - 1]
        BY <2>1, <4>1
      <4>3. x[i] \div Hex = y[i] \div Hex /\ x[i] % Hex < y[i] % Hex
        BY <1>2, <2>1, <3>2, <4>2
      <4> QED
        BY <1>4, <4>3, DigitOrder
    <3> QED
      BY <2>2, <3>1, <3>2
  <2> QED
    BY <1>0, <2>3, <2>4 DEF Less
<1> QED
  BY <1>5, <1>6 DEF X, Y

(* A share meets a target exactly if it is not above it as a number.       *)
LEMMA MeetsIsAtMost ==
    ASSUME NEW x \in Bytes, NEW t \in Bytes
    PROVE  Meets(x, t) <=> BigEndian(x) <= BigEndian(t)
<1>1. BigEndian(x) \in Nat /\ BigEndian(t) \in Nat
  <2>1. Width \in 0 .. Width
    BY Sizes
  <2>2. Prefix(x, Width) \in Nat /\ Prefix(t, Width) \in Nat
    BY <2>1, PrefixType
  <2> QED
    BY <2>2, PrefixStep
<1>2. Less(HexEncode(t), HexEncode(x)) <=> BigEndian(t) < BigEndian(x)
  BY HexOrder, LessIsBelow
<1> QED
  BY <1>1, <1>2 DEF Meets

(* Turning an array of bytes around twice gives it back.                   *)
LEMMA Reversed ==
    ASSUME NEW x \in Bytes
    PROVE  Reverse(x) \in Bytes /\ Reverse(Reverse(x)) = x
<1>0. Width \in Nat /\ Len(x) = Width /\ x = [i \in 1 .. Width |-> x[i]]
  BY Sizes DEF Bytes
<1>1. ASSUME NEW i \in 1 .. Width PROVE (Width - i) + 1 \in 1 .. Width /\ x[i] \in 0 .. Byte - 1
  BY <1>0 DEF Bytes
<1> DEFINE y == [i \in 1 .. Width |-> x[(Width - i) + 1]]
<1>2. Reverse(x) = y
  BY <1>0 DEF Reverse
<1>3. y \in Bytes /\ Len(y) = Width
  BY <1>0, <1>1 DEF Bytes
<1>4. ASSUME NEW i \in 1 .. Width PROVE y[(Width - i) + 1] = x[i]
  <2>1. (Width - ((Width - i) + 1)) + 1 = i
    BY <1>0
  <2> QED
    BY <1>1, <2>1
<1> HIDE DEF y
<1>5. Reverse(y) = [i \in 1 .. Width |-> y[(Width - i) + 1]]
  BY <1>3 DEF Reverse
<1>6. Reverse(y) = x
  BY <1>0, <1>4, <1>5
<1> QED
  BY <1>2, <1>3, <1>6

(* The server and the miner agree on every share: comparing hex strings of *)
(* reversed arrays is comparing the little-endian numbers that the miner   *)
(* compares.                                                               *)
THEOREM VerdictsAgree == Spec => []SameVerdict
<1>1. TargetInv => SameVerdict
  <2> SUFFICES ASSUME TargetInv, NEW hash \in Hashes
               PROVE  Meets(Reverse(hash), target_be)
                      <=> LittleEndian(hash) <= LittleEndian(TargetBeToSv2(target_be))
    BY DEF SameVerdict
  <2>1. hash \in Bytes /\ target_be \in Bytes
    BY DEF Hashes, Bytes, TargetInv, IndInv, TypeOK
  <2>2. Reverse(hash) \in Bytes /\ Reverse(Reverse(target_be)) = target_be
    BY <2>1, Reversed
  <2>3. Meets(Reverse(hash), target_be) <=> BigEndian(Reverse(hash)) <= BigEndian(target_be)
    BY <2>1, <2>2, MeetsIsAtMost
  <2> QED
    BY <2>2, <2>3 DEF LittleEndian, TargetBeToSv2
<1> QED
  BY <1>1, TargetInvariance, PTL

-----------------------------------------------------------------------------
(* ---- Powers of the base ---- *)

(* The bytes behind the first k are worth less than one unit of the k-th.  *)
LEMMA PrefixBounds ==
    ASSUME NEW x \in Bytes, NEW k \in 0 .. Width, NEW d \in 0 .. Width - k
    PROVE  /\ Prefix(x, k) * Power(d) <= Prefix(x, k + d)
           /\ Prefix(x, k + d) < (Prefix(x, k) + 1) * Power(d)
<1> DEFINE v == Prefix(x, k)
           Good(n) == v * Power(n) <= Prefix(x, k + n) /\ Prefix(x, k + n) < (v + 1) * Power(n)
           P == {n \in Nat : n <= Width - k => Good(n)}
<1>0. k \in Nat /\ k <= Width /\ Width \in Nat /\ Byte \in Nat \ {0} /\ v \in Nat
  BY Sizes, PrefixType
<1>1. 0 \in P
  <2>1. Power(0) = 1 /\ k + 0 = k
    BY <1>0, PowerStep
  <2> QED
    BY <1>0, <2>1
<1>2. ASSUME NEW n \in Nat, n \in P PROVE n + 1 \in P
  <2> SUFFICES ASSUME n + 1 <= Width - k PROVE Good(n + 1)
    OBVIOUS
  <2>1. k + n \in 0 .. Width - 1 /\ k + (n + 1) = (k + n) + 1 /\ n <= Width - k /\ k + n \in 0 .. Width
        /\ (k + n) + 1 \in 1 .. Width
    BY <1>0
  <2> DEFINE w == Prefix(x, k + n)
             b == x[(k + n) + 1]
             p == Power(n)
  <2>2. w \in Nat /\ p \in Nat /\ b \in 0 .. Byte - 1
    BY <2>1, PrefixType, PowerType DEF Bytes
  <2>3. Prefix(x, k + (n + 1)) = w * Byte + b /\ Power(n + 1) = p * Byte
    BY <2>1, PrefixStep, PowerStep
  <2>4. v * p <= w /\ w < (v + 1) * p
    BY <1>2, <2>1
  <2> HIDE DEF v, w, b, p
  <2>5. v * (p * Byte) <= w * Byte + b
    <3>1. (v * p) * Byte <= w * Byte
      BY <1>0, <2>2, <2>4, Z3
    <3>2. v * (p * Byte) = (v * p) * Byte /\ w * Byte \in Nat /\ (v * p) * Byte \in Nat
      BY <1>0, <2>2
    <3> QED
      BY <1>0, <2>2, <3>1, <3>2
  <2>6. w * Byte + b < (v + 1) * (p * Byte)
    <3>1. (w + 1) * Byte <= ((v + 1) * p) * Byte
      <4>1. w + 1 <= (v + 1) * p /\ (v + 1) * p \in Nat
        BY <1>0, <2>2, <2>4
      <4> QED
        BY <1>0, <2>2, <4>1, Z3
    <3>2. ((v + 1) * p) * Byte = (v + 1) * (p * Byte) /\ (v + 1) * (p * Byte) \in Nat
      BY <1>0, <2>2
    <3>3. (w + 1) * Byte = w * Byte + Byte /\ w * Byte \in Nat
      BY <1>0, <2>2
    <3> QED
      BY <1>0, <2>2, <3>1, <3>2, <3>3
  <2> QED
    BY <2>3, <2>5, <2>6
<1> HIDE DEF P
<1>3. \A n \in Nat : n \in P
  BY <1>1, <1>2, Numbers!NatInduct
<1>4. d \in Nat /\ d <= Width - k
  BY <1>0
<1>5. Good(d)
  BY <1>3, <1>4 DEF P
<1> QED
  BY <1>5

(* Zero bytes only move what is before them.                               *)
LEMMA PrefixZeros ==
    ASSUME NEW x \in Bytes, NEW k \in 0 .. Width, NEW d \in 0 .. Width - k,
           \A i \in k + 1 .. k + d : x[i] = 0
    PROVE  Prefix(x, k + d) = Prefix(x, k) * Power(d)
<1> DEFINE v == Prefix(x, k)
           P == {n \in Nat : n <= d => Prefix(x, k + n) = v * Power(n)}
<1>0. /\ k \in Nat /\ k <= Width /\ Width \in Nat /\ Byte \in Nat \ {0} /\ v \in Nat
      /\ d \in Nat /\ k + d <= Width
  BY Sizes, PrefixType
<1>1. 0 \in P
  <2>1. Power(0) = 1 /\ k + 0 = k
    BY <1>0, PowerStep
  <2> QED
    BY <1>0, <2>1
<1>2. ASSUME NEW n \in Nat, n \in P PROVE n + 1 \in P
  <2> SUFFICES ASSUME n + 1 <= d PROVE Prefix(x, k + (n + 1)) = v * Power(n + 1)
    OBVIOUS
  <2>1. k + n \in 0 .. Width - 1 /\ k + (n + 1) = (k + n) + 1 /\ n <= d /\ (k + n) + 1 \in k + 1 .. k + d
    BY <1>0
  <2> DEFINE p == Power(n)
  <2>2. p \in Nat
    BY PowerType
  <2>3. Prefix(x, (k + n) + 1) = Prefix(x, k + n) * Byte + 0
    BY <2>1, PrefixStep
  <2>4. Prefix(x, k + n) = v * p /\ Power(n + 1) = p * Byte
    BY <1>2, <2>1, PowerStep
  <2> HIDE DEF v, p
  <2>5. (v * p) * Byte + 0 = v * (p * Byte)
    BY <1>0, <2>2
  <2> QED
    BY <2>1, <2>3, <2>4, <2>5
<1> HIDE DEF P
<1>3. \A n \in Nat : n \in P
  BY <1>1, <1>2, Numbers!NatInduct
<1>4. d <= d
  BY <1>0
<1> QED
  BY <1>0, <1>3, <1>4 DEF P

(* The value of the difficulty-1 target, and of its upper word.            *)
LEMMA PDiff1Value ==
    /\ Prefix(PDiff1, Upper) = PDIFF1_UPPER
    /\ BigEndian(PDiff1) = PDIFF1_UPPER * Power(Width - Upper)
    /\ PDIFF1_UPPER \in Nat
<1>0. /\ Byte \in Nat \ {0} /\ Lead \in Nat /\ Upper \in Nat /\ Width \in Nat
      /\ Lead + 2 <= Upper /\ Upper <= Width
  BY TargetAssumption
<1>1. /\ \A i \in 1 .. Lead : PDiff1[i] = 0
      /\ PDiff1[Lead + 1] = Byte - 1 /\ PDiff1[Lead + 2] = Byte - 1
      /\ \A i \in Lead + 3 .. Width : PDiff1[i] = 0
  BY <1>0 DEF PDiff1
<1>2. Prefix(PDiff1, Lead) = 0
  <2>1. 0 \in 0 .. Width /\ Lead \in 0 .. Width - 0 /\ 0 + Lead = Lead /\ 0 + 1 = 1
    BY <1>0
  <2>2. Prefix(PDiff1, 0 + Lead) = Prefix(PDiff1, 0) * Power(Lead)
    BY <1>1, <2>1, PDiff1Type, PrefixZeros
  <2>3. Prefix(PDiff1, 0) = 0 /\ Power(Lead) \in Nat
    BY <1>0, PDiff1Type, PrefixStep, PowerType
  <2> QED
    BY <2>1, <2>2, <2>3
<1>3. Prefix(PDiff1, Lead + 2) = Byte * Byte - 1
  <2>1. Lead \in 0 .. Width - 1 /\ Lead + 1 \in 0 .. Width - 1 /\ (Lead + 1) + 1 = Lead + 2
    BY <1>0
  <2>2. Prefix(PDiff1, Lead + 1) = 0 * Byte + (Byte - 1)
    BY <1>1, <1>2, <2>1, PDiff1Type, PrefixStep
  <2>3. Prefix(PDiff1, (Lead + 1) + 1) = Prefix(PDiff1, Lead + 1) * Byte + PDiff1[(Lead + 1) + 1]
    BY <2>1, PDiff1Type, PrefixStep
  <2>4. 0 * Byte + (Byte - 1) = Byte - 1 /\ (Byte - 1) * Byte + (Byte - 1) = Byte * Byte - 1
    BY <1>0
  <2> QED
    BY <1>1, <2>1, <2>2, <2>3, <2>4
<1>4. Prefix(PDiff1, Upper) = PDIFF1_UPPER
  <2> DEFINE d == (Upper - Lead) - 2
  <2>1. Lead + 2 \in 0 .. Width /\ d \in 0 .. Width - (Lead + 2) /\ (Lead + 2) + d = Upper
        /\ (Lead + 2) + 1 = Lead + 3
    BY <1>0
  <2>2. \A i \in (Lead + 2) + 1 .. (Lead + 2) + d : PDiff1[i] = 0
    BY <1>0, <1>1, <2>1
  <2>3. PDIFF1_UPPER = (Byte * Byte - 1) * Power(d)
    BY DEF PDIFF1_UPPER
  <2> HIDE DEF d
  <2>4. Prefix(PDiff1, (Lead + 2) + d) = Prefix(PDiff1, Lead + 2) * Power(d)
    BY <2>1, <2>2, PDiff1Type, PrefixZeros
  <2> QED
    BY <1>3, <2>1, <2>3, <2>4
<1>5. BigEndian(PDiff1) = PDIFF1_UPPER * Power(Width - Upper)
  <2> DEFINE d == Width - Upper
  <2>1. Upper \in 0 .. Width /\ d \in 0 .. Width - Upper /\ Upper + d = Width
    BY <1>0
  <2>2. \A i \in Upper + 1 .. Upper + d : PDiff1[i] = 0
    BY <1>0, <1>1, <2>1
  <2> HIDE DEF d
  <2>3. Prefix(PDiff1, Upper + d) = Prefix(PDiff1, Upper) * Power(d)
    BY <2>1, <2>2, PDiff1Type, PrefixZeros
  <2>4. Prefix(PDiff1, Width) = BigEndian(PDiff1)
    BY PDiff1Type, PrefixStep
  <2> QED
    BY <1>4, <2>1, <2>3, <2>4 DEF d
<1>6. PDIFF1_UPPER \in Nat
  <2>1. Upper \in 0 .. Width
    BY <1>0
  <2> QED
    BY <1>4, <2>1, PDiff1Type, PrefixType
<1> QED
  BY <1>4, <1>5, <1>6

(* Three digits of a number below the cube of the base.                    *)
LEMMA ThreeDigits ==
    ASSUME NEW m \in Nat, NEW B \in Nat \ {0}, m < B * B * B
    PROVE  /\ (m \div (B * B)) % B \in Nat /\ (m \div B) % B \in Nat /\ m % B \in Nat
           /\ ((((m \div (B * B)) % B) * B) + ((m \div B) % B)) * B + (m % B) = m
<1> DEFINE h == m \div (B * B)
           q == m \div B
           p == q \div B
           s == q % B
           r == m % B
<1>0. B * B \in Nat \ {0}
  OBVIOUS
<1>1. q \in Nat /\ r \in 0 .. B - 1 /\ m = q * B + r
  BY DivMod
<1>2. h \in Nat
  BY <1>0, DivMod
<1> HIDE DEF q
<1>3. p \in Nat /\ s \in 0 .. B - 1 /\ q = p * B + s
  BY <1>1, DivMod
<1> HIDE DEF p, s, r
<1>4. m = p * (B * B) + (s * B + r)
  <2>1. q * B = (p * B) * B + s * B
    BY <1>3
  <2>2. (p * B) * B = p * (B * B) /\ (p * B) * B \in Nat /\ s * B \in Nat
    BY <1>3
  <2> QED
    BY <1>1, <2>1, <2>2
<1>5. s * B + r \in Nat /\ s * B + r < B * B
  <2>1. s * B <= (B - 1) * B
    BY <1>3, Z3
  <2>2. (B - 1) * B = B * B - B /\ s * B \in Nat
    BY <1>3
  <2> QED
    BY <1>0, <1>1, <2>1, <2>2
<1>6. h = p
  BY <1>0, <1>3, <1>4, <1>5, QuotientUnique
<1>7. h < B
  <2>1. m < B * (B * B)
    OBVIOUS
  <2> QED
    BY <1>0, <2>1, QuotientBelow
<1> HIDE DEF h
<1>8. h % B = h
  BY <1>2, <1>7, RemainderOfSmaller
<1>9. (p * B + s) * B + r = m
  BY <1>1, <1>3
<1>10. ((h % B) * B + s) * B + r = m
  BY <1>6, <1>8, <1>9
<1>11. h % B \in Nat /\ s \in Nat /\ r \in Nat
  BY <1>1, <1>2, <1>3, <1>8
<1> QED
  BY <1>10, <1>11, Zenon DEF h, q, s, r

(* The array compact_to_target_be makes stands for the mantissa shifted by *)
(* the exponent.                                                           *)
LEMMA CompactValue ==
    ASSUME NEW bits \in NBits
    PROVE  BigEndian(CompactToTargetBe(bits)) = bits.mantissa * Power(bits.exp - 3)
<1> DEFINE c == CompactToTargetBe(bits)
           m == bits.mantissa
           i == Width - bits.exp
           cube == Byte * Byte * Byte
           hi == (m \div (Byte * Byte)) % Byte
           mid == (m \div Byte) % Byte
           lo == m % Byte
<1>0. /\ m \in 0 .. cube \div 2 - 1 /\ bits.exp \in 3 .. Width /\ Width \in Nat
      /\ Byte \in Nat \ {0}
  BY Sizes, TargetAssumption
<1>1. cube \in Nat /\ cube \div 2 \in Nat /\ m \in Nat /\ m < cube \div 2 /\ m < cube
  <2>1. cube \in Nat
    BY <1>0
  <2> HIDE DEF cube
  <2> QED
    BY <1>0, <2>1
<1>2. m % (cube \div 2) = m
  <2> HIDE DEF cube, m
  <2> QED
    BY <1>1, RemainderOfSmaller
<1>3. /\ c[i + 1] = hi /\ c[i + 2] = mid /\ c[i + 3] = lo
      /\ \A j \in 1 .. i : c[j] = 0
      /\ \A j \in i + 4 .. Width : c[j] = 0
  <2>1. /\ i + 1 \in 1 .. Width /\ i + 2 \in 1 .. Width /\ i + 3 \in 1 .. Width /\ i \in Nat
        /\ i + 1 # i + 2 /\ i + 1 # i + 3 /\ i + 2 # i + 3
    BY <1>0
  <2>2. c = [j \in 1 .. Width |->
               CASE bits.exp \in 3 .. Width /\ j = i + 1 -> hi
                 [] bits.exp \in 3 .. Width /\ j = i + 2 -> mid
                 [] bits.exp \in 3 .. Width /\ j = i + 3 -> lo
                 [] OTHER -> 0]
    BY <1>2 DEF CompactToTargetBe
  <2> HIDE DEF c, i, hi, mid, lo, m
  <2>3. c = [j \in 1 .. Width |-> IF j = i + 1 THEN hi ELSE IF j = i + 2 THEN mid
                                  ELSE IF j = i + 3 THEN lo ELSE 0]
    BY <1>0, <2>1, <2>2
  <2> QED
    BY <1>0, <2>1, <2>3
<1>4. hi \in Nat /\ mid \in Nat /\ lo \in Nat /\ (hi * Byte + mid) * Byte + lo = m
  BY <1>0, <1>1, ThreeDigits
<1>5. c \in Bytes
  BY CompactType
<1> HIDE DEF c, hi, mid, lo, m, cube
<1>6. Prefix(c, i) = 0
  <2>1. 0 \in 0 .. Width /\ i \in 0 .. Width - 0 /\ 0 + i = i /\ i \in Nat
    BY <1>0
  <2>2. \A j \in 0 + 1 .. 0 + i : c[j] = 0
    BY <1>3, <2>1
  <2> HIDE DEF i
  <2>3. Prefix(c, 0 + i) = Prefix(c, 0) * Power(i)
    BY <1>5, <2>1, <2>2, PrefixZeros
  <2>4. Prefix(c, 0) = 0 /\ Power(i) \in Nat
    BY <1>5, <2>1, PrefixStep, PowerType
  <2> QED
    BY <2>1, <2>3, <2>4
<1>7. Prefix(c, i + 3) = m
  <2>1. /\ i \in 0 .. Width - 1 /\ i + 1 \in 0 .. Width - 1 /\ i + 2 \in 0 .. Width - 1
        /\ (i + 1) + 1 = i + 2 /\ (i + 2) + 1 = i + 3
    BY <1>0
  <2> HIDE DEF i
  <2>2. Prefix(c, i + 1) = 0 * Byte + hi
    BY <1>3, <1>5, <1>6, <2>1, PrefixStep
  <2>3. Prefix(c, (i + 1) + 1) = Prefix(c, i + 1) * Byte + c[(i + 1) + 1]
    BY <1>5, <2>1, PrefixStep
  <2>4. Prefix(c, (i + 2) + 1) = Prefix(c, i + 2) * Byte + c[(i + 2) + 1]
    BY <1>5, <2>1, PrefixStep
  <2>5. 0 * Byte + hi = hi
    BY <1>0, <1>4
  <2>6. Prefix(c, i + 2) = hi * Byte + mid
    BY <1>3, <2>1, <2>2, <2>3, <2>5
  <2>7. Prefix(c, i + 3) = (hi * Byte + mid) * Byte + lo
    BY <1>3, <2>1, <2>4, <2>6
  <2> QED
    BY <1>4, <2>7
<1>8. Prefix(c, Width) = m * Power(bits.exp - 3)
  <2> DEFINE d == bits.exp - 3
             k == i + 3
  <2>1. k \in 0 .. Width /\ d \in 0 .. Width - k /\ k + d = Width /\ k + 1 = i + 4
    BY <1>0
  <2>2. \A j \in k + 1 .. k + d : c[j] = 0
    BY <1>3, <2>1
  <2> HIDE DEF d, k
  <2>3. Prefix(c, k + d) = Prefix(c, k) * Power(d)
    BY <1>5, <2>1, <2>2, PrefixZeros
  <2> QED
    BY <1>7, <2>1, <2>3 DEF d, k
<1>9. Prefix(c, Width) = BigEndian(c)
  BY <1>5, PrefixStep
<1> QED
  BY <1>8, <1>9 DEF c, m

(* What bytes stand for, as a natural number.                              *)
LEMMA NumberType == ASSUME NEW x \in Bytes PROVE BigEndian(x) \in Nat
<1>1. Width \in 0 .. Width
  BY Sizes
<1>2. Prefix(x, Width) \in Nat
  BY <1>1, PrefixType
<1> QED
  BY <1>2, PrefixStep

(* A hash that meets the network's target, computed from the compact bits  *)
(* by arithmetic, is accepted by the freshly opened channel and recognised *)
(* as a block, for every width and every compact target Core encodes.      *)
THEOREM BlocksAccepted == Spec => []BlocksPass
<1>1. TargetInv => BlocksPass
  <2> SUFFICES ASSUME TargetInv, stage = "open", NEW hash \in Hashes,
                      LittleEndian(hash) <= nbits.mantissa * Power(nbits.exp - 3)
               PROVE  /\ Meets(Reverse(hash), target_be)
                      /\ Meets(Reverse(hash), CompactToTargetBe(nbits))
    BY DEF BlocksPass
  <2> DEFINE h == Reverse(hash)
             n == CompactToTargetBe(nbits)
  <2>1. hash \in Bytes /\ target_be \in Bytes
    BY DEF Hashes, Bytes, TargetInv, IndInv, TypeOK
  <2>2. nbits \in NBits /\ ~Less(target_be, n)
    BY DEF TargetInv, Opened
  <2>3. h \in Bytes /\ n \in Bytes
    BY <2>1, <2>2, Reversed, CompactType
  <2>4. BigEndian(h) <= BigEndian(n)
    BY <2>2, CompactValue DEF LittleEndian
  <2> HIDE DEF h, n
  <2>5. ~(BigEndian(target_be) < BigEndian(n))
    BY <2>1, <2>2, <2>3, LessIsBelow
  <2>6. BigEndian(h) \in Nat /\ BigEndian(n) \in Nat /\ BigEndian(target_be) \in Nat
    BY <2>1, <2>3, NumberType
  <2>7. BigEndian(h) <= BigEndian(target_be)
    BY <2>4, <2>5, <2>6
  <2>8. Meets(h, target_be) /\ Meets(h, n)
    BY <2>1, <2>3, <2>4, <2>7, MeetsIsAtMost
  <2> QED
    BY <2>8 DEF h, n
<1> QED
  BY <1>1, TargetInvariance, PTL

(* Whatever a channel accepts is credited with at least the difficulty its *)
(* target stands for, or with the credit of the network's target where     *)
(* that has eased it, although only the upper word of the hash is looked   *)
(* at.                                                                     *)
THEOREM CreditIsEnough == Spec => []AcceptedIsCredited
<1>1. TargetInv => AcceptedIsCredited
  <2> SUFFICES ASSUME TargetInv, stage = "open", NEW x \in Hashes, Meets(x, target_be)
               PROVE  \/ CreditAtLeast(x, difficulty, 1)
                      \/ /\ target_be = CompactToTargetBe(nbits)
                         /\ CreditAtLeast(x, PDIFF1_UPPER, HashUpper(target_be))
    BY DEF AcceptedIsCredited
  <2> DEFINE P == Power(Width - Upper)
             U == PDIFF1_UPPER
             u == HashUpper(x)
             t == HashUpper(target_be)
             X == BigEndian(x)
             T == BigEndian(target_be)
  <2>1. x \in Bytes /\ target_be \in Bytes /\ difficulty \in Nat \ {0}
    BY DEF Hashes, Bytes, TargetInv, IndInv, TypeOK
  <2>2. /\ Upper \in 0 .. Width /\ Width - Upper \in 0 .. Width - Upper /\ Width - Upper \in Nat
        /\ Upper + (Width - Upper) = Width
    BY TargetAssumption
  <2>3. u \in Nat /\ t \in Nat /\ P \in Nat \ {0} /\ U \in Nat /\ X \in Nat /\ T \in Nat
    <3>1. Prefix(x, Upper) \in Nat /\ Prefix(target_be, Upper) \in Nat
      BY <2>1, <2>2, PrefixType
    <3> QED
      BY <2>1, <2>2, <3>1, PowerType, PDiff1Value, NumberType DEF Prefix, HashUpper
  <2>4. u * P <= X /\ T < (t + 1) * P
    <3>1. /\ Prefix(x, Upper) * P <= Prefix(x, Upper + (Width - Upper))
          /\ Prefix(target_be, Upper + (Width - Upper)) < (Prefix(target_be, Upper) + 1) * P
      BY <2>1, <2>2, PrefixBounds
    <3>2. Prefix(x, Width) = X /\ Prefix(target_be, Width) = T
      BY <2>1, PrefixStep
    <3> QED
      BY <2>2, <3>1, <3>2 DEF Prefix, HashUpper
  <2>5. X <= T
    BY <2>1, MeetsIsAtMost
  <2>6. CASE target_be = CompactToTargetBe(nbits)
    <3> HIDE DEF P, U, u, t, X, T
    <3>1. u <= t
      <4> SUFFICES ASSUME t < u PROVE FALSE
        BY <2>3
      <4>1. (t + 1) * P <= u * P
        BY <2>3, Z3
      <4>2. (t + 1) * P \in Nat /\ u * P \in Nat
        BY <2>3
      <4> QED
        BY <2>3, <2>4, <2>5, <4>1, <4>2
    <3>2. U * u <= U * t
      BY <2>3, <3>1, Z3
    <3>3. U * t >= U * u
      <4>1. U * u \in Nat /\ U * t \in Nat
        BY <2>3
      <4> QED
        BY <3>2, <4>1
    <3> QED
      BY <2>6, <3>3 DEF CreditAtLeast, U, u, t
  <2>7. CASE T = BigEndian(PDiff1) \div difficulty
    <3> DEFINE D == BigEndian(PDiff1)
    <3>1. D = U * P /\ D \in Nat
      BY PDiff1Value, PDiff1Type, NumberType
    <3> HIDE DEF P, U, u, t, X, T, D
    <3>2. T * difficulty <= D
      <4> DEFINE r == D % difficulty
      <4>1. r \in 0 .. difficulty - 1 /\ D = T * difficulty + r
        BY <2>1, <2>7, <3>1, DivMod DEF D
      <4> HIDE DEF r
      <4>2. T * difficulty \in Nat
        BY <2>1, <2>3
      <4> QED
        BY <2>1, <4>1, <4>2
    <3>3. (u * P) * difficulty <= T * difficulty
      <4>1. u * P <= T /\ u * P \in Nat
        <5>1. u * P \in Nat
          BY <2>3
        <5> QED
          BY <2>3, <2>4, <2>5, <5>1
      <4> QED
        BY <2>1, <2>3, <4>1, Z3
    <3>4. (difficulty * u) * P <= U * P
      <4>1. (u * P) * difficulty = (difficulty * u) * P /\ (u * P) * difficulty \in Nat
            /\ T * difficulty \in Nat
        BY <2>1, <2>3
      <4> QED
        BY <3>1, <3>2, <3>3, <4>1
    <3>5. difficulty * u <= U
      <4> DEFINE w == difficulty * u
      <4>1. w \in Nat
        BY <2>1, <2>3
      <4> HIDE DEF w
      <4> SUFFICES ASSUME U < w PROVE FALSE
        BY <2>3, <4>1 DEF w
      <4>2. (U + 1) * P <= w * P
        BY <2>3, <4>1, Z3
      <4>3. (U + 1) * P = U * P + P /\ U * P \in Nat
        BY <2>3
      <4>4. w * P <= U * P
        BY <3>4 DEF w
      <4> QED
        BY <2>3, <4>1, <4>2, <4>3, <4>4
    <3>6. U * 1 >= difficulty * u
      <4>1. difficulty * u \in Nat /\ U * 1 = U
        BY <2>1, <2>3
      <4> QED
        BY <2>3, <3>5, <4>1
    <3> QED
      BY <3>6 DEF CreditAtLeast, U, u
  <2> QED
    BY <2>6, <2>7 DEF TargetInv, Opened
<1> QED
  BY <1>1, TargetInvariance, PTL
===============================================================================
