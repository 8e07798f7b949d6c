----------------------------- MODULE ShareTarget -----------------------------
(***************************************************************************)
(* The share target of a channel, byte by byte: how                        *)
(* handle_open_extended_mining_channel derives it from the declared hash   *)
(* rate and the template's compact bits, how a share is compared with it   *)
(* (pool/src/stratum_sv2.rs) and what an accepted share is credited with   *)
(* (pool/src/db.rs).  The sizes are constants; the code's values are given *)
(* beside them.                                                            *)
(***************************************************************************)
EXTENDS Integers, Sequences, SequencesExt

CONSTANTS
    Byte,           \* values of a byte (256)
    Hex,            \* values of a hex digit (16)
    Width,          \* bytes of a target or hash (32)
    Lead,           \* leading zero bytes of the difficulty-1 target (4)
    Upper,          \* bytes hash_to_difficulty looks at (8)
    DiffUnit,       \* hashes expected for one share of difficulty 1 (2^32)
    Interval,       \* SHARE_INTERVAL_SECS (30)
    AccLimit,       \* range of the accumulator of the long division (2^128)
    Rates,          \* hash rates a miner may declare
    NBits           \* compact targets of the network

(* A finite f32 rate gives a difficulty below 2^102, so that 2^128 leaves  *)
(* room for the extra byte.  An infinite rate saturates at 2^128 - 1 and   *)
(* is left out here.  Core's encoding of a target has a clear sign bit;    *)
(* targets of fewer than three bytes, far below any network's, are left    *)
(* out.                                                                    *)
ASSUME TargetAssumption ==
    /\ Byte \in Nat /\ Byte >= 4 /\ Hex \in Nat /\ Byte = Hex * Hex
    /\ Width \in Nat \ {0} /\ Lead \in Nat /\ Upper \in Nat
    /\ Lead + 2 <= Upper /\ Upper <= Width
    /\ DiffUnit \in Nat \ {0} /\ Interval \in Nat /\ AccLimit \in Nat \ {0}
    /\ Rates \subseteq Nat
    /\ \A r \in Rates : ((r * Interval) \div DiffUnit) * Byte <= AccLimit
    /\ Byte <= AccLimit
    /\ NBits \subseteq [mantissa : 0 .. (Byte * Byte * Byte) \div 2 - 1, exp : 3 .. Width]

VARIABLES
    stage,          \* "idle" | "divide" | "open"
    difficulty,     \* divisor of the long division
    target_be,      \* bytes of the target, divided in place
    pos,            \* bytes already divided
    carry,          \* remainder carried to the next byte
    nbits,          \* the template's compact target, once it is read
    num, quo        \* what the bytes behind pos were and are, as numbers

targetVars == <<stage, difficulty, target_be, pos, carry, nbits, num, quo>>

(* ---- Numbers, bytes and strings ---- *)

Power(n) == FoldLeft(LAMBDA p, b : p * b, 1, [i \in 1 .. n |-> Byte])
BigEndian(s) == FoldLeft(LAMBDA v, b : v * Byte + b, 0, s)
LittleEndian(s) == BigEndian(Reverse(s))

(* Arrays of bytes, and strings, are ordered lexicographically.            *)
Less(a, b) ==
    \E i \in DOMAIN a : a[i] < b[i] /\ \A j \in 1 .. i - 1 : a[j] = b[j]

HexEncode(s) ==
    [i \in 1 .. 2 * Len(s) |-> IF i % 2 = 1 THEN s[(i + 1) \div 2] \div Hex
                                             ELSE s[i \div 2] % Hex]

(* ---- Conversions of stratum_sv2.rs ---- *)

(* The target bits stand for; the mantissa's sign bit is masked off.       *)
CompactToTargetBe(bits) ==
    LET mantissa == bits.mantissa % ((Byte * Byte * Byte) \div 2)
        i == Width - bits.exp
    IN  [j \in 1 .. Width |->
           CASE bits.exp \in 3 .. Width /\ j = i + 1 -> (mantissa \div (Byte * Byte)) % Byte
             [] bits.exp \in 3 .. Width /\ j = i + 2 -> (mantissa \div Byte) % Byte
             [] bits.exp \in 3 .. Width /\ j = i + 3 -> mantissa % Byte
             [] OTHER -> 0]

RateDifficulty(rate) ==
    LET d == (rate * Interval) \div DiffUnit IN IF d > 1 THEN d ELSE 1
PDiff1 == [i \in 1 .. Width |-> IF i \in {Lead + 1, Lead + 2} THEN Byte - 1 ELSE 0]

MutTargetNotReversed(be) == be
TargetBeToSv2(be) == Reverse(be)

(* A share is refused if its hash, as a hex string, is above the target's. *)
Meets(hash_be, be) == ~Less(HexEncode(be), HexEncode(hash_be))

(* ---- hash_to_difficulty of db.rs ---- *)

PDIFF1_UPPER == (Byte * Byte - 1) * Power(Upper - Lead - 2)
MutUpperLittleEndian(hash_be) == LittleEndian(SubSeq(hash_be, 1, Upper))
HashUpper(hash_be) == BigEndian(SubSeq(hash_be, 1, Upper))
(* A hash whose upper word is 0 is given f64::MAX; any other the quotient  *)
(* PDIFF1_UPPER / HashUpper, compared here with p / q.                     *)
CreditAtLeast(hash_be, p, q) ==
    HashUpper(hash_be) = 0 \/ PDIFF1_UPPER * q >= p * HashUpper(hash_be)

NoBits == [mantissa |-> 0, exp |-> 0]

(* ---- handle_open_extended_mining_channel ---- *)

Init ==
    /\ stage = "idle" /\ difficulty = 1 /\ target_be = PDiff1
    /\ pos = 0 /\ carry = 0 /\ nbits = NoBits /\ num = 0 /\ quo = 0

(* A channel is opened and hashrate_to_target_be starts its division.      *)
OpenChannel(rate) ==
    /\ stage = "idle"
    /\ stage' = "divide"
    /\ difficulty' = RateDifficulty(rate)
    /\ UNCHANGED <<target_be, pos, carry, nbits, num, quo>>

MutAccumulatedNarrow(b) == (carry * Byte + b) % (Byte * Byte)
(* The accumulator is an unsigned integer of fixed width.                  *)
Accumulated(b) == (carry * Byte + b) % AccLimit

MutCarryNotReduced(val) == val
Carried(val) == val % difficulty

MutDivideByteMisplaced ==
    LET val == Accumulated(target_be[pos + 1])
        digit == (val \div difficulty) % Byte
    IN  /\ stage = "divide"
        /\ pos < Width
        /\ target_be' = [target_be EXCEPT ![IF pos = 0 THEN 1 ELSE pos] = digit]
        /\ carry' = Carried(val)
        /\ pos' = pos + 1
        /\ num' = num * Byte + target_be[pos + 1]
        /\ quo' = quo * Byte + digit
        /\ UNCHANGED <<stage, difficulty, nbits>>
(* One turn of the loop over the bytes: the quotient is stored as a byte.  *)
DivideByte ==
    LET b == target_be[pos + 1]
        val == Accumulated(b)
        digit == (val \div difficulty) % Byte
    IN  /\ stage = "divide"
        /\ pos < Width
        /\ target_be' = [target_be EXCEPT ![pos + 1] = digit]
        /\ carry' = Carried(val)
        /\ pos' = pos + 1
        /\ num' = num * Byte + b
        /\ quo' = quo * Byte + digit
        /\ UNCHANGED <<stage, difficulty, nbits>>

MutClampInverted(network_be) ==
    IF Less(network_be, target_be) THEN network_be ELSE target_be
(* The easier of the channel's and the network's target.                   *)
Clamped(network_be) ==
    IF Less(target_be, network_be) THEN network_be ELSE target_be

(* The target is clamped to the network's and the channel registered.      *)
RegisterChannel(bits) ==
    /\ stage = "divide"
    /\ pos = Width
    /\ stage' = "open"
    /\ nbits' = bits
    /\ target_be' = Clamped(CompactToTargetBe(bits))
    /\ UNCHANGED <<difficulty, pos, carry, num, quo>>

Next ==
    \/ \E rate \in Rates : OpenChannel(rate)
    \/ DivideByte
    \/ \E bits \in NBits : RegisterChannel(bits)

Spec == Init /\ [][Next]_targetVars

(* ---- Properties ---- *)

(* Every variable has its type, and the bytes of the target stay bytes.    *)
TypeOK ==
    /\ stage \in {"idle", "divide", "open"}
    /\ difficulty \in Nat \ {0}
    /\ target_be \in [1 .. Width -> 0 .. Byte - 1]
    /\ pos \in 0 .. Width
    /\ carry \in 0 .. difficulty - 1 /\ num \in Nat /\ quo \in Nat
    /\ nbits \in NBits \cup {NoBits}

(* The long division is exact after every byte: neither the fixed width of *)
(* the accumulator nor the cast of the quotient to a byte loses anything,  *)
(* for the difficulty of any finite rate (stratum_sv2.rs, the loop of      *)
(* hashrate_to_target_be).                                                 *)
DivisionExact ==
    /\ num = quo * difficulty + carry
    /\ carry < difficulty

(* The target the loop leaves in place is the difficulty-1 target divided  *)
(* by the difficulty of the declared rate, rounded down (stratum_sv2.rs,   *)
(* what the comment on hashrate_to_target_be promises).                    *)
TargetIsQuotient ==
    stage = "divide" /\ pos = Width =>
        BigEndian(target_be) = BigEndian(PDiff1) \div difficulty

Hashes == [1 .. Width -> 0 .. Byte - 1]

(* The server, comparing hex strings of reversed arrays, accepts exactly   *)
(* the hashes that the miner finds below the target it was sent in little  *)
(* endian: no honest share is refused as too easy.                         *)
SameVerdict ==
    stage = "open" =>
        \A hash \in Hashes :    \* as the header hash is computed
            Meets(Reverse(hash), target_be)
                <=> LittleEndian(hash) <= LittleEndian(TargetBeToSv2(target_be))

(* A hash that meets the network's target, taken from the compact bits by  *)
(* arithmetic, is accepted by the freshly opened channel and recognised as *)
(* a block.                                                                *)
BlocksPass ==
    stage = "open" =>
        \A hash \in Hashes :
            LittleEndian(hash) <= nbits.mantissa * Power(nbits.exp - 3)
                => /\ Meets(Reverse(hash), target_be)
                   /\ Meets(Reverse(hash), CompactToTargetBe(nbits))

(* Whatever a channel accepts is credited by hash_to_difficulty with at    *)
(* least the difficulty its target stands for, although only the upper     *)
(* word of the hash is looked at; where the network's target has eased the *)
(* channel's, with at least the credit of that target.                     *)
AcceptedIsCredited ==
    stage = "open" =>
        \A hash_be \in Hashes :
            Meets(hash_be, target_be) =>
                \/ CreditAtLeast(hash_be, difficulty, 1)
                \/ /\ target_be = CompactToTargetBe(nbits)
                   /\ CreditAtLeast(hash_be, PDIFF1_UPPER, HashUpper(target_be))
=============================================================================
