------------------------------- MODULE Coinbase -------------------------------
(***************************************************************************)
(* The coinbase transaction on its way through the pool, byte by byte:     *)
(* Core's coinbase is taken apart by build_raw_template                    *)
(* (pool/src/node_ipc.rs), put together again around the extranonce by     *)
(* build_sv2_coinbase_from_tdp (pool/src/jobs.rs) and completed by         *)
(* handle_submit_shares_extended (pool/src/stratum_sv2.rs).  The integer   *)
(* widths are the code's; a byte has TxBase values instead of 256, so that *)
(* every length prefix is reached by short scripts.                        *)
(***************************************************************************)
EXTENDS Integers, Sequences, SequencesExt

CONSTANTS
    TxBase,             \* values of a byte (256)
    HashSize,           \* bytes of a hash and of the witness nonce (32)
    PrefixSize,         \* SV2_EXTRANONCE_PREFIX_SIZE (32)
    Extranonce2Size     \* SV2_EXTRANONCE2_SIZE (4)

SV2_EXTRANONCE_TOTAL == PrefixSize + Extranonce2Size
Max16 == TxBase * TxBase - 1
Max32 == TxBase * TxBase * TxBase * TxBase - 1
Zeros(k) == [i \in 1 .. k |-> 0]
Strings == Seq(0 .. TxBase - 1)

(* A number without its k lowest bytes.                                    *)
Shift(n, k) == FoldLeft(LAMBDA v, b : v \div b, n, [i \in 1 .. k |-> TxBase])
Fits(n, k) == n \in Nat /\ Shift(n, k) = 0

(* to_le_bytes of an integer of k bytes.                                   *)
LeBytes(n, k) == [i \in 1 .. k |-> Shift(n, i - 1) % TxBase]
FromLe(s) == FoldRight(LAMBDA b, v : v * TxBase + b, s, 0)

MutVarIntOffByOne(n) ==
    CASE n <= TxBase - 3 -> <<n>>
      [] n > TxBase - 3 /\ n <= Max16 -> <<TxBase - 3>> \o LeBytes(n, 2)
      [] n > Max16 /\ n <= Max32 -> <<TxBase - 2>> \o LeBytes(n, 4)
      [] OTHER -> <<TxBase - 1>> \o LeBytes(n, 8)
(* write_varint: the last three byte values announce a wider integer.      *)
VarInt(n) ==
    CASE n < TxBase - 3 -> <<n>>
      [] n >= TxBase - 3 /\ n <= Max16 -> <<TxBase - 3>> \o LeBytes(n, 2)
      [] n > Max16 /\ n <= Max32 -> <<TxBase - 2>> \o LeBytes(n, 4)
      [] OTHER -> <<TxBase - 1>> \o LeBytes(n, 8)

(* ---- The bitcoin crate ---- *)

(* A coinbase transaction: one input that spends nothing; its witness is   *)
(* empty or one item.                                                      *)
Coinbase(version, script, sequence, outputs, witness, locktime) ==
    [version |-> version, script |-> script, sequence |-> sequence,
     outputs |-> outputs, witness |-> witness, locktime |-> locktime]

(* consensus::serialize of bytes with their length; of an output; of       *)
(* outputs in a row; of a coinbase without its witness, which is also what *)
(* the transaction id is the hash of.                                      *)
Wide == <<2, 4, 8>>
CompactSize(n) ==
    LET j == Min({i \in 1 .. 3 : Fits(n, Wide[i])})
    IN  IF n < TxBase - 3 THEN <<n>> ELSE <<TxBase - 4 + j>> \o LeBytes(n, Wide[j])
SerializeScript(s) == CompactSize(Len(s)) \o s
SerializeOutput(o) == LeBytes(o.value, 8) \o SerializeScript(o.script)
SerializeOutputs(outs) == FoldLeft(LAMBDA s, o : s \o SerializeOutput(o), <<>>, outs)
SerializeBase(tx) ==
    LeBytes(tx.version, 4) \o <<1>> \o Zeros(HashSize) \o LeBytes(Max32, 4)
        \o SerializeScript(tx.script) \o LeBytes(tx.sequence, 4)
        \o CompactSize(Len(tx.outputs)) \o SerializeOutputs(tx.outputs)
        \o LeBytes(tx.locktime, 4)

(* consensus::deserialize.  A cursor holds the bytes left, the fields read *)
(* so far and whether all of them could be read.  A field is a number of   *)
(* bytes, a size, or bytes with their size; a size that would fit in fewer *)
(* bytes is an error.                                                      *)
SizeField == -1
ScriptField == -2
SizeWidth(s) == IF s[1] < TxBase - 3 THEN 1 ELSE 1 + Wide[s[1] + 4 - TxBase]
SizeValue(s) == IF s[1] < TxBase - 3 THEN s[1] ELSE FromLe(SubSeq(s, 2, SizeWidth(s)))
Advance(c, skip, k) ==
    IF skip + k > Len(c.rest) THEN [c EXCEPT !.ok = FALSE]
    ELSE [c EXCEPT !.rest = SubSeq(@, skip + k + 1, Len(@)),
                   !.got = Append(@, SubSeq(c.rest, skip + 1, skip + k))]
ReadField(c, field) ==
    IF ~c.ok THEN c ELSE IF field >= 0 THEN Advance(c, 0, field)
    ELSE LET w == IF c.rest = <<>> THEN 0 ELSE SizeWidth(c.rest)
             n == SizeValue(c.rest)
         IN  IF w \notin 1 .. Len(c.rest) \/ CompactSize(n) # SubSeq(c.rest, 1, w)
             THEN [c EXCEPT !.ok = FALSE]
             ELSE IF field = ScriptField THEN Advance(c, w, n)
             ELSE [c EXCEPT !.rest = SubSeq(@, w + 1, Len(@)), !.got = Append(@, <<n>>)]
ReadFields(c, fields) == FoldLeft(ReadField, c, fields)

(* Up to the number of outputs, and from there to the end.  A zero where   *)
(* the number of inputs belongs marks a witness.                           *)
HeadFields(bytes) ==
    <<4, IF Len(bytes) > 4 /\ bytes[5] = 0 THEN 2 ELSE 0, 1, HashSize + 4, ScriptField, 4,
      SizeField>>
RestFields(n, marked) ==
    [i \in 1 .. 2 * n |-> IF i % 2 = 1 THEN 8 ELSE ScriptField]
        \o <<IF marked THEN 1 ELSE 0, IF marked THEN ScriptField ELSE 0, 4>>

(* The fields of a coinbase with n outputs, in the order they were read.   *)
FromFields(got, n) ==
    Coinbase(FromLe(got[1]), got[5], FromLe(got[6]),
             [i \in 1 .. n |-> [value |-> FromLe(got[6 + 2 * i]), script |-> got[7 + 2 * i]]],
             got[9 + 2 * n], FromLe(got[10 + 2 * n]))
Unreadable == [ok |-> FALSE, tx |-> Coinbase(0, <<>>, 0, <<>>, <<>>, 0)]

DeserializeRest(c) ==
    LET n == c.got[7][1]
        marked == c.got[2] # <<>>
        all == ReadFields(c, RestFields(n, marked))
    IN  IF /\ all.ok /\ all.rest = <<>>
           /\ all.got[2] \in {<<>>, <<0, 1>>}
           /\ all.got[3] = <<1>> /\ all.got[4] = Zeros(HashSize) \o LeBytes(Max32, 4)
           /\ marked => all.got[8 + 2 * n] = <<1>>
        THEN [ok |-> TRUE, tx |-> FromFields(all.got, n)]
        ELSE Unreadable
Deserialize(bytes) ==
    LET c == ReadFields([ok |-> TRUE, rest |-> bytes, got |-> <<>>], HeadFields(bytes))
    IN  \* no more outputs than bytes can be read
        IF c.ok /\ c.got[7][1] <= Len(c.rest) THEN DeserializeRest(c) ELSE Unreadable

(* ---- build_raw_template ---- *)

(* What the template keeps of Core's coinbase: its zero-valued outputs as  *)
(* they are, and of the others the sum of their values.                    *)
Total(outs) == FoldLeft(LAMBDA v, o : v + o.value, 0, outs)
Empty(outs) == FoldLeft(LAMBDA s, o : IF o.value = 0 THEN Append(s, o) ELSE s, <<>>, outs)
RawTemplate(cb) ==
    [version |-> cb.version, prefix |-> cb.script, sequence |-> cb.sequence,
     value |-> Total(cb.outputs), count |-> Len(Empty(cb.outputs)),
     outputs |-> SerializeOutputs(Empty(cb.outputs)), locktime |-> cb.locktime]

(* ---- build_sv2_coinbase_from_tdp ---- *)

(* The script's announced length leaves room for the extranonce.           *)
ScriptLen(t) == Len(t.prefix) + SV2_EXTRANONCE_TOTAL

(* The parts before and after the extranonce; build_job_messages asks for  *)
(* a witness if the template has outputs of its own.                       *)
BuildSv2CoinbaseFromTdp(t, miner_script) ==
    LET use_segwit == t.count > 0
        payout == [value |-> t.value, script |-> miner_script]
    IN  [coinb1 |-> LeBytes(t.version, 4) \o (IF use_segwit THEN <<0, 1>> ELSE <<>>)
                    \o <<1>> \o Zeros(HashSize) \o LeBytes(Max32, 4)
                    \o VarInt(ScriptLen(t)) \o t.prefix,
         coinb2 |-> LeBytes(t.sequence, 4) \o VarInt(1 + t.count)
                    \o SerializeOutput(payout) \o t.outputs
                    \o (IF use_segwit THEN <<1, HashSize>> \o Zeros(HashSize) ELSE <<>>)
                    \o LeBytes(t.locktime, 4)]

(* ---- build_full_extranonce ---- *)

(* The miner's part is cut or padded with zeros to its size.               *)
BuildFullExtranonce(prefix, ext2) ==
    prefix \o [i \in 1 .. Extranonce2Size |-> IF i <= Len(ext2) THEN ext2[i] ELSE 0]

(* ---- build_coinbase_parts and build_sv2_coinbase_parts ---- *)

(* Both push the height, the pool's tag and a placeholder, serialize the   *)
(* transaction and cut it at the first place that reads like the           *)
(* placeholder.                                                            *)
ScriptWith(height_push, tag, nonce) ==
    height_push \o SerializeScript(tag) \o SerializeScript(nonce)
CoinbaseTx(height_push, tag, nonce, value, miner_script, commitment) ==
    Coinbase(1, ScriptWith(height_push, tag, nonce), Max32,
             <<[value |-> value, script |-> miner_script]>>
                 \o (IF commitment = <<>> THEN <<>>
                     ELSE <<[value |-> 0, script |-> commitment]>>),
             <<>>, 0)

Matches(raw, placeholder) ==
    {i \in 0 .. Len(raw) - Len(placeholder) :
        SubSeq(raw, i + 1, i + Len(placeholder)) = placeholder}
MutSplitAtLast(raw, placeholder) ==
    LET at == Max(Matches(raw, placeholder))
    IN  [coinb1 |-> SubSeq(raw, 1, at),
         coinb2 |-> SubSeq(raw, at + Len(placeholder) + 1, Len(raw))]
SplitAtExtranonce(raw, placeholder) ==
    LET at == Min(Matches(raw, placeholder))
    IN  [coinb1 |-> SubSeq(raw, 1, at),
         coinb2 |-> SubSeq(raw, at + Len(placeholder) + 1, Len(raw))]
===============================================================================
