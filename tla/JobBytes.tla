------------------------------- MODULE JobBytes -------------------------------
(***************************************************************************)
(* The bytes of a job and of a share on it: build_job_messages and         *)
(* handle_submit_shares_extended (pool/src/stratum_sv2.rs) with the        *)
(* builders of pool/src/jobs.rs they call.  Which job a share is checked   *)
(* against is the concern of Sv2Server; here one job is built and one      *)
(* share submitted on it.                                                  *)
(***************************************************************************)
EXTENDS Coinbase, Merkle

CONSTANTS
    Coinbases,      \* coinbase transactions of Core's block templates
    MinerScripts,   \* output scripts of miners' addresses
    TxLists,        \* transaction ids of block templates, in display order
    ChannelIds,     \* channel ids
    Extranonces2,   \* miners' parts of the extranonce, of any length
    HeightPushes,   \* scripts that push a block height
    Commitments,    \* witness commitment scripts; the empty one stands for none
    Nonces          \* pairs of a placeholder and an extranonce of its size

(* Lengths and amounts are 64-bit integers, and so is the sum of a         *)
(* coinbase's outputs.  A size of one byte announces the witness nonce.    *)
ASSUME CoinbaseAssumption ==
    /\ TxBase \in Nat /\ TxBase >= 5 /\ HashSize \in 0 .. TxBase - 4
    /\ PrefixSize \in Nat /\ PrefixSize >= 4 /\ Extranonce2Size \in Nat
    /\ \A cb \in Coinbases :
          /\ Fits(cb.version, 4) /\ Fits(cb.sequence, 4) /\ Fits(cb.locktime, 4)
          /\ cb.script \in Strings /\ Fits(Len(cb.script) + SV2_EXTRANONCE_TOTAL, 8)
          /\ cb.outputs \in Seq([value : Nat, script : Strings])
          /\ Fits(1 + Len(cb.outputs), 8) /\ Fits(Total(cb.outputs), 8)
          /\ \A i \in DOMAIN cb.outputs : Fits(Len(cb.outputs[i].script), 8)
    /\ MinerScripts \cup Commitments \cup Extranonces2 \cup HeightPushes \subseteq Strings
    /\ \A s \in MinerScripts \cup Commitments : Fits(Len(s), 8)
    /\ ChannelIds \subseteq Nat /\ TxLists \subseteq Seq(Seq(Nat))

(* EXTRANONCE_PLACEHOLDER and its SV2 counterpart share no byte with what  *)
(* precedes them in a coinbase, but for the height, which is shorter.      *)
ASSUME PlaceholderAssumption ==
    \A n \in Nonces, push \in HeightPushes :
        LET size == Len(n.placeholder)
        IN  /\ n.placeholder \in Strings /\ size \in 1 .. TxBase - 4
            /\ n.extranonce \in Strings /\ Len(n.extranonce) = size
            /\ Len(push) < size
            /\ \A i \in 1 .. size :
                  /\ n.placeholder[i] \notin {0, 1, TxBase - 1, size}
                  /\ \A k \in DOMAIN CompactSize(Len(push) + 3 + size) :
                        n.placeholder[i] # CompactSize(Len(push) + 3 + size)[k]

VARIABLES
    phase,          \* "idle" | "job" | "checked" | "cut"
    from,           \* what the job was built from
    parts,          \* coinb1 and coinb2
    merkle_path,    \* the siblings of the coinbase
    parsed,         \* the coinbase of the submitted share, read back
    merkle_root     \* the root the share's header is built with

jobVars == <<phase, from, parts, merkle_path, parsed, merkle_root>>

NoParts == [coinb1 |-> <<>>, coinb2 |-> <<>>]

JobInit ==
    /\ phase = "idle" /\ from = <<>> /\ parts = NoParts /\ merkle_path = <<>>
    /\ parsed = Unreadable /\ merkle_root = <<>>

(* The first bytes of the prefix are the channel's id, the others 0.       *)
ExtranoncePrefix(id) == LeBytes(id, 4) \o Zeros(PrefixSize - 4)

(* Core's coinbase becomes a template and the template a job of the        *)
(* channel.  The path is the one build_merkle_branch computes; the running *)
(* pool is given the same siblings by Core.                                *)
BuildJob(cb, miner_script, txids, id) ==
    /\ phase = "idle"
    /\ phase' = "job"
    /\ from' = [cb |-> cb, miner_script |-> miner_script, txids |-> txids, id |-> id,
                ext2 |-> <<>>]
    /\ parts' = BuildSv2CoinbaseFromTdp(RawTemplate(cb), miner_script)
    /\ merkle_path' = BuildMerkleBranch(txids)
    /\ UNCHANGED <<parsed, merkle_root>>

(* The coinbase is put together and read back; if that fails the handler   *)
(* returns without an answer and no root is computed.                      *)
SubmitShare(ext2) ==
    LET nonce == BuildFullExtranonce(ExtranoncePrefix(from.id), ext2)
        read == Deserialize(parts.coinb1 \o nonce \o parts.coinb2)
    IN  /\ phase = "job"
        /\ phase' = "checked"
        /\ from' = [from EXCEPT !.ext2 = ext2]
        /\ parsed' = read
        /\ merkle_root' = IF read.ok THEN Climb(SerializeBase(read.tx), merkle_path)
                          ELSE <<>>
        /\ UNCHANGED <<parts, merkle_path>>

(* build_coinbase_parts and build_sv2_coinbase_parts, which differ in the  *)
(* placeholder.                                                            *)
CutCoinbase(push, miner_script, commitment, n) ==
    LET tx == CoinbaseTx(push, <<1>>, n.placeholder, 70, miner_script, commitment)
    IN  /\ phase = "idle"
        /\ phase' = "cut"
        /\ from' = [push |-> push, miner_script |-> miner_script,
                    commitment |-> commitment, nonce |-> n.extranonce]
        /\ parts' = SplitAtExtranonce(SerializeBase(tx), n.placeholder)
        /\ UNCHANGED <<merkle_path, parsed, merkle_root>>

JobNext ==
    \/ \E cb \in Coinbases, s \in MinerScripts, txids \in TxLists, id \in ChannelIds :
          BuildJob(cb, s, txids, id)
    \/ \E ext2 \in Extranonces2 : SubmitShare(ext2)
    \/ \E push \in HeightPushes, s \in MinerScripts, c \in Commitments, n \in Nonces :
          CutCoinbase(push, s, c, n)

JobSpec == JobInit /\ [][JobNext]_jobVars

(* ---- Properties ---- *)

(* The coinbase put together for a share reads as a transaction that pays  *)
(* the miner all that Core's coinbase paid, keeps Core's zero-valued       *)
(* outputs, version, sequence and lock time, has Core's script followed by *)
(* the channel's prefix and the miner's extranonce, and a witness exactly  *)
(* if a zero-valued output, which Core's commitment is, was kept: every    *)
(* length and count in it is right, at every width of its encoding         *)
(* (jobs.rs, build_sv2_coinbase_from_tdp).                                 *)
CoinbasePays ==
    phase = "checked" =>
        LET cb == from.cb
            kept == FoldLeft(LAMBDA s, o : IF o.value = 0 THEN Append(s, o) ELSE s,
                             <<>>, cb.outputs)
            ext2 == SubSeq(from.ext2 \o Zeros(Extranonce2Size), 1, Extranonce2Size)
            paid == [value |-> FoldLeft(LAMBDA v, o : v + o.value, 0, cb.outputs),
                     script |-> from.miner_script]
        IN  /\ parsed.ok
            /\ parsed.tx = Coinbase(cb.version,
                                    cb.script \o ExtranoncePrefix(from.id) \o ext2,
                                    cb.sequence, <<paid>> \o kept,
                                    IF kept = <<>> THEN <<>> ELSE Zeros(HashSize),
                                    cb.locktime)

(* The root the header of a share is built with is the one the consensus   *)
(* rule gives for the coinbase without its witness followed by the         *)
(* template's transactions, whatever their number (jobs.rs,                *)
(* build_merkle_branch; stratum_sv2.rs, the loop over merkle_path).        *)
RootMatches ==
    phase = "checked" =>
        merkle_root = MerkleRoot(<<SerializeBase(parsed.tx)>>
                                     \o [i \in 1 .. Len(from.txids) |-> Reverse(from.txids[i])])

(* A coinbase cut at its placeholder and joined around an extranonce of    *)
(* the same size is the coinbase with that extranonce in its script, also  *)
(* where another script holds the placeholder's bytes (jobs.rs,            *)
(* split_at_extranonce).                                                   *)
SplitReadsBack ==
    phase = "cut" =>
        LET read == Deserialize(parts.coinb1 \o from.nonce \o parts.coinb2)
        IN  /\ read.ok
            /\ read.tx = CoinbaseTx(from.push, <<1>>, from.nonce, 70,
                                    from.miner_script, from.commitment)
===============================================================================
