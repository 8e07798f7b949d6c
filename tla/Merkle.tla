-------------------------------- MODULE Merkle --------------------------------
(***************************************************************************)
(* The merkle branch of the coinbase: how build_merkle_branch              *)
(* (pool/src/jobs.rs) computes it from a block template's transactions and *)
(* how handle_submit_shares_extended (pool/src/stratum_sv2.rs) climbs it   *)
(* to the root.  A hash is a sequence of integers; hashing a pair brackets *)
(* it, so that different pairs have different hashes.                      *)
(***************************************************************************)
EXTENDS Integers, Sequences, SequencesExt

Sha256dPair(a, b) == <<-1>> \o a \o b \o <<-2>>

MutMergedFromSibling(level) ==
    [i \in 1 .. Len(level) \div 2 |->
        Sha256dPair(level[2 * i - 1],
                    level[IF 2 * i < Len(level) THEN 2 * i ELSE 2 * i - 1])]
(* The level above one whose first hash is the sibling on the path: that   *)
(* one is skipped, the rest are paired, an odd last one with itself.       *)
MergedRest(level) ==
    [i \in 1 .. Len(level) \div 2 |->
        Sha256dPair(level[2 * i],
                    level[IF 2 * i < Len(level) THEN 2 * i + 1 ELSE 2 * i])]

(* The siblings from the bottom level up.  Template transaction ids are in *)
(* display order, hashes in the reverse of it.                             *)
BuildMerkleBranch(txids) ==
    LET up(acc, i) ==
            IF acc.level = <<>> THEN acc
            ELSE [branch |-> Append(acc.branch, Head(acc.level)),
                  level |-> MergedRest(acc.level)]
        bottom == [i \in 1 .. Len(txids) |-> Reverse(txids[i])]
    IN  FoldLeft(up, [branch |-> <<>>, level |-> bottom], txids).branch

(* The root over the coinbase and the siblings of its path.                *)
Climb(hash, branch) ==
    FoldLeft(LAMBDA h, sibling : Sha256dPair(h, sibling), hash, branch)

(* The consensus rule: every level pairs the one below from the left, the  *)
(* last hash with itself if there is no other, up to a single hash.        *)
Paired(level) ==
    [i \in 1 .. (Len(level) + 1) \div 2 |->
        Sha256dPair(level[2 * i - 1],
                    level[IF 2 * i <= Len(level) THEN 2 * i ELSE 2 * i - 1])]
MerkleRoot(leaves) ==
    FoldLeft(LAMBDA level, i : IF Len(level) = 1 THEN level ELSE Paired(level),
             leaves, leaves)[1]
===============================================================================
