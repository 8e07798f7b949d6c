----------------------------- MODULE MCShareBytes -----------------------------
(* Bounds for ShareTarget and JobBytes.  The two share no state, so one at  *)
(* a time is explored.                                                      *)
EXTENDS ShareTarget, JobBytes

MCNBits == [mantissa : {1, 5, 16, 31}, exp : 3 .. Width]

(* Lengths around every change of width of a size: 5 and 64 in base 8.      *)
Bytes7(k) == [i \in 1 .. k |-> (i % 3) + 5]
MCCoinbases ==
    {Coinbase(2, Bytes7(l), Max32 - 1,
              <<[value |-> v, script |-> <<6>>]>>
                  \o [i \in 1 .. z |-> [value |-> 0, script |-> Bytes7(z + i)]],
              <<>>, 77) :
        l \in {2, 56, 57}, v \in {0, 70}, z \in {0, 1, 3, 4}}
MCMinerScripts == {<<7>>, Bytes7(5), <<6, 6, 6, 6, 6>>}
MCTxLists == {[i \in 1 .. n |-> <<i, 0>>] : n \in 0 .. 8}
MCExtranonces2 == {<<>>, <<3>>, <<3, 4>>, <<3, 4, 5>>}
MCHeightPushes == {<<0>>, <<1, 6>>, <<2, 6, 6>>, <<3, 6, 3>>}
MCCommitments == {<<>>, <<6, 6, 6, 6>>, <<3, 6, 3, 6, 3, 6>>}
MCNonces == {[placeholder |-> <<3, 6, 3, 6>>, extranonce |-> <<6, 6, 6, 6>>],
             [placeholder |-> <<6, 6, 6, 6>>, extranonce |-> <<0, 6, 7, 7>>]}

BytesInit == Init /\ JobInit
BytesNext ==
    \/ phase = "idle" /\ Next /\ UNCHANGED jobVars
    \/ stage = "idle" /\ JobNext /\ UNCHANGED targetVars
BytesSpec == BytesInit /\ [][BytesNext]_<<targetVars, jobVars>>
===============================================================================
