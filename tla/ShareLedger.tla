----------------------------- MODULE ShareLedger -----------------------------
(***************************************************************************)
(* What the share database of pool/src/db.rs promises: every share given   *)
(* to it is stored exactly once, in the order of arrival, and only the end *)
(* of the process can lose shares: those that were not stored yet.         *)
(***************************************************************************)
EXTENDS Naturals, Sequences

CONSTANT Share

VARIABLES
    stored,    \* shares on disk, in the order of their rows
    volatile   \* shares accepted and not yet on disk

vars == <<stored, volatile>>

Init == stored = <<>> /\ volatile = <<>>

Accept(s) ==
    /\ volatile' = Append(volatile, s)
    /\ UNCHANGED stored

(* The oldest n volatile shares become durable together.                   *)
Persist(n) ==
    /\ stored' = stored \o SubSeq(volatile, 1, n)
    /\ volatile' = SubSeq(volatile, n + 1, Len(volatile))

Crash ==
    /\ volatile' = <<>>
    /\ UNCHANGED stored

Next ==
    \/ \E s \in Share : Accept(s)
    \/ \E n \in 1 .. Len(volatile) : Persist(n)
    \/ Crash

Spec == Init /\ [][Next]_vars
=============================================================================
