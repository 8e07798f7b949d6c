------------------------------ MODULE DbWorker ------------------------------
(***************************************************************************)
(* The database worker of pool/src/db.rs: one thread receives the events   *)
(* of all connections, keeps them in batches and writes the batches to     *)
(* SQLite in one transaction, once a minute or when the batch is large.    *)
(***************************************************************************)
EXTENDS Integers, Sequences, FiniteSets, FiniteSetsExt, SequencesExt

CONSTANTS
    Addresses,       \* miner addresses
    Hashes,          \* block hashes of shares, naturals: smaller is better
    Difficulty,      \* hash_to_difficulty on Hashes, scaled to naturals
    BatchLimit,      \* shares that force a flush (1000)
    TicksPerMinute,  \* clock resolution of the model; FLUSH_INTERVAL is 60 s
    Retention,       \* MINUTE_RETENTION_SECS, in minutes (24 h)
    MaxEvents,       \* bound: events the connections send
    MaxTime          \* bound: ticks after which the wall clock stands still

ShareEvent == [addr : Addresses, hash : Hashes]
DbEvent == [kind : {"connected"}, addr : Addresses]
           \cup [kind : {"share"}, share : ShareEvent]

Minutes == 0 .. MaxTime \div TicksPerMinute

(* One row of epoch_stats; best = NoHash stands for NULL.                  *)
NoHash == Max(Hashes) + 1
Stats == [count : Nat, total : Nat, best : Hashes \cup {NoHash}, active : Nat]
NoStats == [count |-> 0, total |-> 0, best |-> NoHash, active |-> 0]

ASSUME DbAssumption ==
    /\ IsFiniteSet(Addresses) /\ IsFiniteSet(Hashes) /\ Hashes # {} /\ Hashes \subseteq Nat
    /\ Difficulty \in [Hashes -> Nat \ {0}]
    /\ TicksPerMinute \in Nat \ {0} /\ BatchLimit \in Nat \ {0}
    /\ Retention \in Nat /\ MaxEvents \in Nat /\ MaxTime \in Nat

VARIABLES
    online,            \* addresses announced since the process started
    senders,           \* some connection, or main, still holds a sender
    events,            \* number of events sent so far
    dbQ,               \* the event queue
    pc,                \* the worker: "recv", "drain", "check" or "done"
    share_batch,       \* shares not yet written
    miner_batch,       \* connected miners not yet written
    minute_windows,    \* difficulty per address since the last flush
    elapsed,           \* ticks since last_flush, up to a minute
    now,               \* the wall clock
    miners,            \* table miners
    shares,            \* table shares
    epoch_stats,       \* table epoch_stats
    minute_hashrates   \* table minute_hashrates; 0 where there is no row

queueVars == <<online, senders, events, dbQ>>
batchVars == <<share_batch, miner_batch, minute_windows>>
clockVars == <<elapsed, now>>
tables == <<miners, shares, epoch_stats, minute_hashrates>>
vars == <<queueVars, pc, batchVars, clockVars, tables>>

-----------------------------------------------------------------------------

NoWindows == [a \in Addresses |-> 0]

MutPushSubtracts(ev) ==
    IF ev.kind = "share"
    THEN /\ share_batch' = Append(share_batch, ev.share)
         /\ minute_windows' = [minute_windows EXCEPT ![ev.share.addr] =
                                 0 - Difficulty[ev.share.hash]]
         /\ UNCHANGED miner_batch
    ELSE /\ miner_batch' = Append(miner_batch, ev.addr)
         /\ UNCHANGED <<share_batch, minute_windows>>

(* push_event, on the batches.                                             *)
Push(ev) ==
    IF ev.kind = "share"
    THEN /\ share_batch' = Append(share_batch, ev.share)
         /\ minute_windows' = [minute_windows EXCEPT ![ev.share.addr] =
                                 @ + Difficulty[ev.share.hash]]
         /\ UNCHANGED miner_batch
    ELSE /\ miner_batch' = Append(miner_batch, ev.addr)
         /\ UNCHANGED <<share_batch, minute_windows>>

MutUpsertKeepsBest(row, s) ==
    [row EXCEPT !.count = @ + 1, !.total = @ + Difficulty[s.hash],
                !.best = IF @ = NoHash THEN s.hash ELSE @]

(* The epoch_stats upsert of one share.                                    *)
UpsertStats(row, s) ==
    [row EXCEPT !.count = @ + 1, !.total = @ + Difficulty[s.hash],
                !.best = IF @ = NoHash \/ s.hash < @ THEN s.hash ELSE @]

WithShares(stats, batch) ==
    FoldLeft(LAMBDA t, s : [t EXCEPT ![s.addr] = UpsertStats(@, s)], stats, batch)

(* An address is in the map iff it has a share: difficulties are positive. *)
Active == {a \in Addresses : minute_windows[a] > 0}

Minute == now \div TicksPerMinute

MutWindowReplacesRow(a, m) == minute_windows[a]
WindowRow(a, m) == minute_hashrates[a][m] + minute_windows[a]

MutPrunedEarly(m) == m + Retention <= Minute
Pruned(m) == m + Retention < Minute

(* flush_inner commits: everything in one transaction.                     *)
Written ==
    /\ miners' = miners \cup Range(miner_batch)
    /\ shares' = shares \o share_batch
    /\ epoch_stats' = LET stats == WithShares(epoch_stats, share_batch)
                      IN  [a \in Addresses |->
                             IF a \in Active THEN [stats[a] EXCEPT !.active = @ + 1]
                                             ELSE stats[a]]
    /\ minute_hashrates' =
         [a \in Addresses |-> [m \in Minutes |->
            IF Pruned(m) THEN 0
            ELSE IF a \in Active /\ m = Minute THEN WindowRow(a, m)
            ELSE minute_hashrates[a][m]]]

MutBatchKept == UNCHANGED batchVars
Cleared ==
    /\ share_batch' = <<>>
    /\ miner_batch' = <<>>
    /\ minute_windows' = NoWindows

MutFailureClearsMiners ==
    miner_batch' = <<>> /\ UNCHANGED <<share_batch, minute_windows, tables>>

(* The transaction fails and rolls back: everything is kept for the next   *)
(* flush.                                                                  *)
FlushFailed == UNCHANGED <<batchVars, tables>>

NothingToFlush == share_batch = <<>> /\ miner_batch = <<>> /\ Active = {}

Flush ==
    \/ NothingToFlush /\ UNCHANGED <<batchVars, tables>>
    \/ ~NothingToFlush /\ Written /\ Cleared
    \/ ~NothingToFlush /\ FlushFailed

-----------------------------------------------------------------------------
(* ---- The worker ---- *)

(* recv_timeout or try_recv returns an event.                              *)
Receive ==
    /\ pc \in {"recv", "drain"}
    /\ dbQ # <<>>
    /\ Push(Head(dbQ))
    /\ dbQ' = Tail(dbQ)
    /\ pc' = "drain"
    /\ UNCHANGED <<online, senders, events, clockVars, tables>>

(* recv_timeout waited a second for nothing.                               *)
RecvTimeout ==
    /\ pc = "recv"
    /\ dbQ = <<>> /\ senders
    /\ pc' = "drain"
    /\ UNCHANGED <<queueVars, batchVars, clockVars, tables>>

DrainEmpty ==
    /\ pc = "drain"
    /\ dbQ = <<>> /\ senders
    /\ pc' = "check"
    /\ UNCHANGED <<queueVars, batchVars, clockVars, tables>>

(* All senders are gone and the queue is empty: one last flush.            *)
Disconnected ==
    /\ pc \in {"recv", "drain"}
    /\ dbQ = <<>> /\ ~senders
    /\ Flush
    /\ pc' = "done"
    /\ UNCHANGED <<queueVars, clockVars>>

MutFlushDueOnlyFull == Len(share_batch) >= BatchLimit
FlushDue == elapsed >= TicksPerMinute \/ Len(share_batch) >= BatchLimit

(* last_flush is reset whether or not the flush succeeds.                  *)
CheckFlush ==
    /\ pc = "check"
    /\ FlushDue
    /\ Flush
    /\ elapsed' = 0
    /\ pc' = "recv"
    /\ UNCHANGED <<queueVars, now>>

CheckSkip ==
    /\ pc = "check"
    /\ ~FlushDue
    /\ pc' = "recv"
    /\ UNCHANGED <<queueVars, batchVars, clockVars, tables>>

-----------------------------------------------------------------------------
(* ---- Readers ---- *)

(* DbReader: the difficulty of the rows of the last l minutes, of one      *)
(* address and of all.  The answers are these sums times a factor that     *)
(* depends on l only.  A reader sees committed transactions (WAL mode).    *)
Lookback(l) == {m \in Minutes : m * TicksPerMinute >= now - l * TicksPerMinute}
HashrateForAddress(a, l) ==
    MapThenSumSet(LAMBDA m : minute_hashrates[a][m], Lookback(l))
PoolHashrate(l) ==
    MapThenSumSet(LAMBDA r : minute_hashrates[r[1]][r[2]], Addresses \X Lookback(l))

-----------------------------------------------------------------------------
(* ---- The rest of the process ---- *)

(* A connection announces its miner before it reports any of its shares    *)
(* (Sv2Server, ShareAfterConnect).                                         *)
Send(ev) ==
    /\ senders
    /\ events < MaxEvents
    /\ ev.kind = "share" => ev.share.addr \in online
    /\ online' = IF ev.kind = "share" THEN online ELSE online \cup {ev.addr}
    /\ dbQ' = Append(dbQ, ev)
    /\ events' = events + 1
    /\ UNCHANGED <<senders, pc, batchVars, clockVars, tables>>

Tick ==
    /\ elapsed' = IF elapsed < TicksPerMinute THEN elapsed + 1 ELSE elapsed
    /\ now' = IF now < MaxTime THEN now + 1 ELSE now
    /\ UNCHANGED <<queueVars, pc, batchVars, tables>>

(* main returns: every sender is dropped while the worker may still run.   *)
DropSenders ==
    /\ senders
    /\ senders' = FALSE
    /\ UNCHANGED <<online, events, dbQ, pc, batchVars, clockVars, tables>>

(* The process ends, at any point, and is started again on the same file:  *)
(* nothing joins the worker thread.                                        *)
Restart ==
    /\ online' = {}
    /\ senders' = TRUE
    /\ dbQ' = <<>>
    /\ Cleared
    /\ pc' = "recv"
    /\ elapsed' = 0
    /\ UNCHANGED <<events, now, tables>>

-----------------------------------------------------------------------------

Init ==
    /\ online = {} /\ senders = TRUE /\ events = 0 /\ dbQ = <<>>
    /\ pc = "recv"
    /\ share_batch = <<>> /\ miner_batch = <<>> /\ minute_windows = NoWindows
    /\ elapsed = 0 /\ now = 0
    /\ miners = {} /\ shares = <<>>
    /\ epoch_stats = [a \in Addresses |-> NoStats]
    /\ minute_hashrates = [a \in Addresses |-> [m \in Minutes |-> 0]]

WorkerNext ==
    \/ Receive \/ RecvTimeout \/ DrainEmpty
    \/ Disconnected \/ CheckFlush \/ CheckSkip

Next ==
    \/ WorkerNext \/ Tick \/ DropSenders \/ Restart
    \/ \E ev \in DbEvent : Send(ev)

Spec == Init /\ [][Next]_vars

(* The thread runs, time passes, and a flush that is retried every minute  *)
(* goes through in the end (SQLite's disk and locks are external).         *)
Fairness ==
    /\ WF_vars(WorkerNext)
    /\ WF_vars(Tick)
    /\ SF_vars(CheckFlush /\ Written)

FairSpec == Spec /\ Fairness

-----------------------------------------------------------------------------
(* ---- Properties ---- *)

(* Every variable has the shape the code and the schema give it.           *)
TypeOK ==
    /\ online \in SUBSET Addresses /\ senders \in BOOLEAN /\ events \in 0 .. MaxEvents
    /\ dbQ \in Seq(DbEvent)
    /\ pc \in {"recv", "drain", "check", "done"}
    /\ share_batch \in Seq(ShareEvent) /\ miner_batch \in Seq(Addresses)
    /\ minute_windows \in [Addresses -> Nat]
    /\ elapsed \in 0 .. TicksPerMinute /\ now \in 0 .. MaxTime
    /\ miners \in SUBSET Addresses /\ shares \in Seq(ShareEvent)
    /\ epoch_stats \in [Addresses -> Stats]
    /\ minute_hashrates \in [Addresses -> [Minutes -> Nat]]

(* The shares of the queue, in their order.                                *)
QueuedShares ==
    FoldLeft(LAMBDA q, ev : IF ev.kind = "share" THEN Append(q, ev.share) ELSE q,
             <<>>, dbQ)

(* Seen through the shares table on one side, and the batch with the queue *)
(* behind it on the other, the worker is a share ledger: failed flushes,   *)
(* retries and races with the senders never store a share twice, drop one  *)
(* or reorder two.                                                         *)
Ledger == INSTANCE ShareLedger WITH
    Share <- ShareEvent, stored <- shares, volatile <- share_batch \o QueuedShares
LedgerSpec == Ledger!Spec

Rows(a) == {i \in DOMAIN shares : shares[i].addr = a}

(* The running totals of epoch_stats are those of the rows of shares.      *)
StatsMatchShares ==
    \A a \in Addresses :
        /\ epoch_stats[a].count = Cardinality(Rows(a))
        /\ epoch_stats[a].total = MapThenSumSet(LAMBDA i : Difficulty[shares[i].hash], Rows(a))
        /\ epoch_stats[a].best = Min({shares[i].hash : i \in Rows(a)} \cup {NoHash})

(* Until the first row is pruned, the minute rows of an address add up to  *)
(* its total: no difficulty is counted in two minutes, or in none, when    *)
(* several flushes fall into a minute or a failed one is repeated.         *)
HashratesMatchTotals ==
    Minute <= Retention =>
        \A a \in Addresses :
            MapThenSumSet(LAMBDA m : minute_hashrates[a][m], Minutes) = epoch_stats[a].total

(* A share on disk has its miner on disk, whatever was lost in crashes.    *)
MinersKnown == \A i \in DOMAIN shares : shares[i].addr \in miners

(* An accepted share reaches the disk, unless the process ends first.      *)
SharesPersisted ==
    share_batch # <<>> ~> share_batch = <<>> \/ ~senders

(* Pruning and late flushes stay out of the readers' sight: at one moment  *)
(* of the wall clock no step of the worker lowers the answer to a query    *)
(* about any span the table is kept for, although the reader counts back   *)
(* from the second and the worker from the minute.                         *)
ReadersLoseNothing ==
    [][\A l \in 1 .. Retention : now' = now =>
          /\ PoolHashrate(l)' >= PoolHashrate(l)
          /\ \A a \in Addresses : HashrateForAddress(a, l)' >= HashrateForAddress(a, l)]_vars
=============================================================================
