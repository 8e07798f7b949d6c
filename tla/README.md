# A TLA+ model of the mining pool

The modules in this directory model the control of the pool in `pool/src`: the
Stratum V2 server, the Bitcoin Core IPC thread, the process that joins the two,
the database worker and its readers, the Noise connection under the server, and
the bytes of targets, coinbases and merkle branches. TLC checks them on small
instances; TLAPS proves every safety property of the passing runs for every
value of the constants.

    tlc -workers 2 -config Sv2Server_jobs.cfg MCSv2Server     # a run
    tlapm Sv2ServerProofs.tla                                 # the proofs

## The system

| Component | State it keeps | Operations |
|---|---|---|
| SV2 server, `stratum_sv2.rs` | per connection: `next_channel_id`, `next_job_id`, `channels` (address, prefix, target, current job), a receiver of the template watch | accept, handshake, SetupConnection, OpenExtendedMiningChannel, template broadcast, SubmitSharesExtended |
| Core IPC client, `node_ipc.rs` | the held `BlockTemplate` handle, `template_id` | waitNext, fetch and publish a template, destroy a handle, submit a solution |
| DB worker, `db.rs` | three batches in memory, four tables on disk | receive events, flush in one transaction, final flush |
| DB reader, `db.rs` | none (queries) | two hash-rate queries |
| Noise connection, `noise_connection.rs` | partial frame, cipher states | handshake with time limit, read a frame, write a message |
| Job construction, `jobs.rs` | none | coinbase split, merkle branch, address to script |
| Conversions, `stratum_sv2.rs`, `db.rs` | none | hash rate, compact bits and hash to target or difficulty |
| RPC client, configuration, key generator | none | used once, or by tests only |

How they interact. `main` starts the DB worker thread, then the IPC thread, and
waits for the first template before it starts the server. The IPC thread
publishes templates on a `watch` channel, of which every connection task has a
receiver, and reads solutions from an `mpsc` channel of capacity 8, which the
tasks fill and wait for when it is full. The tasks send events to the DB worker
on an unbounded channel. There is no other shared state.

What is hard here: templates change while frames are handled and while
solutions are queued; every connection keeps its own mark of what it has seen;
a task stops serving while the solution queue is full; an RPC error ends the
IPC thread and nothing else; a flush may fail and is repeated with more in it;
up to a minute of shares is lost when the process ends. `hazards` in
PROJECT.json lists these places line by line.

What makes each component correct:

* server: miner and server agree on the job of every channel; no template is
  missed; no block is refused; work is not handed out twice; the DB hears of a
  miner before it hears of its shares;
* IPC thread: the handle in use is live and a replaced one is given back; one
  number per block template; what Core builds is published; solutions get to
  Core on the block they were mined on;
* DB worker: each share stored once and in order; the derived tables agree with
  the shares; a share is stored eventually; pruning is invisible to readers;
* Noise connection: frames are received once, in order and unaltered although
  the read is cancelled between any two bytes; a frame that has arrived is
  handed on; a handshake ends;
* job construction: the coinbase a share is checked with is a transaction that
  pays the miner everything, and its root is the block's;
* conversions: miner and server compare with the same target; the target is the
  one the declared rate asks for; a block is always a share.

## The modules

**Sv2Server** has one action per handler. A task's own state is invisible to
the other tasks, so a handler runs in one step; the one wait inside a handler
that others can influence, on a full solution queue, is a phase of its own
(`"sending"`). Variables keep the names of the fields. Data is reduced to what
validation can tell apart:

* a template is its number and its block; a job is its id, its template and the
  address the coinbase pays; a share is the job it was mined on and its hash;
* `Work` is what the header depends on besides the miner's own fields. The pool
  rebuilds the header from its own job and prefix: if that is not the work the
  share was mined on, the hash is `MaxHash`, which meets no target;
* hash rates and network targets are mapped to a small ordered range by the
  constants `RateTarget` and `NetworkTarget`; the clamp of the channel target is
  modelled;
* the SV2 client at the other end (external) keeps every job it was sent, so
  shares on old jobs may arrive at any time, and can activate only a job it has;
* a peer may leave at any time; from then on each write succeeds or fails as
  the kernel's buffers have it, and what is written is not received. A peer that
  is there reads: a write to it does not wait for ever, although the code sets
  no limit on it;
* `Ok(()) = template_rx.changed()` turns its branch off when the IPC thread is
  gone, which `TemplateChanged` does by itself: there is nothing newer to see.

Not represented: a share for an unknown channel and an unhandled message type
(both leave the state alone), a coinbase that does not parse (it is built from
the pool's own parts and a fixed number of extranonce bytes), and `db_tx =
None` (main always passes a sender). Nor are the size limits of a job
(`stratum_sv2.rs:559`): `CanBuild` fails only on the address. The script prefix
and the merkle path were held to 255 items when the template was fetched, and
the suffix passes 64K only if Core's zero-valued outputs come within some dozens
of bytes of it, where Core writes one commitment. `openTarget`, `reply` and `announced` are
auxiliary, for the properties only. `Publish`, `TakeSolution`, `NodeStops` and
`TakeDbEvent` are the other components as seen from here; the first three are
shown to be what NodeIpc really does by `pool_process`.

**NodeIpc** has the loop of `ipc_main` in three phases: `"looping"` up to the
first poll of `select!`, `"waiting"` in it and `"fetching"` after the handles
have been exchanged. Core is external: it has a present block template (tip and
fee level), it gives out handles and accepts a solution only on the block it was
mined on. Its refusals for other reasons, such as a timestamp or version the
pool has not checked, are left out.

* A wait is a call: `EnterSelect` sends it, `WaitNextAnswered` is Core's answer,
  `WaitNextSome` the branch that takes it. At the first poll there is no answer
  yet, so a solution already queued always goes first. The branch of a solution
  drops the wait (`WaitDropped`) and what Core has answered or still answers;
  a wait that times out is made again.
* `handles` are the handles the thread got and has not asked Core to destroy.
  A destroy may fail, which the code ignores (`Destroyed`). `leaked` records the
  two ways in which Core comes to keep a handle: such a failure, and an answer
  that was dropped. Whether Cap'n Proto's reference counts free such a handle,
  or the end of the connection does, is outside the code and the model.

Core's chain only grows: reorganisations and falling fees are left out, and with
them the same block template coming back. `Init` is the state in which `start()`
returns; an earlier failure ends the process. `answer`, `handles`, `leaked` and
`verdict` are Core's side of the calls, and record what the properties need.

**Pool** is `main`: both components instantiated on one watch and one solution
queue. `receivers` of the watch is `listening`, since main and the tasks hold
them. Server, IPC thread, Core and DB worker step one at a time. After
`ServerExit` the process is on its way out and the IPC thread may take any
number of further steps before it is gone.

**DbWorker** is `run_worker`: receive, drain, check, with the transaction of
`flush_inner` as one step that commits or changes nothing. `elapsed` is the
monotonic clock since `last_flush`, `now` the wall clock, which never goes back
here. A `HashMap` entry of `minute_windows` exists exactly where the sum is
positive. Times of first sight and of shares are left out: no table is computed
from them.

Its readers (`DbReader`) are the operators `HashrateForAddress` and
`PoolHashrate`: a query of a committed table, without the factor that turns the
sum into a rate.

**ShareLedger** is the abstract specification of the database: shares are
accepted, then stored oldest first, and only a crash loses any.

**NoiseConnection** is `accept_noise` and `read_frame` for one connection. A
byte is its position in the peer's stream, so that a lost, repeated or misplaced
byte is visible; `buf`, `bytes_read` and `decoder` are the fields of
`NoiseReadHalf`. An action ends at an await: `Resume` runs from the call (or
from `yield_now`) to the first read, `Read(n)` is one read that returns `n`
bytes and, when the buffer is full, the decoder call behind it. `Cancel` drops
the future at either await, as `select!` does when a template arrives; the
first frame is read outside `select!` and is never cancelled. The decoder
(codec_sv2, external) goes through its three stages; decryption succeeds on
exactly the bytes that were encrypted, in order. Of the write half there is
only the reply of the handshake. The handshake's decoder is left out, its
message is read in pieces; the time limit may strike at any moment before the
message is complete.

**FrameChannel** is the abstract specification of the reader: frames are sent,
received once and in order, and only a forged frame or an outside reason ends
the connection.

**ShareTarget** is the opening of a channel seen from its target:
`OpenChannel` enters `hashrate_to_target_be`, `DivideByte` is one turn of its
loop with the fixed width of the accumulator and the cast to a byte,
`RegisterChannel` clamps. `num` and `quo` are auxiliary: what the bytes behind
the loop were and have become, as numbers. Floating point is exact in the
model. An infinite declared rate is left out: it saturates the difficulty at
2^128 - 1, for which the accumulator has no room. So are compact targets of
fewer than three bytes. Powers and numbers are folds, `Hashes` is the set of all
byte arrays, so that both TLC and TLAPS can work with them.

**Coinbase** and **Merkle** are operators. `RawTemplate` takes Core's coinbase
apart, `BuildSv2CoinbaseFromTdp` puts it together around the extranonce,
`Deserialize` (the bitcoin crate, external) reads it back, with bounded reads,
minimal lengths and no bytes left over. A hash of a pair is the bracketed pair,
so hashes are equal exactly if what was hashed is. `MerkleRoot` is the
consensus rule: it pairs all the hashes, the coinbase's included, level by level
(`Paired`), and knows of no branch.

**JobBytes** drives them: `BuildJob` builds one job from one of Core's
coinbases, `SubmitShare` is the handler up to the root, `CutCoinbase` the two
builders that cut a serialized coinbase at a placeholder (used by the
repository's tests only, as is `build_merkle_branch`; the running pool is given
its path by Core).

**MC...** modules name the model values and the small target and difficulty
functions; **...Proofs** hold the inductive invariants and the proofs, and
**FoldTheory** what they need to know of folds and concatenations. The
operators called `Mut...` are deliberate mistakes, one per property, none of
them used by a specification: PROJECT.json says which definition each of them
stands in for and which property must then fail.

## The runs

| Run | Checks | Shows |
|---|---|---|
| `server_jobs` | TypeOK, JobAgreement, NoMissedTemplate, BlockRefusedOnlyAfterRetarget, ShareAfterConnect | whatever comes in between, a share that passes the job id check was mined on the work the server rebuilds; no update is hidden by `borrow()` |
| `server_progress` | EventuallyCurrent | templates get through although tasks block on the solution queue |
| `node_thread` | TypeOK, HandleLive, PublishedOnce, RefusedOnlyIfSuperseded, TemplateFollowsCore, QueueMoves | no handle is used after its destroy, and every one that is replaced is asked for, though the destroy may fail and a dropped answer may leave one behind; a refusal always means a newer template was out; a full queue gets room again; templates are published once solutions stop coming, whatever waits were dropped before |
| `pool_process` | ServerSpec, NodeSpec, JobsFollowCore, FinderReleased | the composition implements both component specifications; from Core to the miner's job, end to end, once no more blocks are found; a task that has found a block is not held for ever by a full queue or by the end of the IPC thread |
| `db_worker` | TypeOK, StatsMatchShares, HashratesMatchTotals, MinersKnown, LedgerSpec, SharesPersisted, ReadersLoseNothing | exactly-once storage and agreeing tables across failures and restarts; small batches are written too; at the edge of the retention a reader misses nothing |
| `noise_frames` | TypeOK, NoByteLost, ChannelSpec, FramesGetThrough, HandshakeEnds | `read_frame` is safe to cancel and implements FrameChannel; cancellations do not starve it; a frame without payload is not held back; half a handshake message does not hold a task |
| `share_bytes` | TypeOK, DivisionExact, TargetIsQuotient, SameVerdict, BlocksPass, AcceptedIsCredited, CoinbasePays, RootMatches, SplitReadsBack | the byte-level algorithms agree with arithmetic, with a parser and with the consensus rule for the root, on every bounded input |

Five runs state what a comment or a document says and show that the code does
otherwise (`findings` in PROJECT.json quotes the lines):

| Run | What TLC finds |
|---|---|
| `server_retarget` | a channel opened before the network target became easier refuses a block |
| `server_rebroadcast` | a fresh channel gets a second job on the same template |
| `server_extranonce` | two connections of one miner get the same work |
| `node_starved` | solutions that keep coming keep a new template from being published |
| `pool_lostblock` | a fee refresh makes Core refuse a valid block on its tip |

`node_starved` is reachable although blocks are rare: a share is compared only
with the current job id, so the one that won is accepted and sent to Core again
as often as it is submitted, until a new template replaces the job, which is
what it keeps back. TemplateFollowsCore and JobsFollowCore therefore have the
condition that the queue is empty from some point on.

Three more disagreements are noted here without a run. One error in the loop
(`WaitNextError`, `FetchError`) ends the IPC thread for good and the server goes
on with the last template, where `node_ipc.rs:44` says that the receiver is
"updated on every new template". Such an error leaves `ipc_main` through `?` and
skips the destroy that the comment at `node_ipc.rs:139` wants before the socket
closes; the handle then stays in `handles`, which HandleLive allows. And every
flush adds 1 to `active_minutes` (`db.rs:306`), also one forced by a full batch,
where `ACTION_PLAN.md:138` says "Cada minuto".

A property has a limit, too. AcceptedIsCredited is a lower bound only: a hash
whose first eight bytes are zero is credited with `f64::MAX` (`db.rs:334`), and
any block of today's main network has such a hash, so the difficulty sums of its
finder become infinite with the second one.

Bounds, all of them named constants in the guards. Two channels and three
templates give a channel an old, a current and a skipped template; one
connection is enough for the safety properties of the server, because tasks
share only the queues, and two are used where they compete (`server_progress`)
or are compared (`server_extranonce`). Capacity 1 of the solution queue makes
it full with one solution. `MaxDbQueue` bounds the DB queue together with the
tasks about to write to it, so that the bound never stops a task half-way.
In `node_thread`, three tips with two fee levels let a template be superseded
both by fees and by a block. In `pool_process` there are two tips and one miner,
and only a block supersedes a template, which keeps the product of server and
node small (`pool_lostblock` has both). The batch limit of the DB worker is 2, a
minute has 2 ticks, one minute is retained out of three: flushes within one
minute, across minutes and with pruning all happen. `MaxTime` stops the wall
clock, not `elapsed`; `MaxEvents` also ends the stream of events that in the code
could keep the worker in its drain loop (`db.rs:190`), so SharesPersisted does
not speak of an endless one.

Frames of `noise_frames` have payloads of no bytes, of a header's length (the
buffer is then not resized between the stages) and of another length, three in
a row; reads return any number of bytes. In `share_bytes` a byte has 4 values
and a target 5 bytes, so that all 1024 hashes are compared with every target;
the difficulties reach beyond what two bytes hold. For coinbases a byte has 8
values, which puts the changes of width of a length at 5 and 64 where the code
has 253 and 65536: scripts of 9, 63 and 64 bytes and 1, 2, 4 and 5 outputs lie
on both sides. A placeholder's bytes also occur in heights, payout scripts and
commitments. A pushed height is shorter than the placeholder, which shares no
byte with the rest of what precedes it, as in the code; TLC evaluates both as
`PlaceholderAssumption`. Zero to eight
transactions give every shape of the upper levels of a tree up to depth four.

`CHECK_DEADLOCK FALSE` is set where the program really may stop: the server
exits when `accept` fails, the IPC thread ends, a connection closes, and a
behaviour of `share_bytes` ends with one channel or share.

Fairness, and why the code justifies it:

* `SF` of `TemplateChanged`: `select!` chooses at random among its ready
  branches, and `changed()` on a version not yet seen is ready at its first poll,
  so it is taken if that happens again and again;
* `SF` of `WaitNextAnswered`: a wait that is left alone lasts ten seconds, in
  which Core looks for a newer block template and answers if it has one. It is
  `SF` because each time-out ends a wait and the next turn makes another; the
  properties rest on it only where no solution drops waits any more;
* `WF` of `WaitNextSome`, `SubmitSolution` and `EnterSelect`: the thread runs,
  and takes a branch that is ready and stays so. `WF` is all that can be assumed
  of `WaitNextSome`: a solution takes its answer away. It is enough for
  `SubmitSolution`: with a solution queued the first poll of the next turn finds
  it, and no other branch;
* `SF` of `SolutionSent`: tokio's semaphore serves waiting senders in order;
* `WF` of `CloseConnection` for a peer that has left: the read fails; a silent
  peer is not assumed to be disconnected;
* `WF` of `FetchTemplate`/`Shutdown`, `TakeSolution`, `TakeDbEvent` and the DB
  worker: the threads run;
* `SF` of a successful flush: it is repeated every minute, and SQLite's disk
  and locks are assumed not to fail for ever;
* `SF` of `ReadSome`: a read that is ready each time `select!` polls is taken in
  the end; `WF` of `Resume` and of the handshake's steps: the task runs;
* `WF` of `HandshakeTimeout`: tokio's timer fires. Nothing is assumed of the
  peer, who may stop at any byte;
* errors are never assumed to happen, and never excluded.

## The proofs

`Sv2ServerProofs` and `NodeIpcProofs` prove `Spec => []P` for the type
invariants and for JobAgreement, NoMissedTemplate, BlockRefusedOnlyAfterRetarget
(server), HandleLive, PublishedOnce and RefusedOnlyIfSuperseded (IPC thread).
They assume that the bounds are naturals, that targets lie below `MaxHash`, and
that `None` is not one of the values it stands beside.

*Server.* None of the properties is inductive alone. A share is validated
correctly because job ids are never reused, and that needs every id the client
or the server knows to be below `next_job_id` (`ChannelOK`, `ViewOK`). The
client works on the current job because a broadcast reaches all channels while
the peer is there, and that needs every open channel's address to be payable
(`ChannelOK`): it was, or the open would have failed. A template marked seen is
on every channel because the watch moves only to numbers above every `seen`
(`ConnOK`). The steps are proved connection by connection: a step of one leaves
the others as they were (`OtherConnections`), ending tasks leaves nothing to
prove (`ResetOK`), and opening and broadcasting have lemmas of their own
(`OpenOK`, `BroadcastOK`).

*IPC thread.* `Progression` orders Core's block templates: what has been
published is not newer than the held block, the held block is not newer than
Core's present one, Core's answer to a wait lies between these two, and on the
way to `select!` and in it the newest published template is the held one. The
last part is why a refusal implies a superseded template, the others why no
block template is published twice. It is also where an error in
`fetch_template` matters: the handle has been exchanged and not published, and
only the end of the thread keeps the invariant. HandleLive is inductive with it:
an exchange leaves the new handle in place of the old one, whether or not Core
carried out the destroy.

*Noise reader.* `NoiseConnectionProofs` proves TypeOK, NoByteLost and the
refinement `Spec => ChannelSpec`, for all lengths of handshake, header and
payloads and any number of frames. The inductive invariant says where in the
peer's stream the reader is: the frames lie end to end (`StreamOK`), the cipher
stands at the start of the header or of the payload of the first frame not yet
delivered (`DecoderOK`), and in the middle of a stage the buffer has the size
of that stage and holds what follows the cipher's position (`StageOK`). It is
needed because NoByteLost alone does not say that the buffer, when full, is the
part of the frame the decoder waits for; with it every decryption of a genuine
frame succeeds, and so a step that closes the connection as garbled maps to a
forged frame. `StageStep` is shared by `Resume` and `Read`.

*The DB hears of a miner first.* ShareAfterConnect orders the queue to the DB
worker. It follows from `ChannelsHeard`: the miner of an open channel has been
announced, or its announcement is queued. Opening a channel queues it in the
same step, a share is queued behind it, and taking from the front of the queue
moves it to `announced` before any share behind it gets there.

*Pool.* `PoolProofs` instantiates both proof modules (`SameServer`, `SameNode`
show that they speak of the components `Pool` composes) and proves
`Spec => ServerSpec`, `Spec => NodeSpec`, and from these the server's invariants
for the whole process; those of the IPC thread follow from `NodeSpec` alike. The invariant is that of both
components and `Link`: the queue is open while the thread runs, the thread's
next number is one above the watch's, and every job of a channel and every
solution being sent is on a published template. `Link` is what each module
assumes of its environment: without it the server could not be shown to queue
only solutions that NodeIpc accepts, nor the thread to publish only numbers
that Sv2Server expects. `PoolAssumption` has the assumptions of both.

*DB worker.* `DbWorkerProofs` proves TypeOK, StatsMatchShares,
HashratesMatchTotals, MinersKnown, the refinement `Spec => LedgerSpec` and the
action property ReadersLoseNothing, for any batch limit, retention and number of
miners (finite, since a query sums over them). What is on disk cannot be an
invariant without what is in memory, since the next flush writes both:
`StatsInv` says that the tables agree now and will after the next flush
(`NextStats`), `WindowsInv` that a miner's window is what that flush adds to its
total, `MinersInv` that a share overtakes the announcement of its miner nowhere
between the connection and the disk. A failed flush changes nothing and a crash
empties the memory, so each preserves them; a successful one turns "after the
next flush" into "now" (`WrittenOK`, `FlushOK`). For the ledger the shares of
the queue, of the batch and of the table, concatenated, are what has been
accepted (`LedgerStep`). For the readers, a row a flush prunes lies outside every
span a query may ask for, at the second the query is made (`RowsInSight`).

*Target.* `ShareTargetProofs` proves every property of ShareTarget for any size
of a byte, number of bytes and divisor, assuming that the accumulator holds the
divisor times a byte and that compact targets are well formed
(`TargetAssumption`). DivisionExact is one step of the loop: remainder times
base plus digit is below that product, so neither the accumulator wraps nor the
cast to a byte cuts (`DivideByteOK`). TargetIsQuotient needs the whole loop:
`Divided` says that `num` and `quo` are the values of the first `pos` bytes
before and after (`Prefix`), and that the bytes ahead are untouched. For the
verdicts, the order of byte arrays is that of the numbers they stand for
(`LessIsBelow`), the order of their hex strings is that of the arrays
(`HexOrder`), and the number a compact target stands for is its mantissa shifted
(`CompactValue`). `Opened` adds that an open channel's target is the quotient or
the network's, and never below the network's: BlocksPass and AcceptedIsCredited
follow.

*Job bytes.* `JobBytesProofs` proves CoinbasePays, RootMatches and
SplitReadsBack for any size of a byte and of a hash, any coinbase, script and
extranonce, and any number of outputs and transactions. `CoinbaseAssumption` has
what the types of the code give: bytes are bytes, versions, sequences and lock
times have 4 bytes, lengths and the sum of the outputs 8 (`checked_sum` refuses
a larger one). `JobInv` says that a job's parts and path are those of what it
was built from and that a checked share's coinbase was read as it was meant;
that it is inductive (`JobInductive`) rests on three arguments.

* *What is written is read back.* `Reads(bytes, fields, vals)` says that the
  parser gets these values from these bytes, whatever it has read before and
  whatever follows. Fields have it (`ReadsFields`), from `FromLeBytes`, an
  integer written in enough bytes is read as itself, and from the widths of a
  size; it composes (`ReadsBoth`); and by induction over the outputs it holds of
  all of them (`OutputsRead`). `ReadsBack` is the result for a whole coinbase,
  with a witness and without.
* *What the pool joins is what is written.* The pool's own `write_varint` agrees
  with the crate's sizes (`VarIntIsCompact`), the value paid is the sum and the
  kept outputs are the empty ones, so the two parts around the extranonce are
  the serialization of the transaction that was meant (`JoinedIsWire`), and
  `ShareReads` follows.
* *The branch leads to the root.* After as many turns of both loops the level of
  the full tree is the root over the branch so far, followed by the level
  `build_merkle_branch` is at (`InStep`), and the levels get shorter until
  nothing is left (`BranchLeadsToRoot`).

For SplitReadsBack the first match must be the placeholder itself. That is not
true of any placeholder: `PlaceholderAssumption` states what is true of
`0xdeadbeefcafebabe` and of the 36 bytes `0xcc` (the pool's tag, plain text in
the code, is the byte 1 in the model). The bytes before it are not its
own, except possibly those of the height; the height is shorter than the
placeholder and bytes follow it that are not the placeholder's, so a match can
neither lie within it nor reach beyond it (`NoEarlierMatch`). What follows the
placeholder may hold it again. `SplitFinds` turns this into the cut, and
`CutReads` reads it back with `ReadsBack`.

*Folds.* The sums, statistics and numbers of the model are folds
(`MapThenSumSet`, `FoldLeft`), recursive functions over the subsets of a set.
`FoldTheory` proves that the recursion has a solution and what a fold gives for
one element more, in any order if the operation commutes (`FoldAny`) and for one
element appended (`FoldAppend`). It also has what the proofs need of
concatenated sequences and parts of them. Operation and order are its constants, and each
fold is an instance. Induction is stated with a set in place of a predicate
(`NatInduct`, `SubsetInduct`, `SeqInduct`), from the well-foundedness of the
naturals, which keeps it within first-order reach of the provers.

TLC checked the inductive invariants on the instances of the runs before they
were proved.

Only model-checked: the liveness properties EventuallyCurrent,
TemplateFollowsCore, QueueMoves, JobsFollowCore, FinderReleased, SharesPersisted,
FramesGetThrough and HandshakeEnds, which need fairness and ENABLED and so are
out of the prover's reach. The abstract specifications state no fairness: the
refinements are about safety.

## What is not modelled, and the plan

Left out for good: the RPC client (`rpc.rs`) and `bin/keygen.rs` (no state,
tests and tooling), configuration, logging, the field layout of SV2 and Cap'n
Proto messages, cryptography; of the Noise connection the write half beyond its
outcome, the initiator's handshake and the raw-frame helpers, which only tests
use; of `jobs.rs` the parsing of addresses and hex strings, which the bitcoin
and hex crates do.

Hazards without a property, because no line of the repository says what should
happen: shares submitted twice, a winning share whose acknowledgement cannot be
written, a client that is silent after the handshake, a peer that stops
reading. And one because the model's numbers are exact: difficulty sums that
become infinite.

What could be added: Pool composed with DbWorker, for MinersKnown end to end.
`online` of DbWorker is what ShareAfterConnect says of the server.
