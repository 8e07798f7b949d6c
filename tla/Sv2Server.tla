------------------------------ MODULE Sv2Server ------------------------------
(***************************************************************************)
(* The Stratum V2 mining server of pool/src/stratum_sv2.rs: the accept     *)
(* loop, one task per TCP connection, channels, jobs and share validation. *)
(*                                                                         *)
(* A connection task owns its ConnectionState and shares three channels    *)
(* with the rest of the process: the template watch it reads, the bounded  *)
(* solution queue it fills (both belong to node_ipc.rs) and the DB event   *)
(* queue.  A handler's own state is invisible to the other tasks, so a     *)
(* handler is one action, except that a task parked on a full solution     *)
(* queue (phase "sending") is a state of its own.                          *)
(***************************************************************************)
EXTENDS Naturals, Sequences, FiniteSets

CONSTANTS
    Conns,             \* connection slots; a closed one may be used again
    MaxChannels,       \* bound: channels one connection opens
    MaxTemplates,      \* bound: templates published after the first
    MaxDbQueue,        \* bound: events in, or about to enter, the DB queue
    SolutionCapacity,  \* capacity of the solution queue (8 in node_ipc.rs)
    Identities,        \* address parts of the user identities miners declare
    ValidAddresses,    \* strings that parse as Bitcoin addresses
    PoolAddress,       \* the configured fall-back address, never validated
    Rates,             \* nominal hash rates
    RateTarget,        \* hashrate_to_target_be on Rates
    Blocks,            \* block templates, as far as they differ for a miner
    NetworkTarget,     \* compact_to_target_be of each template's n_bits
    MaxHash,           \* the largest hash; it meets no target
    Versions,          \* protocol versions a client may offer; the pool has 2
    None

ChannelIds == 0 .. MaxChannels - 1
Hashes == 0 .. MaxHash
Addresses == Identities \cup {PoolAddress}

(* RawTemplate: the node numbers its templates 0, 1, 2, ... and publishes   *)
(* each of them once, so the id is also the version of the watch channel.  *)
Template == [id : 0 .. MaxTemplates, block : Blocks]

(* What a job fixes of the block: its template and who the coinbase pays.  *)
JobInfo == [id : Nat, tmpl : Template, addr : Addresses]

(* openTarget is auxiliary: the network target at open time.               *)
ChannelInfo == [addr : Addresses, prefix : ChannelIds, target : Hashes,
                openTarget : Hashes, job : JobInfo \cup {None}]

(* What the SV2 client at the other end knows of one channel: every job it *)
(* was ever sent (a share on an old one may still be in flight) and the id *)
(* of the job that the last SetNewPrevHash activated.                      *)
View == [prefix : ChannelIds, jobs : SUBSET JobInfo, active : Nat \cup {None}]

DbEvent == [kind : {"connected", "share"}, addr : Addresses]
Solution == [tmpl : Template, addr : Addresses]
Pending == [chan : ChannelIds, sol : Solution]
Reply == [kind : {"none", "stale", "low", "success"},
          wins : BOOLEAN, retargeted : BOOLEAN]
Phases == {"idle", "handshake", "setup", "running", "sending"}

ASSUME BoundsAssumption ==
    /\ MaxChannels \in Nat /\ MaxTemplates \in Nat /\ MaxDbQueue \in Nat
    /\ SolutionCapacity \in Nat /\ MaxHash \in Nat /\ Versions \subseteq Nat
ASSUME TargetsAssumption ==
    /\ RateTarget \in [Rates -> Hashes \ {MaxHash}]
    /\ NetworkTarget \in [Blocks -> Hashes \ {MaxHash}]
ASSUME NoneAssumption ==
    None \notin Nat \cup JobInfo \cup ChannelInfo \cup View \cup Pending

VARIABLES
    listening,        \* the accept loop still runs
    phase,            \* where each connection task is
    peer,             \* "up", or "gone" once the TCP peer has left
    seen,             \* version each task's template_rx has marked seen
    next_channel_id,  \* ConnectionState::next_channel_id
    next_job_id,      \* ConnectionState::next_job_id
    channels,         \* ConnectionState::channels
    pending,          \* the solution a task in phase "sending" is sending
    client,           \* the miners' side: their view of each channel
    reply,            \* the outcome of the last share, for the properties
    watch,            \* value of the template watch
    solQ,             \* the solution queue
    solOpen,          \* its receiver, the IPC thread, is alive
    dbQ,              \* events sent to the DB worker and not yet received
    announced         \* addresses the DB worker has been told are connected

connVars == <<phase, peer, seen, next_channel_id, next_job_id, channels,
              pending, client>>
nodeVars == <<watch, solQ, solOpen>>
dbVars == <<dbQ, announced>>
vars == <<listening, connVars, reply, nodeVars, dbVars>>

-----------------------------------------------------------------------------
(* ---- Pure parts ---- *)

(* The address before the first '.', or the pool's if it does not parse.   *)
ParseMinerAddress(ident) ==
    IF ident \in ValidAddresses THEN ident ELSE PoolAddress

MutTargetUnclamped(rate, network) == RateTarget[rate]

(* The share target of a new channel, never harder than the network's.     *)
ChannelTarget(rate, network) ==
    IF network > RateTarget[rate] THEN network ELSE RateTarget[rate]

(* build_job_messages fails on an address that has no script.              *)
CanBuild(addr) == addr \in ValidAddresses

(* The proof of work of a share is over the header that the job, the       *)
(* extranonce prefix and the miner's own fields determine.                 *)
Work(job, prefix) == [tmpl |-> job.tmpl, addr |-> job.addr, prefix |-> prefix]

(* The hash the pool computes for a share that hashed to h where it was    *)
(* mined: another header hashes to something that meets no target.         *)
PoolHash(h, mined, rebuilt) == IF mined = rebuilt THEN h ELSE MaxHash

OpenIds(c) == {k \in ChannelIds : channels[c][k] # None}

(* ---- The SV2 client ---- *)

OnNewJob(v, j) == [v EXCEPT !.jobs = @ \cup {j}]

(* A client can only activate a job it already has.                        *)
OnSetNewPrevHash(v, id) ==
    IF \E j \in v.jobs : j.id = id THEN [v EXCEPT !.active = id] ELSE v

(* NewExtendedMiningJob is written before the SetNewPrevHash that names it. *)
JobSent(v, j) == OnSetNewPrevHash(OnNewJob(v, j), j.id)

(* ---- Pieces of the handlers ---- *)

(* watch::Receiver::borrow reads the value and does not mark it seen.      *)
MutBorrowMarksSeen(c) == seen' = [seen EXCEPT ![c] = watch.id]
Borrow(c) == UNCHANGED seen

BorrowAndUpdate(c) == seen' = [seen EXCEPT ![c] = watch.id]

MutJobIdReused(c) == UNCHANGED next_job_id
ConsumeJobId(c) == next_job_id' = [next_job_id EXCEPT ![c] = @ + 1]

(* Whether a write succeeds: always while the peer is there, and as the    *)
(* kernel's buffers have it once the peer has gone.                        *)
WriteResults(c) == IF peer[c] = "up" THEN {TRUE} ELSE BOOLEAN

MutConnectedNotSent(addr) == UNCHANGED dbQ
DbConnected(addr) == dbQ' = Append(dbQ, [kind |-> "connected", addr |-> addr])
DbShare(addr) == dbQ' = Append(dbQ, [kind |-> "share", addr |-> addr])

(* The bound on the DB queue, which has none in the code: the events in it *)
(* and those of the tasks that are about to send one.                      *)
DbRoom ==
    Len(dbQ) + Cardinality({c \in Conns : phase[c] = "sending"}) < MaxDbQueue

NoChannels == [k \in ChannelIds |-> None]

(* The task returns: its ConnectionState, its receiver and the socket are  *)
(* dropped, and whatever the peer had in flight is lost.                   *)
Reset(S) ==
    /\ phase' = [c \in Conns |-> IF c \in S THEN "idle" ELSE phase[c]]
    /\ peer' = [c \in Conns |-> IF c \in S THEN "up" ELSE peer[c]]
    /\ seen' = [c \in Conns |-> IF c \in S THEN 0 ELSE seen[c]]
    /\ next_channel_id' = [c \in Conns |-> IF c \in S THEN 0 ELSE next_channel_id[c]]
    /\ next_job_id' = [c \in Conns |-> IF c \in S THEN 1 ELSE next_job_id[c]]
    /\ channels' = [c \in Conns |-> IF c \in S THEN NoChannels ELSE channels[c]]
    /\ pending' = [c \in Conns |-> IF c \in S THEN None ELSE pending[c]]
    /\ client' = [c \in Conns |-> IF c \in S THEN NoChannels ELSE client[c]]

Disconnect(c) == Reset({c})

-----------------------------------------------------------------------------
(* ---- Connection life cycle ---- *)

(* Each connection gets a clone of the server's own receiver, which has    *)
(* seen only the first template: seen stays 0.                             *)
Accept(c) ==
    /\ listening
    /\ phase[c] = "idle"
    /\ phase' = [phase EXCEPT ![c] = "handshake"]
    /\ UNCHANGED <<listening, peer, seen, next_channel_id, next_job_id, channels,
                   pending, client, reply, nodeVars, dbVars>>

(* accept() fails: run() returns the error and main ends the process.      *)
ServerExit ==
    /\ listening
    /\ listening' = FALSE
    /\ Reset(Conns)
    /\ UNCHANGED <<reply, nodeVars, dbVars>>

HandshakeDone(c) ==
    /\ phase[c] = "handshake"
    /\ phase' = [phase EXCEPT ![c] = "setup"]
    /\ UNCHANGED <<listening, peer, seen, next_channel_id, next_job_id, channels,
                   pending, client, reply, nodeVars, dbVars>>

(* A bad or late handshake message: accept_noise gives up after 10 s.      *)
HandshakeFails(c) ==
    /\ phase[c] = "handshake"
    /\ Disconnect(c)
    /\ UNCHANGED <<listening, reply, nodeVars, dbVars>>

(* The first frame after the handshake, as far as the server looks at it.  *)
FirstFrames == [setup : BOOLEAN, mining : BOOLEAN, min : Versions, max : Versions]

SetupAccepted(m) == m.setup /\ m.mining /\ m.min <= 2 /\ m.max >= 2

SetupConnection(c, m) ==
    /\ phase[c] = "setup"
    /\ \/ /\ SetupAccepted(m) /\ TRUE \in WriteResults(c)
          /\ phase' = [phase EXCEPT ![c] = "running"]
          /\ UNCHANGED <<peer, seen, next_channel_id, next_job_id, channels,
                         pending, client>>
       \/ /\ ~SetupAccepted(m) \/ FALSE \in WriteResults(c)
          /\ Disconnect(c)
    /\ UNCHANGED <<listening, reply, nodeVars, dbVars>>

PeerGone(c) ==
    /\ phase[c] # "idle"
    /\ peer[c] = "up"
    /\ peer' = [peer EXCEPT ![c] = "gone"]
    /\ UNCHANGED <<listening, phase, seen, next_channel_id, next_job_id, channels,
                   pending, client, reply, nodeVars, dbVars>>

(* read_frame returns an error: the peer has left, or a frame is garbage.  *)
CloseConnection(c) ==
    /\ phase[c] \in {"setup", "running"}
    /\ Disconnect(c)
    /\ UNCHANGED <<listening, reply, nodeVars, dbVars>>

-----------------------------------------------------------------------------
(* ---- Channels and jobs ---- *)

(* The channel handle_open_extended_mining_channel registers, with its     *)
(* first job.  The prefix is the channel id and nothing else.              *)
NewChannel(c, addr, rate) ==
    [addr |-> addr, prefix |-> next_channel_id[c],
     target |-> ChannelTarget(rate, NetworkTarget[watch.block]),
     openTarget |-> NetworkTarget[watch.block],
     job |-> [id |-> next_job_id[c], tmpl |-> watch, addr |-> addr]]

OpenChannel(c, ident, rate) ==
    LET k == next_channel_id[c]
        addr == ParseMinerAddress(ident)
        chan == NewChannel(c, addr, rate)
        view == [prefix |-> chan.prefix, jobs |-> {}, active |-> None]
    IN  /\ phase[c] = "running"
        /\ k < MaxChannels
        /\ DbRoom
        /\ CanBuild(addr)
        /\ TRUE \in WriteResults(c)
        /\ Borrow(c)
        /\ next_channel_id' = [next_channel_id EXCEPT ![c] = @ + 1]
        /\ ConsumeJobId(c)
        /\ channels' = [channels EXCEPT ![c][k] = chan]
        /\ client' = IF peer[c] = "up"
                     THEN [client EXCEPT ![c][k] = JobSent(view, chan.job)]
                     ELSE client
        /\ DbConnected(addr)
        /\ UNCHANGED <<listening, phase, peer, pending, reply, nodeVars, announced>>

(* The channel is registered without a job and then building or writing    *)
(* the job fails: the error ends the task.                                 *)
OpenFails(c, ident) ==
    /\ phase[c] = "running"
    /\ next_channel_id[c] < MaxChannels
    /\ \/ ~CanBuild(ParseMinerAddress(ident))
       \/ FALSE \in WriteResults(c)
    /\ Disconnect(c)
    /\ UNCHANGED <<listening, reply, nodeVars, dbVars>>

(* send_jobs_to_all_channels stops at the first job it cannot build or     *)
(* write, in the arbitrary order of a HashMap: sent is what it got to.     *)
Broadcasts(c) ==
    IF FALSE \in WriteResults(c) \/ \E k \in OpenIds(c) : ~CanBuild(channels[c][k].addr)
    THEN SUBSET {k \in OpenIds(c) : CanBuild(channels[c][k].addr)}
    ELSE {OpenIds(c)}

(* The changed() branch.  A job id is used up even if there is no channel, *)
(* and a failed broadcast is only logged.                                  *)
TemplateChanged(c) ==
    /\ phase[c] = "running"
    /\ seen[c] # watch.id
    /\ BorrowAndUpdate(c)
    /\ ConsumeJobId(c)
    /\ \E sent \in Broadcasts(c) :
         LET Job(k) == [id |-> next_job_id[c], tmpl |-> watch,
                        addr |-> channels[c][k].addr]
         IN  /\ channels' = [channels EXCEPT ![c] =
                   [k \in ChannelIds |->
                      IF k \in sent THEN [channels[c][k] EXCEPT !.job = Job(k)]
                                    ELSE channels[c][k]]]
             /\ client' = [client EXCEPT ![c] =
                   [k \in ChannelIds |->
                      IF k \in sent /\ client[c][k] # None /\ peer[c] = "up"
                      THEN JobSent(client[c][k], Job(k)) ELSE client[c][k]]]
    /\ UNCHANGED <<listening, phase, peer, next_channel_id, pending, reply,
                   nodeVars, dbVars>>

-----------------------------------------------------------------------------
(* ---- Shares ---- *)

(* Every handler below takes a share mined on a job j the client was sent  *)
(* for channel k, with hash h.  A share for a channel that is not open is  *)
(* dropped without a reply, which changes nothing.                         *)

ShareReply(kind, c, k, j, h) ==
    [kind |-> kind,
     wins |-> h <= NetworkTarget[j.tmpl.block],
     retargeted |-> NetworkTarget[j.tmpl.block] # channels[c][k].openTarget]

(* A reply that cannot be written ends the task.                           *)
ReplyError(kind, c, k, j, h) ==
    /\ reply' = ShareReply(kind, c, k, j, h)
    /\ \/ TRUE \in WriteResults(c) /\ UNCHANGED connVars
       \/ FALSE \in WriteResults(c) /\ Disconnect(c)
    /\ UNCHANGED <<listening, nodeVars, dbVars>>

Submitted(c, k, j) ==
    /\ phase[c] = "running"
    /\ channels[c][k] # None
    /\ client[c][k] # None
    /\ j \in client[c][k].jobs

IsStale(c, k, j) ==
    channels[c][k].job = None \/ channels[c][k].job.id # j.id

RejectStale(c, k, j, h) ==
    /\ Submitted(c, k, j)
    /\ IsStale(c, k, j)
    /\ ReplyError("stale", c, k, j, h)

(* The hash of the header rebuilt from the channel's prefix and job.       *)
Rebuilt(c, k, j, h) ==
    PoolHash(h, Work(j, client[c][k].prefix),
                Work(channels[c][k].job, channels[c][k].prefix))

RejectLow(c, k, j, h) ==
    /\ Submitted(c, k, j)
    /\ ~IsStale(c, k, j)
    /\ Rebuilt(c, k, j, h) > channels[c][k].target
    /\ ReplyError("low", c, k, j, h)

IsBlock(c, k, j, h) ==
    Rebuilt(c, k, j, h) <= NetworkTarget[channels[c][k].job.tmpl.block]

(* Acknowledge, then record: a share whose reply cannot be written is not  *)
(* recorded, and the error ends the task.                                  *)
Acknowledge(c, k) ==
    \/ /\ TRUE \in WriteResults(c)
       /\ DbShare(channels[c][k].addr)
       /\ phase' = [phase EXCEPT ![c] = "running"]
       /\ pending' = [pending EXCEPT ![c] = None]
       /\ UNCHANGED <<peer, seen, next_channel_id, next_job_id, channels, client>>
    \/ /\ FALSE \in WriteResults(c)
       /\ Disconnect(c)
       /\ UNCHANGED dbQ

AcceptShare(c, k, j, h) ==
    /\ Submitted(c, k, j)
    /\ ~IsStale(c, k, j)
    /\ Rebuilt(c, k, j, h) <= channels[c][k].target
    /\ ~IsBlock(c, k, j, h)
    /\ DbRoom
    /\ reply' = ShareReply("success", c, k, j, h)
    /\ Acknowledge(c, k)
    /\ UNCHANGED <<listening, nodeVars, announced>>

(* The share is a block: the task waits for room in the solution queue and *)
(* reads no frame and no template meanwhile.                               *)
FindBlock(c, k, j, h) ==
    /\ Submitted(c, k, j)
    /\ ~IsStale(c, k, j)
    /\ Rebuilt(c, k, j, h) <= channels[c][k].target
    /\ IsBlock(c, k, j, h)
    /\ DbRoom
    /\ reply' = ShareReply("success", c, k, j, h)
    /\ phase' = [phase EXCEPT ![c] = "sending"]
    /\ pending' = [pending EXCEPT ![c] =
                     [chan |-> k, sol |-> [tmpl |-> channels[c][k].job.tmpl,
                                           addr |-> channels[c][k].job.addr]]]
    /\ UNCHANGED <<listening, peer, seen, next_channel_id, next_job_id, channels,
                   client, nodeVars, dbVars>>

MutSendUnbounded(c) ==
    /\ phase[c] = "sending"
    /\ solQ' = Append(solQ, pending[c].sol)
    /\ Acknowledge(c, pending[c].chan)
    /\ UNCHANGED <<listening, reply, watch, solOpen, announced>>

MutSendAwaitsReceiver(c) ==
    /\ phase[c] = "sending"
    /\ solOpen
    /\ Len(solQ) < SolutionCapacity
    /\ solQ' = Append(solQ, pending[c].sol)
    /\ Acknowledge(c, pending[c].chan)
    /\ UNCHANGED <<listening, reply, watch, solOpen, announced>>

(* send() finds room, or fails because the IPC thread is gone; the result  *)
(* is ignored either way.                                                  *)
SolutionSent(c) ==
    /\ phase[c] = "sending"
    /\ \/ /\ solOpen
          /\ Len(solQ) < SolutionCapacity
          /\ solQ' = Append(solQ, pending[c].sol)
       \/ /\ ~solOpen
          /\ UNCHANGED solQ
    /\ Acknowledge(c, pending[c].chan)
    /\ UNCHANGED <<listening, reply, watch, solOpen, announced>>

-----------------------------------------------------------------------------
(* ---- The rest of the process, as far as this component sees it ---- *)

(* The IPC thread publishes the next template.                             *)
Publish(t) ==
    /\ solOpen
    /\ t.id = watch.id + 1
    /\ watch' = t
    /\ UNCHANGED <<listening, connVars, reply, solQ, solOpen, dbVars>>

TakeSolution ==
    /\ solQ # <<>>
    /\ solQ' = Tail(solQ)
    /\ UNCHANGED <<listening, connVars, reply, watch, solOpen, dbVars>>

(* The IPC thread ends: the queue is dropped with its receiver, and no     *)
(* template is ever published again.                                       *)
NodeStops ==
    /\ solOpen
    /\ solOpen' = FALSE
    /\ solQ' = <<>>
    /\ UNCHANGED <<listening, connVars, reply, watch, dbVars>>

TakeDbEvent ==
    /\ dbQ # <<>>
    /\ dbQ' = Tail(dbQ)
    /\ announced' = announced \cup
         (IF Head(dbQ).kind = "connected" THEN {Head(dbQ).addr} ELSE {})
    /\ UNCHANGED <<listening, connVars, reply, nodeVars>>

-----------------------------------------------------------------------------
(* ---- The specification ---- *)

Init ==
    /\ listening = TRUE
    /\ phase = [c \in Conns |-> "idle"]
    /\ peer = [c \in Conns |-> "up"]
    /\ seen = [c \in Conns |-> 0]
    /\ next_channel_id = [c \in Conns |-> 0]
    /\ next_job_id = [c \in Conns |-> 1]
    /\ channels = [c \in Conns |-> NoChannels]
    /\ pending = [c \in Conns |-> None]
    /\ client = [c \in Conns |-> NoChannels]
    /\ reply = [kind |-> "none", wins |-> FALSE, retargeted |-> FALSE]
    /\ watch \in {t \in Template : t.id = 0}
    /\ solQ = <<>>
    /\ solOpen = TRUE
    /\ dbQ = <<>>
    /\ announced = {}

(* The jobs the client holds on channel k, none when there is no channel.  *)
ClientJobs(c, k) == IF client[c][k] = None THEN {} ELSE client[c][k].jobs

ShareNext(c) ==
    \E k \in ChannelIds, h \in Hashes : \E j \in ClientJobs(c, k) :
        \/ RejectStale(c, k, j, h)
        \/ RejectLow(c, k, j, h)
        \/ AcceptShare(c, k, j, h)
        \/ FindBlock(c, k, j, h)

ConnNext(c) ==
    \/ Accept(c)
    \/ HandshakeDone(c)
    \/ HandshakeFails(c)
    \/ \E m \in FirstFrames : SetupConnection(c, m)
    \/ PeerGone(c)
    \/ CloseConnection(c)
    \/ \E ident \in Identities, rate \in Rates : OpenChannel(c, ident, rate)
    \/ \E ident \in Identities : OpenFails(c, ident)
    \/ TemplateChanged(c)
    \/ ShareNext(c)
    \/ SolutionSent(c)

ServerNext == ServerExit \/ \E c \in Conns : ConnNext(c)

NodeNext == (\E t \in Template : Publish(t)) \/ TakeSolution \/ NodeStops

Next == ServerNext \/ NodeNext \/ TakeDbEvent

(* select! picks a ready branch at random, so a branch that is ready again *)
(* and again is taken; the solution queue serves its senders in order; the *)
(* IPC thread and the DB worker keep receiving.                            *)
Fairness ==
    /\ \A c \in Conns : /\ SF_vars(TemplateChanged(c))
                        /\ SF_vars(SolutionSent(c))
                        /\ WF_vars(peer[c] = "gone" /\ CloseConnection(c))
    /\ WF_vars(TakeSolution)
    /\ WF_vars(TakeDbEvent)

Spec == Init /\ [][Next]_vars

FairSpec == Spec /\ Fairness

-----------------------------------------------------------------------------
(* ---- Properties ---- *)

(* Every variable has the shape the code gives it; the solution queue never *)
(* exceeds the capacity of its mpsc channel.                               *)
TypeOK ==
    /\ listening \in BOOLEAN
    /\ phase \in [Conns -> Phases]
    /\ peer \in [Conns -> {"up", "gone"}]
    /\ seen \in [Conns -> Nat]
    /\ next_channel_id \in [Conns -> 0 .. MaxChannels]
    /\ next_job_id \in [Conns -> Nat]
    /\ channels \in [Conns -> [ChannelIds -> ChannelInfo \cup {None}]]
    /\ pending \in [Conns -> Pending \cup {None}]
    /\ client \in [Conns -> [ChannelIds -> View \cup {None}]]
    /\ reply \in Reply
    /\ watch \in Template
    /\ solQ \in Seq(Solution) /\ Len(solQ) <= SolutionCapacity
    /\ solOpen \in BOOLEAN
    /\ dbQ \in Seq(DbEvent)
    /\ announced \in SUBSET Addresses

(* The server and a connected miner agree on every channel: the miner has  *)
(* the job that the server validates against, it is the activated one, and *)
(* no other job the miner was ever sent carries its id, so a share that    *)
(* passes the job_id check of handle_submit_shares_extended was mined on   *)
(* exactly the work that the server rebuilds.                              *)
JobAgreement ==
    \A c \in Conns, k \in ChannelIds :
        (phase[c] \in {"running", "sending"} /\ peer[c] = "up" /\ channels[c][k] # None)
        => LET chan == channels[c][k]
               view == client[c][k]
           IN  /\ chan.job # None
               /\ view # None
               /\ view.prefix = chan.prefix
               /\ view.active = chan.job.id
               /\ {j \in view.jobs : j.id = chan.job.id} = {chan.job}

(* A task that has marked the latest template as seen has given it to      *)
(* every one of its channels: reading the template with borrow() in one    *)
(* handler never hides an update from the broadcast branch.                *)
NoMissedTemplate ==
    \A c \in Conns, k \in ChannelIds :
        (/\ phase[c] \in {"running", "sending"}
         /\ peer[c] = "up"
         /\ seen[c] = watch.id
         /\ channels[c][k] # None)
        => channels[c][k].job.tmpl = watch

(* A share that wins a block is refused as too easy only on a channel that *)
(* was opened under another network target than that of the share's job.   *)
BlockRefusedOnlyAfterRetarget ==
    reply.kind = "low" /\ reply.wins => reply.retargeted

(* The DB worker is told of a miner before it is told of its first share.  *)
ShareAfterConnect ==
    \A i \in DOMAIN dbQ :
        dbQ[i].kind = "share" =>
            \/ dbQ[i].addr \in announced
            \/ \E n \in 1 .. i - 1 : dbQ[n] = [kind |-> "connected", addr |-> dbQ[i].addr]

(* Every template, once published, reaches every channel of a connection   *)
(* that stays up (or a newer one does), whatever shares, blocks and full   *)
(* queues come in between.                                                 *)
EventuallyCurrent ==
    \A c \in Conns : \A n \in 1 .. MaxTemplates :
        (phase[c] = "running" /\ watch.id = n)
        ~> \/ phase[c] \notin {"running", "sending"}
           \/ peer[c] = "gone"
           \/ \A k \in OpenIds(c) : channels[c][k].job.tmpl.id >= n

-----------------------------------------------------------------------------
(* ---- What the repository says, and the code does not do ---- *)

(* stratum_sv2.rs:407, on the channel target: "use max so we never reject  *)
(* block-winning shares".                                                  *)
BlockWinningNeverRejected == ~(reply.kind = "low" /\ reply.wins)

(* stratum_sv2.rs:12, on the broadcast: jobs are sent to the open channels *)
(* "when the block template changes", so a channel's job is only ever      *)
(* replaced by one on another template.                                    *)
BroadcastOnlyOnChange ==
    [][\A c \in Conns, k \in ChannelIds :
          (/\ channels[c][k] # None /\ channels'[c][k] # None
           /\ channels[c][k].job # channels'[c][k].job)
          => channels[c][k].job.tmpl # channels'[c][k].job.tmpl]_channels

(* ACTION_PLAN.md:43: "extranonce1 unico por conexion": two connections    *)
(* never mine the same work, even for the same address.                    *)
ExtranonceUnique ==
    \A c, d \in Conns : \A k \in OpenIds(c), l \in OpenIds(d) :
        c # d => Work(channels[c][k].job, channels[c][k].prefix)
                 # Work(channels[d][l].job, channels[d][l].prefix)
=============================================================================
