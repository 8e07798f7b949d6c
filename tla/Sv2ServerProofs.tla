--------------------------- MODULE Sv2ServerProofs ---------------------------
(***************************************************************************)
(* Proofs about Sv2Server, for any number of connections, channels,        *)
(* templates and miners, and any targets.                                  *)
(***************************************************************************)
EXTENDS Sv2Server, TLAPS

-----------------------------------------------------------------------------
(* ---- The inductive invariant ---- *)

(* An open channel: its task is past the setup, its job has one of the ids *)
(* already handed out, its address can be paid, its target is no harder    *)
(* than the network's was, and its job is on the newest template once the  *)
(* task has seen that one.                                                 *)
ChannelOK(c, k) ==
    channels[c][k] # None =>
        /\ phase[c] \in {"running", "sending"}
        /\ k < next_channel_id[c]
        /\ channels[c][k].job # None
        /\ channels[c][k].job.id < next_job_id[c]
        /\ channels[c][k].addr \in ValidAddresses
        /\ channels[c][k].openTarget <= channels[c][k].target
        /\ peer[c] = "up" /\ seen[c] = watch.id => channels[c][k].job.tmpl = watch

(* The client's view of a channel: the prefix is the server's, and of the  *)
(* jobs it was sent none but the server's current one has that one's id.   *)
ViewOK(c, k) ==
    client[c][k] # None =>
        /\ channels[c][k] # None
        /\ client[c][k].prefix = channels[c][k].prefix
        /\ \A j \in client[c][k].jobs :
              /\ j.id < next_job_id[c]
              /\ j.id = channels[c][k].job.id => j = channels[c][k].job

(* A client that is still there has and works on the current job.          *)
InStep(c, k) ==
    channels[c][k] # None /\ peer[c] = "up" =>
        /\ client[c][k] # None
        /\ client[c][k].active = channels[c][k].job.id
        /\ channels[c][k].job \in client[c][k].jobs

ConnOK(c) ==
    /\ seen[c] <= watch.id
    /\ phase[c] = "sending" =>
          pending[c] # None /\ channels[c][pending[c].chan] # None
    /\ \A k \in ChannelIds : ChannelOK(c, k) /\ ViewOK(c, k) /\ InStep(c, k)

IndInv ==
    /\ TypeOK
    /\ BlockRefusedOnlyAfterRetarget
    /\ \A c \in Conns : ConnOK(c)

-----------------------------------------------------------------------------
(* ---- Types ---- *)

(* The part of TypeOK about the connection tasks.                          *)
ConnType ==
    /\ phase \in [Conns -> Phases]
    /\ peer \in [Conns -> {"up", "gone"}]
    /\ seen \in [Conns -> Nat]
    /\ next_channel_id \in [Conns -> 0 .. MaxChannels]
    /\ next_job_id \in [Conns -> Nat]
    /\ channels \in [Conns -> [ChannelIds -> ChannelInfo \cup {None}]]
    /\ pending \in [Conns -> Pending \cup {None}]
    /\ client \in [Conns -> [ChannelIds -> View \cup {None}]]

(* The rest of it.                                                         *)
SharedType ==
    /\ listening \in BOOLEAN
    /\ reply \in Reply
    /\ watch \in Template
    /\ solQ \in Seq(Solution) /\ Len(solQ) <= SolutionCapacity
    /\ solOpen \in BOOLEAN
    /\ dbQ \in Seq(DbEvent)
    /\ announced \in SUBSET Addresses

(* The type invariant, split into the part each connection owns and the    *)
(* shared rest.                                                            *)
LEMMA TypeParts == TypeOK <=> ConnType /\ SharedType
  BY Zenon DEF TypeOK, ConnType, SharedType

(* A connection without channels is well typed.                            *)
LEMMA EmptySlots == NoChannels \in [ChannelIds -> ChannelInfo \cup {None}]
                    /\ NoChannels \in [ChannelIds -> View \cup {None}]
  BY DEF NoChannels

(* Ending a set of tasks leaves every connection well typed.               *)
LEMMA ResetType ==
    ASSUME NEW S, ConnType, Reset(S)
    PROVE  ConnType'
  BY EmptySlots, BoundsAssumption DEF ConnType, Reset, Phases

(* A new channel is well typed, has a job and has an easy enough target.   *)
LEMMA NewChannelType ==
    ASSUME ConnType, SharedType, NEW c \in Conns, NEW addr \in Addresses,
           NEW rate \in Rates, next_channel_id[c] < MaxChannels
    PROVE  /\ NewChannel(c, addr, rate) \in ChannelInfo
           /\ NewChannel(c, addr, rate).job \in JobInfo
           /\ NewChannel(c, addr, rate).openTarget <= NewChannel(c, addr, rate).target
  <1> DEFINE net == NetworkTarget[watch.block]
             job == [id |-> next_job_id[c], tmpl |-> watch, addr |-> addr]
  <1>1. net \in Hashes /\ RateTarget[rate] \in Hashes
    BY TargetsAssumption DEF SharedType, Template
  <1>2. ChannelTarget(rate, net) \in Hashes /\ net <= ChannelTarget(rate, net)
    BY <1>1, BoundsAssumption DEF ChannelTarget, Hashes
  <1>3. next_channel_id[c] \in ChannelIds
    BY BoundsAssumption DEF ConnType, ChannelIds
  <1>4. job \in JobInfo
    BY DEF ConnType, SharedType, JobInfo
  <1> HIDE DEF job, net
  <1>5. NewChannel(c, addr, rate) =
          [addr |-> addr, prefix |-> next_channel_id[c],
           target |-> ChannelTarget(rate, net), openTarget |-> net, job |-> job]
    BY DEF NewChannel, job, net
  <1> QED
    BY <1>1, <1>2, <1>3, <1>4, <1>5 DEF ChannelInfo

(* A job sent to a client is added to its jobs and activated.              *)
LEMMA JobSentType ==
    ASSUME NEW v \in View, NEW j \in JobInfo
    PROVE  /\ JobSent(v, j) \in View
           /\ JobSent(v, j).prefix = v.prefix
           /\ JobSent(v, j).jobs = v.jobs \cup {j}
           /\ JobSent(v, j).active = j.id
  BY DEF JobSent, OnNewJob, OnSetNewPrevHash, View, JobInfo

(* A channel pays the declared address or the pool.                        *)
LEMMA IdentityAddress ==
    ASSUME NEW ident \in Identities
    PROVE  ParseMinerAddress(ident) \in Addresses
  BY DEF ParseMinerAddress, Addresses

(* The reply to a share is well typed.                                     *)
LEMMA ReplyType ==
    ASSUME NEW kind \in {"none", "stale", "low", "success"},
           NEW c, NEW k, NEW j, NEW h
    PROVE  ShareReply(kind, c, k, j, h) \in Reply
  <1>1. /\ (h <= NetworkTarget[j.tmpl.block]) \in BOOLEAN
        /\ (NetworkTarget[j.tmpl.block] # channels[c][k].openTarget) \in BOOLEAN
    OBVIOUS
  <1> QED
    BY <1>1, Zenon DEF ShareReply, Reply

(* What a share handler may rely on: the channel is there, the share's job *)
(* is one the client was sent, and a share that is not stale finds a job.  *)
LEMMA SubmittedType ==
    ASSUME ConnType, NEW c \in Conns, NEW k \in ChannelIds, NEW j, Submitted(c, k, j)
    PROVE  /\ channels[c][k] \in ChannelInfo
           /\ client[c][k] \in View
           /\ j \in JobInfo
           /\ ~IsStale(c, k, j) => channels[c][k].job \in JobInfo
  BY DEF ConnType, Submitted, IsStale, ChannelInfo, View

(* Acknowledging a share keeps the types, whether or not the write works.  *)
LEMMA AcknowledgeType ==
    ASSUME ConnType, SharedType, NEW c \in Conns, NEW k \in ChannelIds,
           channels[c][k] # None, Acknowledge(c, k)
    PROVE  ConnType' /\ dbQ' \in Seq(DbEvent)
  <1>1. channels[c][k].addr \in Addresses
    BY DEF ConnType, ChannelInfo
  <1>2. CASE FALSE \in WriteResults(c) /\ Disconnect(c) /\ UNCHANGED dbQ
    BY <1>2, ResetType DEF Disconnect, SharedType
  <1>3. CASE /\ DbShare(channels[c][k].addr)
             /\ phase' = [phase EXCEPT ![c] = "running"]
             /\ pending' = [pending EXCEPT ![c] = None]
             /\ UNCHANGED <<peer, seen, next_channel_id, next_job_id, channels, client>>
    <2>1. [kind |-> "share", addr |-> channels[c][k].addr] \in DbEvent
      BY <1>1 DEF DbEvent
    <2>2. dbQ' \in Seq(DbEvent)
      BY <1>3, <2>1 DEF DbShare, SharedType
    <2>3. ConnType'
      BY <1>3 DEF ConnType, Phases
    <2> QED
      BY <2>2, <2>3
  <1> QED
    BY <1>2, <1>3 DEF Acknowledge

(* The types hold when the server starts.                                  *)
LEMMA InitType == Init => TypeOK
  <1> SUFFICES ASSUME Init PROVE TypeOK
    OBVIOUS
  <1>1. ConnType
    BY EmptySlots, BoundsAssumption DEF Init, ConnType, Phases
  <1>2. reply \in Reply
    BY Zenon DEF Init, Reply
  <1>3. SharedType
    BY <1>2, BoundsAssumption DEF Init, SharedType
  <1> QED
    BY <1>1, <1>3, TypeParts

(* Every step keeps the types.                                             *)
LEMMA StepType == IndInv /\ [Next]_vars => TypeOK'
  <1> SUFFICES ASSUME IndInv, [Next]_vars PROVE TypeOK'
    OBVIOUS
  <1>0. ConnType /\ SharedType
    BY TypeParts DEF IndInv
  <1> SUFFICES ConnType' /\ SharedType'
    BY TypeParts, PTL
  <1>1. CASE ServerExit
    <2>1. ConnType'
      BY <1>0, <1>1, ResetType DEF ServerExit
    <2> QED
      BY <1>0, <1>1, <2>1 DEF ServerExit, SharedType, nodeVars, dbVars
  <1>2. ASSUME NEW c \in Conns, Accept(c) \/ HandshakeDone(c) \/ PeerGone(c)
        PROVE  ConnType' /\ SharedType'
    BY <1>0, <1>2 DEF Accept, HandshakeDone, PeerGone, ConnType, SharedType, Phases,
                      nodeVars, dbVars
  <1>3. ASSUME NEW c \in Conns,
               HandshakeFails(c) \/ CloseConnection(c)
               \/ \E ident \in Identities : OpenFails(c, ident)
        PROVE  ConnType' /\ SharedType'
    <2>1. Reset({c}) /\ UNCHANGED <<listening, reply, nodeVars, dbVars>>
      BY <1>3 DEF HandshakeFails, CloseConnection, OpenFails, Disconnect
    <2> QED
      BY <1>0, <2>1, ResetType DEF SharedType, nodeVars, dbVars
  <1>4. ASSUME NEW c \in Conns, NEW m \in FirstFrames, SetupConnection(c, m)
        PROVE  ConnType' /\ SharedType'
    <2>1. CASE Disconnect(c)
      BY <1>0, <1>4, <2>1, ResetType DEF SetupConnection, Disconnect, SharedType,
                                         nodeVars, dbVars
    <2>2. CASE ~Disconnect(c)
      BY <1>0, <1>4, <2>2 DEF SetupConnection, ConnType, SharedType, Phases, nodeVars, dbVars
    <2> QED
      BY <2>1, <2>2
  <1>5. ASSUME NEW c \in Conns, NEW ident \in Identities, NEW rate \in Rates,
               OpenChannel(c, ident, rate)
        PROVE  ConnType' /\ SharedType'
    <2> DEFINE k == next_channel_id[c]
               addr == ParseMinerAddress(ident)
               chan == NewChannel(c, addr, rate)
               view == [prefix |-> chan.prefix, jobs |-> {}, active |-> None]
               told == JobSent(view, chan.job)
    <2>1. addr \in Addresses /\ k < MaxChannels
      BY <1>5, IdentityAddress DEF OpenChannel
    <2>2. k \in ChannelIds
      BY <1>0, <2>1, BoundsAssumption DEF ConnType, ChannelIds
    <2>3. chan \in ChannelInfo /\ chan.job \in JobInfo
      BY <1>0, <2>1, NewChannelType
    <2>4. told \in View
      <3>1. view \in View
        BY <2>3 DEF View, ChannelInfo
      <3> QED
        BY <2>3, <3>1, JobSentType
    <2>5. /\ next_channel_id' = [next_channel_id EXCEPT ![c] = k + 1]
          /\ next_job_id' = [next_job_id EXCEPT ![c] = @ + 1]
          /\ channels' = [channels EXCEPT ![c][k] = chan]
          /\ client' = [client EXCEPT ![c][k] = told] \/ client' = client
          /\ UNCHANGED <<seen, phase, peer, pending>>
      BY <1>5 DEF OpenChannel, Borrow, ConsumeJobId
    <2> HIDE DEF k, chan, view, told
    <2>6. ConnType'
      <3>1. k + 1 \in 0 .. MaxChannels
        BY <2>2, BoundsAssumption DEF ChannelIds
      <3>2. next_channel_id' \in [Conns -> 0 .. MaxChannels] /\ next_job_id' \in [Conns -> Nat]
        BY <1>0, <2>5, <3>1 DEF ConnType
      <3>3. channels' \in [Conns -> [ChannelIds -> ChannelInfo \cup {None}]]
        BY <1>0, <2>2, <2>3, <2>5 DEF ConnType
      <3>4. client' \in [Conns -> [ChannelIds -> View \cup {None}]]
        <4>1. CASE client' = client
          BY <1>0, <4>1 DEF ConnType
        <4>2. CASE client' = [client EXCEPT ![c][k] = told]
          BY <1>0, <2>2, <2>4, <4>2 DEF ConnType
        <4> QED
          BY <2>5, <4>1, <4>2
      <3> QED
        BY <1>0, <2>5, <3>2, <3>3, <3>4 DEF ConnType
    <2>7. dbQ' \in Seq(DbEvent)
      BY <1>0, <1>5, <2>1 DEF OpenChannel, DbConnected, DbEvent, SharedType
    <2>8. SharedType'
      BY <1>0, <1>5, <2>7 DEF OpenChannel, SharedType, nodeVars
    <2> QED
      BY <2>6, <2>8
  <1>6. ASSUME NEW c \in Conns, TemplateChanged(c)
        PROVE  ConnType' /\ SharedType'
    <2> DEFINE Job(k) == [id |-> next_job_id[c], tmpl |-> watch, addr |-> channels[c][k].addr]
    <2>1. PICK sent \in Broadcasts(c) :
            /\ channels' = [channels EXCEPT ![c] =
                  [k \in ChannelIds |->
                     IF k \in sent THEN [channels[c][k] EXCEPT !.job = Job(k)]
                                   ELSE channels[c][k]]]
            /\ client' = [client EXCEPT ![c] =
                  [k \in ChannelIds |->
                     IF k \in sent /\ client[c][k] # None /\ peer[c] = "up"
                     THEN JobSent(client[c][k], Job(k)) ELSE client[c][k]]]
      BY <1>6 DEF TemplateChanged
    <2>2. sent \subseteq OpenIds(c)
      BY <2>1 DEF Broadcasts
    <2>3. \A k \in sent : k \in ChannelIds /\ channels[c][k] \in ChannelInfo
      BY <1>0, <2>2 DEF OpenIds, ConnType
    <2>4. \A k \in sent : Job(k) \in JobInfo
      BY <1>0, <2>3 DEF ConnType, SharedType, JobInfo, ChannelInfo
    <2> HIDE DEF Job
    <2>5. \A k \in sent : [channels[c][k] EXCEPT !.job = Job(k)] \in ChannelInfo
      BY <2>3, <2>4 DEF ChannelInfo
    <2>6. channels' \in [Conns -> [ChannelIds -> ChannelInfo \cup {None}]]
      BY <1>0, <2>1, <2>5 DEF ConnType
    <2>7. \A k \in sent : client[c][k] # None => JobSent(client[c][k], Job(k)) \in View
      BY <1>0, <2>3, <2>4, JobSentType DEF ConnType
    <2>8. client' \in [Conns -> [ChannelIds -> View \cup {None}]]
      BY <1>0, <2>1, <2>7 DEF ConnType
    <2>9. ConnType'
      BY <1>0, <1>6, <2>6, <2>8 DEF TemplateChanged, BorrowAndUpdate, ConsumeJobId,
                                    ConnType, SharedType, Template
    <2> QED
      BY <1>0, <1>6, <2>9 DEF TemplateChanged, SharedType, nodeVars, dbVars
  <1>7. ASSUME NEW c \in Conns, ShareNext(c)
        PROVE  ConnType' /\ SharedType'
    <2> PICK k \in ChannelIds, h \in Hashes :
            \E j :
               \/ RejectStale(c, k, j, h) \/ RejectLow(c, k, j, h)
               \/ AcceptShare(c, k, j, h) \/ FindBlock(c, k, j, h)
      BY <1>7 DEF ShareNext
    <2> PICK j :
            \/ RejectStale(c, k, j, h) \/ RejectLow(c, k, j, h)
            \/ AcceptShare(c, k, j, h) \/ FindBlock(c, k, j, h)
      OBVIOUS
    <2>0. Submitted(c, k, j)
      BY DEF RejectStale, RejectLow, AcceptShare, FindBlock
    <2>1. CASE RejectStale(c, k, j, h) \/ RejectLow(c, k, j, h)
      <3>1. PICK kind \in {"stale", "low"} : ReplyError(kind, c, k, j, h)
        BY <2>1 DEF RejectStale, RejectLow
      <3>2. ConnType'
        <4>1. CASE UNCHANGED connVars
          BY <1>0, <4>1 DEF ConnType, connVars
        <4>2. CASE Disconnect(c)
          BY <1>0, <4>2, ResetType DEF Disconnect
        <4> QED
          BY <3>1, <4>1, <4>2 DEF ReplyError
      <3>3. reply' \in Reply
        BY <3>1, ReplyType DEF ReplyError
      <3> QED
        BY <1>0, <3>1, <3>2, <3>3 DEF ReplyError, SharedType, nodeVars, dbVars
    <2>2. CASE AcceptShare(c, k, j, h)
      <3>1. ConnType' /\ dbQ' \in Seq(DbEvent)
        BY <1>0, <2>0, <2>2, AcknowledgeType DEF AcceptShare, Submitted
      <3>2. reply' \in Reply
        BY <2>2, ReplyType DEF AcceptShare
      <3> QED
        BY <1>0, <2>2, <3>1, <3>2 DEF AcceptShare, SharedType, nodeVars
    <2>3. CASE FindBlock(c, k, j, h)
      <3>1. channels[c][k].job \in JobInfo
        BY <1>0, <2>0, <2>3, SubmittedType DEF FindBlock
      <3>2. [chan |-> k, sol |-> [tmpl |-> channels[c][k].job.tmpl,
                                  addr |-> channels[c][k].job.addr]] \in Pending
        BY <3>1 DEF JobInfo, Pending, Solution
      <3>3. ConnType'
        BY <1>0, <2>3, <3>2 DEF FindBlock, ConnType, Phases
      <3>4. reply' \in Reply
        BY <2>3, ReplyType DEF FindBlock
      <3> QED
        BY <1>0, <2>3, <3>3, <3>4 DEF FindBlock, SharedType, nodeVars, dbVars
    <2> QED
      BY <2>1, <2>2, <2>3
  <1>8. ASSUME NEW c \in Conns, SolutionSent(c)
        PROVE  ConnType' /\ SharedType'
    <2>1. pending[c] \in Pending /\ channels[c][pending[c].chan] # None
      BY <1>0, <1>8 DEF SolutionSent, IndInv, ConnOK, ConnType
    <2>2. ConnType' /\ dbQ' \in Seq(DbEvent)
      BY <1>0, <1>8, <2>1, AcknowledgeType DEF SolutionSent, Pending
    <2>3. solQ' \in Seq(Solution) /\ Len(solQ') <= SolutionCapacity
      BY <1>0, <1>8, <2>1, BoundsAssumption DEF SolutionSent, Pending, SharedType
    <2> QED
      BY <1>0, <1>8, <2>2, <2>3 DEF SolutionSent, SharedType
  <1>9. CASE NodeNext
    <2>1. CASE \E t \in Template : Publish(t)
      BY <1>0, <2>1 DEF Publish, ConnType, SharedType, connVars, dbVars
    <2>2. CASE TakeSolution
      <3>1. solQ' \in Seq(Solution) /\ Len(solQ') <= SolutionCapacity
        BY <1>0, <2>2, BoundsAssumption DEF TakeSolution, SharedType
      <3> QED
        BY <1>0, <2>2, <3>1 DEF TakeSolution, ConnType, SharedType, connVars, dbVars
    <2>3. CASE NodeStops
      <3>1. solQ' \in Seq(Solution) /\ Len(solQ') <= SolutionCapacity
        BY <2>3, BoundsAssumption DEF NodeStops
      <3>2. solOpen' \in BOOLEAN
        BY <2>3 DEF NodeStops
      <3> QED
        BY <1>0, <2>3, <3>1, <3>2 DEF NodeStops, ConnType, SharedType, connVars, dbVars
    <2> QED
      BY <1>9, <2>1, <2>2, <2>3 DEF NodeNext
  <1>10. CASE TakeDbEvent
    <2>1. Head(dbQ) \in DbEvent /\ Tail(dbQ) \in Seq(DbEvent)
      BY <1>0, <1>10 DEF TakeDbEvent, SharedType
    <2>2. announced' \in SUBSET Addresses
      BY <1>0, <1>10, <2>1 DEF TakeDbEvent, SharedType, DbEvent
    <2> QED
      BY <1>0, <1>10, <2>1, <2>2 DEF TakeDbEvent, ConnType, SharedType, connVars, nodeVars
  <1>11. CASE UNCHANGED vars
    BY <1>0, <1>11 DEF vars, connVars, nodeVars, dbVars, ConnType, SharedType
  <1> QED
    BY <1>1, <1>2, <1>3, <1>4, <1>5, <1>6, <1>7, <1>8, <1>9, <1>10, <1>11
       DEF Next, ServerNext, ConnNext

-----------------------------------------------------------------------------
(* ---- Connections ---- *)

(* A step that leaves connection d and the watch alone keeps d in order.   *)
LEMMA OtherConnections ==
    ASSUME NEW d, ConnOK(d), UNCHANGED watch,
           phase'[d] = phase[d], peer'[d] = peer[d], seen'[d] = seen[d],
           next_channel_id'[d] = next_channel_id[d],
           next_job_id'[d] = next_job_id[d], channels'[d] = channels[d],
           pending'[d] = pending[d], client'[d] = client[d]
    PROVE  ConnOK(d)'
  BY DEF ConnOK, ChannelOK, ViewOK, InStep

(* So does ending any set of tasks.                                        *)
LEMMA ResetOK ==
    ASSUME ConnType, SharedType, \A c \in Conns : ConnOK(c),
           NEW S, Reset(S), UNCHANGED watch
    PROVE  \A c \in Conns : ConnOK(c)'
  <1> TAKE c \in Conns
  <1>1. CASE c \in S
    <2>1. /\ phase'[c] = "idle" /\ seen'[c] = 0
          /\ channels'[c] = NoChannels /\ client'[c] = NoChannels
      BY <1>1 DEF Reset
    <2>2. \A k \in ChannelIds : channels'[c][k] = None /\ client'[c][k] = None
      BY <2>1 DEF NoChannels
    <2>3. 0 <= watch'.id
      BY DEF SharedType, Template
    <2> QED
      BY <2>1, <2>2, <2>3 DEF ConnOK, ChannelOK, ViewOK, InStep
  <1>2. CASE c \notin S
    BY <1>2, OtherConnections DEF Reset
  <1> QED
    BY <1>1, <1>2

(* Sending a share's acknowledgement and event, or failing to.             *)
LEMMA AcknowledgeOK ==
    ASSUME ConnType, SharedType, \A c \in Conns : ConnOK(c), NEW c \in Conns, NEW k,
           Acknowledge(c, k), phase[c] \in {"running", "sending"}, UNCHANGED watch
    PROVE  \A d \in Conns : ConnOK(d)'
  <1>1. CASE Disconnect(c)
    BY <1>1, ResetOK DEF Disconnect
  <1>2. CASE ~Disconnect(c)
    <2> TAKE d \in Conns
    <2>1. /\ phase' = [phase EXCEPT ![c] = "running"]
          /\ pending' = [pending EXCEPT ![c] = None]
          /\ UNCHANGED <<peer, seen, next_channel_id, next_job_id, channels, client>>
      BY <1>2 DEF Acknowledge
    <2>2. CASE d # c
      BY <2>1, <2>2, OtherConnections DEF ConnType
    <2>3. CASE d = c
      BY <2>1, <2>3 DEF ConnType, ConnOK, ChannelOK, ViewOK, InStep
    <2> QED
      BY <2>2, <2>3
  <1> QED
    BY <1>1, <1>2

(* A share that is not stale was mined on the work the server rebuilds.    *)
LEMMA RebuiltIsMined ==
    ASSUME ConnType, NEW c \in Conns, ConnOK(c), NEW k \in ChannelIds, NEW j, NEW h,
           Submitted(c, k, j), ~IsStale(c, k, j)
    PROVE  j = channels[c][k].job /\ Rebuilt(c, k, j, h) = h
  <1>1. ViewOK(c, k) /\ client[c][k] # None /\ j \in client[c][k].jobs
    BY DEF ConnOK, Submitted
  <1>2. j.id = channels[c][k].job.id
    BY DEF IsStale
  <1>3. j = channels[c][k].job /\ client[c][k].prefix = channels[c][k].prefix
    BY <1>1, <1>2 DEF ViewOK
  <1> QED
    BY <1>3 DEF Rebuilt, PoolHash

(* Every connection slot starts out in order.                              *)
LEMMA InitConn == Init => \A c \in Conns : ConnOK(c)
  <1> SUFFICES ASSUME Init, NEW c \in Conns PROVE ConnOK(c)
    OBVIOUS
  <1>1. \A k \in ChannelIds : channels[c][k] = None /\ client[c][k] = None
    BY DEF Init, NoChannels
  <1>2. seen[c] = 0 /\ phase[c] = "idle" /\ watch.id = 0
    BY DEF Init
  <1> QED
    BY <1>1, <1>2 DEF ConnOK, ChannelOK, ViewOK, InStep

(* A new channel starts out in order, and in step with its client.         *)
LEMMA OpenOK ==
    ASSUME ConnType, SharedType, NEW c \in Conns, ConnOK(c),
           NEW ident \in Identities, NEW rate \in Rates, OpenChannel(c, ident, rate)
    PROVE  ConnOK(c)'
  <1> DEFINE addr == ParseMinerAddress(ident)
             chan == NewChannel(c, addr, rate)
             view == [prefix |-> chan.prefix, jobs |-> {}, active |-> None]
             told == JobSent(view, chan.job)
  <1>1. /\ addr \in Addresses /\ addr \in ValidAddresses
        /\ next_channel_id[c] < MaxChannels
    BY IdentityAddress DEF OpenChannel, CanBuild
  <1>2. PICK n \in ChannelIds : n = next_channel_id[c]
    BY <1>1, BoundsAssumption DEF ConnType, ChannelIds
  <1>3. /\ chan \in ChannelInfo /\ chan.job \in JobInfo
        /\ chan.openTarget <= chan.target
    BY <1>1, NewChannelType
  <1>4. /\ chan # None /\ chan.job # None /\ chan.addr = addr
        /\ chan.job.id = next_job_id[c] /\ chan.job.tmpl = watch
    BY <1>3, NoneAssumption DEF NewChannel
  <1>5. /\ told # None /\ told.prefix = chan.prefix
        /\ told.jobs = {chan.job} /\ told.active = chan.job.id
    <2>1. view \in View
      BY <1>3 DEF View, ChannelInfo
    <2>2. told \in View /\ told.prefix = view.prefix
          /\ told.jobs = view.jobs \cup {chan.job} /\ told.active = chan.job.id
      BY <1>3, <2>1, JobSentType
    <2> QED
      BY <2>2, NoneAssumption
  <1>6. /\ phase[c] = "running"
        /\ UNCHANGED <<phase, peer, seen, pending, watch>>
        /\ next_channel_id'[c] = n + 1
        /\ next_job_id'[c] = next_job_id[c] + 1
        /\ channels' = [channels EXCEPT ![c][n] = chan]
        /\ client' = IF peer[c] = "up" THEN [client EXCEPT ![c][n] = told] ELSE client
    BY <1>2 DEF OpenChannel, Borrow, ConsumeJobId, ConnType, nodeVars
  <1> HIDE DEF chan, view, told
  <1>7. n \in Nat /\ next_job_id[c] \in Nat
    BY <1>2, BoundsAssumption DEF ChannelIds, ConnType
  <1>8. channels[c][n] = None /\ client[c][n] = None
    <2>1. ChannelOK(c, n) /\ ViewOK(c, n)
      BY <1>2 DEF ConnOK
    <2>2. ~(n < next_channel_id[c])
      BY <1>2, <1>7
    <2> QED
      BY <2>1, <2>2 DEF ChannelOK, ViewOK
  <1>9. channels'[c][n] = chan /\ (peer[c] = "up" => client'[c][n] = told)
        /\ (peer[c] # "up" => client'[c][n] = None)
    BY <1>2, <1>6, <1>8 DEF ConnType
  <1>10. \A k \in ChannelIds \ {n} :
            channels'[c][k] = channels[c][k] /\ client'[c][k] = client[c][k]
    BY <1>2, <1>6 DEF ConnType
  <1>11. ChannelOK(c, n)' /\ ViewOK(c, n)' /\ InStep(c, n)'
    BY <1>1, <1>3, <1>4, <1>5, <1>6, <1>7, <1>9 DEF ChannelOK, ViewOK, InStep
  <1>12. ASSUME NEW k \in ChannelIds \ {n}
         PROVE  ChannelOK(c, k)' /\ ViewOK(c, k)' /\ InStep(c, k)'
    <2>1. ChannelOK(c, k) /\ ViewOK(c, k) /\ InStep(c, k)
      BY DEF ConnOK
    <2>2. k \in Nat /\ n = next_channel_id[c]
      BY <1>2, BoundsAssumption DEF ChannelIds
    <2>3. channels[c][k] # None => channels[c][k].job \in JobInfo
      BY <2>1 DEF ChannelOK, ConnType, ChannelInfo
    <2>4. client[c][k] # None => client[c][k].jobs \subseteq JobInfo
      BY DEF ConnType, View
    <2> QED
      BY <1>6, <1>7, <1>10, <2>1, <2>2, <2>3, <2>4 DEF ChannelOK, ViewOK, InStep, JobInfo
  <1> QED
    BY <1>6, <1>11, <1>12 DEF ConnOK

(* A broadcast leaves every channel in order: the ones it reached have a   *)
(* job with a fresh id, and it reaches them all while the peer is there.   *)
LEMMA BroadcastOK ==
    ASSUME ConnType, SharedType, NEW c \in Conns, ConnOK(c), TemplateChanged(c)
    PROVE  ConnOK(c)'
  <1> DEFINE Job(k) == [id |-> next_job_id[c], tmpl |-> watch, addr |-> channels[c][k].addr]
  <1>1. PICK sent \in Broadcasts(c) :
          /\ channels' = [channels EXCEPT ![c] =
                [k \in ChannelIds |->
                   IF k \in sent THEN [channels[c][k] EXCEPT !.job = Job(k)]
                                 ELSE channels[c][k]]]
          /\ client' = [client EXCEPT ![c] =
                [k \in ChannelIds |->
                   IF k \in sent /\ client[c][k] # None /\ peer[c] = "up"
                   THEN JobSent(client[c][k], Job(k)) ELSE client[c][k]]]
    BY DEF TemplateChanged
  <1>2. /\ phase[c] = "running"
        /\ UNCHANGED <<phase, peer, next_channel_id, pending, watch>>
        /\ seen'[c] = watch.id
        /\ next_job_id'[c] = next_job_id[c] + 1
        /\ next_job_id[c] \in Nat /\ watch.id \in Nat
    BY BoundsAssumption DEF TemplateChanged, BorrowAndUpdate, ConsumeJobId, ConnType,
                            SharedType, Template, nodeVars
  <1>3. sent \subseteq OpenIds(c)
    BY <1>1 DEF Broadcasts
  <1>4. peer[c] = "up" => sent = OpenIds(c)
    <2>1. \A k \in OpenIds(c) : CanBuild(channels[c][k].addr)
      BY DEF OpenIds, ConnOK, ChannelOK, CanBuild
    <2> QED
      BY <1>1, <2>1 DEF Broadcasts, WriteResults
  <1>5. ASSUME NEW k \in ChannelIds
        PROVE  ChannelOK(c, k)' /\ ViewOK(c, k)' /\ InStep(c, k)'
    <2>1. ChannelOK(c, k) /\ ViewOK(c, k) /\ InStep(c, k)
      BY DEF ConnOK
    <2>2. channels[c][k] # None => channels[c][k] \in ChannelInfo /\ channels[c][k].job \in JobInfo
      BY <2>1 DEF ChannelOK, ConnType, ChannelInfo
    <2>3. client[c][k] # None => client[c][k] \in View /\ client[c][k].jobs \subseteq JobInfo
      BY DEF ConnType, View
    <2>4. CASE k \in sent
      <3>1. channels[c][k] # None
        BY <1>3, <2>4 DEF OpenIds
      <3>2. Job(k) \in JobInfo
        BY <1>2, <2>2, <3>1 DEF JobInfo, ChannelInfo, SharedType
      <3>3. Job(k).id = next_job_id[c] /\ Job(k).tmpl = watch
        OBVIOUS
      <3> DEFINE job == Job(k)
      <3>4. channels'[c][k] = [channels[c][k] EXCEPT !.job = job]
        BY <1>1, <2>4 DEF ConnType
      <3>5. client'[c][k] = IF client[c][k] # None /\ peer[c] = "up"
                            THEN JobSent(client[c][k], job) ELSE client[c][k]
        BY <1>1, <2>4 DEF ConnType
      <3> HIDE DEF Job, job
      <3>6. /\ job \in JobInfo /\ job # None
            /\ job.id = next_job_id[c] /\ job.tmpl = watch
        BY <3>2, <3>3, NoneAssumption DEF job
      <3>7. /\ channels'[c][k] \in ChannelInfo /\ channels'[c][k] # None
            /\ channels'[c][k].job = job
            /\ channels'[c][k].addr = channels[c][k].addr
            /\ channels'[c][k].prefix = channels[c][k].prefix
            /\ channels'[c][k].target = channels[c][k].target
            /\ channels'[c][k].openTarget = channels[c][k].openTarget
        BY <2>2, <3>1, <3>4, <3>6, NoneAssumption DEF ChannelInfo
      <3>8. ChannelOK(c, k)'
        BY <1>2, <2>1, <3>1, <3>6, <3>7 DEF ChannelOK
      <3>9. CASE client[c][k] # None /\ peer[c] = "up"
        <4>1. /\ client'[c][k] \in View /\ client'[c][k] # None
              /\ client'[c][k].prefix = client[c][k].prefix
              /\ client'[c][k].jobs = client[c][k].jobs \cup {job}
              /\ client'[c][k].active = job.id
          BY <2>3, <3>5, <3>6, <3>9, JobSentType, NoneAssumption
        <4>2. \A j \in client[c][k].jobs : j.id \in Nat /\ j.id < next_job_id[c]
          BY <2>1, <2>3, <3>9 DEF ViewOK, JobInfo
        <4>3. ViewOK(c, k)'
          BY <1>2, <2>1, <3>6, <3>7, <3>9, <4>1, <4>2 DEF ViewOK
        <4>4. InStep(c, k)'
          BY <3>7, <4>1 DEF InStep
        <4> QED
          BY <3>8, <4>3, <4>4
      <3>10. CASE ~(client[c][k] # None /\ peer[c] = "up")
        <4>1. client'[c][k] = client[c][k] /\ peer[c] # "up"
          BY <2>1, <3>1, <3>5, <3>10 DEF InStep
        <4>2. client[c][k] # None =>
                \A j \in client[c][k].jobs : j.id \in Nat /\ j.id < next_job_id[c]
          BY <2>1, <2>3 DEF ViewOK, JobInfo
        <4>3. ViewOK(c, k)'
          BY <1>2, <2>1, <3>6, <3>7, <4>1, <4>2 DEF ViewOK
        <4> QED
          BY <1>2, <3>8, <4>1, <4>3 DEF InStep
      <3> QED
        BY <3>9, <3>10
    <2>5. CASE k \notin sent
      <3>1. channels'[c][k] = channels[c][k] /\ client'[c][k] = client[c][k]
        BY <1>1, <2>5 DEF ConnType
      <3>2. channels[c][k] # None => peer[c] # "up"
        BY <1>4, <2>5 DEF OpenIds
      <3> QED
        BY <1>2, <2>1, <2>2, <2>3, <3>1, <3>2 DEF ChannelOK, ViewOK, InStep, JobInfo
    <2> QED
      BY <2>4, <2>5
  <1> QED
    BY <1>2, <1>5 DEF ConnOK

(* Every step keeps every connection in order.                             *)
LEMMA StepConn == IndInv /\ [Next]_vars => \A c \in Conns : ConnOK(c)'
  <1> SUFFICES ASSUME IndInv, [Next]_vars PROVE \A d \in Conns : ConnOK(d)'
    OBVIOUS
  <1>0. ConnType /\ SharedType /\ \A d \in Conns : ConnOK(d)
    BY TypeParts DEF IndInv
  <1>1. CASE ServerExit
    BY <1>0, <1>1, ResetOK DEF ServerExit, nodeVars
  <1>2. ASSUME NEW c \in Conns, Accept(c) \/ HandshakeDone(c) \/ PeerGone(c), NEW d \in Conns
        PROVE  ConnOK(d)'
    <2>1. CASE d # c
      BY <1>0, <1>2, <2>1, OtherConnections
         DEF Accept, HandshakeDone, PeerGone, ConnType, nodeVars
    <2>2. CASE d = c
      BY <1>0, <1>2, <2>2 DEF Accept, HandshakeDone, PeerGone, ConnType, nodeVars,
                              ConnOK, ChannelOK, ViewOK, InStep
    <2> QED
      BY <2>1, <2>2
  <1>3. ASSUME NEW c \in Conns,
               HandshakeFails(c) \/ CloseConnection(c)
               \/ \E ident \in Identities : OpenFails(c, ident)
        PROVE  \A d \in Conns : ConnOK(d)'
    <2>1. Reset({c}) /\ UNCHANGED watch
      BY <1>3 DEF HandshakeFails, CloseConnection, OpenFails, Disconnect, nodeVars
    <2> QED
      BY <1>0, <2>1, ResetOK
  <1>4. ASSUME NEW c \in Conns, NEW m \in FirstFrames, SetupConnection(c, m)
        PROVE  \A d \in Conns : ConnOK(d)'
    <2>1. CASE Disconnect(c)
      BY <1>0, <1>4, <2>1, ResetOK DEF SetupConnection, Disconnect, nodeVars
    <2>2. CASE ~Disconnect(c)
      <3> TAKE d \in Conns
      <3>1. /\ phase' = [phase EXCEPT ![c] = "running"]
            /\ UNCHANGED <<peer, seen, next_channel_id, next_job_id, channels,
                           pending, client, watch>>
        BY <1>4, <2>2 DEF SetupConnection, nodeVars
      <3>2. CASE d # c
        BY <1>0, <3>1, <3>2, OtherConnections DEF ConnType
      <3>3. CASE d = c
        BY <1>0, <3>1, <3>3 DEF ConnType, ConnOK, ChannelOK, ViewOK, InStep
      <3> QED
        BY <3>2, <3>3
    <2> QED
      BY <2>1, <2>2
  <1>5. ASSUME NEW c \in Conns, NEW ident \in Identities, NEW rate \in Rates,
               OpenChannel(c, ident, rate), NEW d \in Conns
        PROVE  ConnOK(d)'
    <2>1. CASE d # c
      <3>1. channels'[d] = channels[d] /\ client'[d] = client[d]
        BY <1>0, <1>5, <2>1 DEF OpenChannel, ConnType
      <3> QED
        BY <1>0, <1>5, <2>1, <3>1, OtherConnections
           DEF OpenChannel, Borrow, ConsumeJobId, ConnType, nodeVars
    <2>2. CASE d = c
      BY <1>0, <1>5, <2>2, OpenOK
    <2> QED
      BY <2>1, <2>2
  <1>6. ASSUME NEW c \in Conns, TemplateChanged(c), NEW d \in Conns
        PROVE  ConnOK(d)'
    <2>1. CASE d # c
      <3>1. channels'[d] = channels[d] /\ client'[d] = client[d]
        BY <1>0, <1>6, <2>1 DEF TemplateChanged, ConnType
      <3> QED
        BY <1>0, <1>6, <2>1, <3>1, OtherConnections
           DEF TemplateChanged, BorrowAndUpdate, ConsumeJobId, ConnType, nodeVars
    <2>2. CASE d = c
      BY <1>0, <1>6, <2>2, BroadcastOK
    <2> QED
      BY <2>1, <2>2
  <1>7. ASSUME NEW c \in Conns, ShareNext(c)
        PROVE  \A d \in Conns : ConnOK(d)'
    <2> PICK k \in ChannelIds, h \in Hashes :
            \E j :
               \/ RejectStale(c, k, j, h) \/ RejectLow(c, k, j, h)
               \/ AcceptShare(c, k, j, h) \/ FindBlock(c, k, j, h)
      BY <1>7 DEF ShareNext
    <2> PICK j :
            \/ RejectStale(c, k, j, h) \/ RejectLow(c, k, j, h)
            \/ AcceptShare(c, k, j, h) \/ FindBlock(c, k, j, h)
      OBVIOUS
    <2>1. CASE RejectStale(c, k, j, h) \/ RejectLow(c, k, j, h)
      <3>1. UNCHANGED watch /\ (UNCHANGED connVars \/ Disconnect(c))
        BY <2>1 DEF RejectStale, RejectLow, ReplyError, nodeVars
      <3>2. CASE UNCHANGED connVars
        BY <1>0, <3>1, <3>2, OtherConnections DEF connVars
      <3>3. CASE Disconnect(c)
        BY <1>0, <3>1, <3>3, ResetOK DEF Disconnect
      <3> QED
        BY <3>1, <3>2, <3>3
    <2>2. CASE AcceptShare(c, k, j, h)
      BY <1>0, <2>2, AcknowledgeOK DEF AcceptShare, Submitted, nodeVars
    <2>3. CASE FindBlock(c, k, j, h)
      <3> TAKE d \in Conns
      <3>1. CASE d # c
        BY <1>0, <2>3, <3>1, OtherConnections DEF FindBlock, ConnType, nodeVars
      <3>2. CASE d = c
        <4>1. channels[c][k] \in ChannelInfo /\ channels[c][k] # None
              /\ channels[c][k].job \in JobInfo
          BY <1>0, <2>3, SubmittedType DEF FindBlock, Submitted
        <4>2. /\ pending'[c] # None
              /\ channels'[c][pending'[c].chan] # None
          <5>1. pending'[c] = [chan |-> k, sol |-> [tmpl |-> channels[c][k].job.tmpl,
                                                   addr |-> channels[c][k].job.addr]]
            BY <1>0, <2>3 DEF FindBlock, ConnType
          <5>2. pending'[c] \in Pending
            BY <4>1, <5>1 DEF Pending, Solution, JobInfo
          <5> QED
            BY <2>3, <4>1, <5>1, <5>2, NoneAssumption DEF FindBlock
        <4> QED
          BY <1>0, <2>3, <3>2, <4>2 DEF FindBlock, ConnType, nodeVars,
                                        ConnOK, ChannelOK, ViewOK, InStep
      <3> QED
        BY <3>1, <3>2
    <2> QED
      BY <2>1, <2>2, <2>3
  <1>8. ASSUME NEW c \in Conns, SolutionSent(c)
        PROVE  \A d \in Conns : ConnOK(d)'
    BY <1>0, <1>8, AcknowledgeOK DEF SolutionSent
  <1>9. CASE \E t \in Template : Publish(t)
    <2> TAKE d \in Conns
    <2>1. watch'.id = watch.id + 1 /\ UNCHANGED connVars
      BY <1>9 DEF Publish
    <2>2. seen[d] \in Nat /\ watch.id \in Nat /\ seen[d] <= watch.id
      BY <1>0, BoundsAssumption DEF ConnType, SharedType, Template, ConnOK
    <2>3. seen[d] <= watch'.id /\ seen[d] # watch'.id
      BY <2>1, <2>2
    <2> QED
      BY <1>0, <2>1, <2>3 DEF connVars, ConnOK, ChannelOK, ViewOK, InStep
  <1>10. CASE TakeSolution \/ NodeStops \/ TakeDbEvent \/ UNCHANGED vars
    <2>1. UNCHANGED <<connVars, watch>>
      BY <1>10 DEF TakeSolution, NodeStops, TakeDbEvent, vars, nodeVars
    <2> QED
      BY <1>0, <2>1, OtherConnections DEF connVars
  <1> QED
    BY <1>1, <1>2, <1>3, <1>4, <1>5, <1>6, <1>7, <1>8, <1>9, <1>10
       DEF Next, ServerNext, ConnNext, NodeNext

(* Every reply is one the invariant allows.                                *)
LEMMA StepReply == IndInv /\ [Next]_vars => BlockRefusedOnlyAfterRetarget'
  <1> SUFFICES ASSUME IndInv, [Next]_vars PROVE BlockRefusedOnlyAfterRetarget'
    OBVIOUS
  <1>0. ConnType /\ SharedType /\ \A d \in Conns : ConnOK(d)
    BY TypeParts DEF IndInv
  <1>1. CASE reply' = reply
    BY <1>1 DEF IndInv, BlockRefusedOnlyAfterRetarget
  <1>2. ASSUME NEW c \in Conns, ShareNext(c)
        PROVE  BlockRefusedOnlyAfterRetarget'
    <2> PICK k \in ChannelIds, h \in Hashes :
            \E j :
               \/ RejectStale(c, k, j, h) \/ RejectLow(c, k, j, h)
               \/ AcceptShare(c, k, j, h) \/ FindBlock(c, k, j, h)
      BY <1>2 DEF ShareNext
    <2> PICK j :
            \/ RejectStale(c, k, j, h) \/ RejectLow(c, k, j, h)
            \/ AcceptShare(c, k, j, h) \/ FindBlock(c, k, j, h)
      OBVIOUS
    <2>1. CASE RejectStale(c, k, j, h) \/ AcceptShare(c, k, j, h) \/ FindBlock(c, k, j, h)
      <3>1. PICK kind \in {"stale", "success"} : reply' = ShareReply(kind, c, k, j, h)
        BY <2>1 DEF RejectStale, AcceptShare, FindBlock, ReplyError
      <3>2. reply'.kind # "low"
        BY <3>1 DEF ShareReply
      <3> QED
        BY <3>2 DEF BlockRefusedOnlyAfterRetarget
    <2>2. CASE RejectLow(c, k, j, h)
      <3>1. Submitted(c, k, j) /\ ~IsStale(c, k, j)
            /\ Rebuilt(c, k, j, h) > channels[c][k].target
            /\ reply' = ShareReply("low", c, k, j, h)
        BY <2>2 DEF RejectLow, ReplyError
      <3>2. h > channels[c][k].target
        BY <1>0, <3>1, RebuiltIsMined
      <3>3. channels[c][k] \in ChannelInfo /\ j \in JobInfo
            /\ channels[c][k].openTarget <= channels[c][k].target
        <4>1. ChannelOK(c, k) /\ channels[c][k] # None
          BY <1>0, <3>1 DEF ConnOK, Submitted
        <4> QED
          BY <1>0, <3>1, <4>1, SubmittedType DEF ChannelOK
      <3>4. NetworkTarget[j.tmpl.block] \in Hashes
        BY <3>3, TargetsAssumption DEF JobInfo, Template
      <3>5. h <= NetworkTarget[j.tmpl.block]
              => NetworkTarget[j.tmpl.block] # channels[c][k].openTarget
        BY <3>2, <3>3, <3>4, BoundsAssumption DEF ChannelInfo, Hashes
      <3> QED
        BY <3>1, <3>5 DEF ShareReply, BlockRefusedOnlyAfterRetarget
    <2> QED
      BY <2>1, <2>2
  <1>3. (\E c \in Conns : ShareNext(c)) \/ reply' = reply
    BY ZenonT(60) DEF Next, ServerNext, ConnNext, NodeNext, ServerExit, Accept, HandshakeDone,
           HandshakeFails, SetupConnection, PeerGone, CloseConnection, OpenChannel,
           OpenFails, TemplateChanged, SolutionSent, Publish, TakeSolution, NodeStops,
           TakeDbEvent, vars
  <1> QED
    BY <1>1, <1>2, <1>3

(* The inductive invariant holds at the start.                             *)
LEMMA InitIndInv == Init => IndInv
  BY InitType, InitConn DEF IndInv, Init, BlockRefusedOnlyAfterRetarget

(* Every step keeps it.                                                    *)
LEMMA StepIndInv == IndInv /\ [Next]_vars => IndInv'
  BY StepType, StepConn, StepReply DEF IndInv

(* The inductive invariant holds throughout.                               *)
THEOREM Invariance == Spec => []IndInv
  BY InitIndInv, StepIndInv, PTL DEF Spec

(* Every variable keeps its type, and the solution queue its bound.        *)
THEOREM TypeCorrect == Spec => []TypeOK
  BY Invariance, PTL DEF IndInv

(* A connected miner and the server agree on the job of every channel.     *)
THEOREM JobsAgree == Spec => []JobAgreement
  <1>1. IndInv => JobAgreement
    <2> SUFFICES ASSUME IndInv, NEW c \in Conns, NEW k \in ChannelIds,
                        peer[c] = "up", channels[c][k] # None
                 PROVE  /\ channels[c][k].job # None
                        /\ client[c][k] # None
                        /\ client[c][k].prefix = channels[c][k].prefix
                        /\ client[c][k].active = channels[c][k].job.id
                        /\ {j \in client[c][k].jobs : j.id = channels[c][k].job.id}
                              = {channels[c][k].job}
      BY DEF JobAgreement
    <2> QED
      BY DEF IndInv, ConnOK, ChannelOK, ViewOK, InStep
  <1> QED
    BY <1>1, Invariance, PTL

(* No task that is up to date with the watch has a channel that is not.    *)
THEOREM TemplatesReachChannels == Spec => []NoMissedTemplate
  <1>1. IndInv => NoMissedTemplate
    BY DEF IndInv, ConnOK, ChannelOK, NoMissedTemplate
  <1> QED
    BY <1>1, Invariance, PTL

(* A block-winning share is refused as too easy only after a retarget.     *)
THEOREM RefusalsExplained == Spec => []BlockRefusedOnlyAfterRetarget
  BY Invariance, PTL DEF IndInv

-----------------------------------------------------------------------------
(* ---- The DB worker hears of a miner before its shares ---- *)

(* Miners the DB worker has been told of, or will be by an event on its    *)
(* way.                                                                    *)
Heard ==
    announced \cup
    {a \in Addresses : \E n \in DOMAIN dbQ : dbQ[n] = [kind |-> "connected", addr |-> a]}

(* Every open channel's miner has been announced: a share only follows.    *)
ChannelsHeard ==
    \A c \in Conns, k \in ChannelIds :
        channels[c][k] # None => channels[c][k].addr \in Heard

(* An event at the end of the queue hides none of those before it, and is  *)
(* in order if it is not a share of a miner nobody has heard of.           *)
LEMMA AppendInOrder ==
    ASSUME SharedType, ShareAfterConnect, NEW e \in DbEvent,
           dbQ' = Append(dbQ, e), UNCHANGED announced,
           e.kind = "share" => e.addr \in Heard
    PROVE  /\ ShareAfterConnect'
           /\ Heard \subseteq Heard'
           /\ e.kind = "connected" => e.addr \in Heard'
  <1>1. /\ dbQ \in Seq(DbEvent) /\ Len(dbQ) \in Nat
        /\ DOMAIN dbQ = 1 .. Len(dbQ) /\ DOMAIN dbQ' = 1 .. Len(dbQ) + 1
        /\ \A n \in 1 .. Len(dbQ) : dbQ'[n] = dbQ[n]
        /\ dbQ'[Len(dbQ) + 1] = e
    BY DEF SharedType
  <1>2. Heard \subseteq Heard'
    BY <1>1 DEF Heard
  <1>3. ShareAfterConnect'
    <2> SUFFICES ASSUME NEW i \in 1 .. Len(dbQ) + 1, dbQ'[i].kind = "share"
                 PROVE  \/ dbQ'[i].addr \in announced'
                        \/ \E n \in 1 .. i - 1 :
                             dbQ'[n] = [kind |-> "connected", addr |-> dbQ'[i].addr]
      BY <1>1 DEF ShareAfterConnect
    <2>1. CASE i = Len(dbQ) + 1
      BY <1>1, <2>1 DEF Heard
    <2>2. CASE i \in 1 .. Len(dbQ)
      BY <1>1, <2>2 DEF ShareAfterConnect
    <2> QED
      BY <1>1, <2>1, <2>2
  <1>4. e.addr \in Addresses
        /\ (e.kind = "connected" => e = [kind |-> "connected", addr |-> e.addr])
    BY DEF DbEvent
  <1>5. Len(dbQ) + 1 \in DOMAIN dbQ'
    BY <1>1
  <1>6. e.kind = "connected" => e.addr \in Heard'
    BY <1>1, <1>4, <1>5 DEF Heard
  <1> QED
    BY <1>2, <1>3, <1>6

(* The worker takes the oldest event: whoever was heard of still is.       *)
LEMMA TakeInOrder ==
    ASSUME SharedType, ShareAfterConnect, TakeDbEvent
    PROVE  ShareAfterConnect' /\ Heard \subseteq Heard'
  <1>1. /\ dbQ \in Seq(DbEvent) /\ Len(dbQ) \in Nat \ {0}
        /\ DOMAIN dbQ = 1 .. Len(dbQ) /\ DOMAIN dbQ' = 1 .. Len(dbQ) - 1
        /\ \A n \in 1 .. Len(dbQ) - 1 : dbQ'[n] = dbQ[n + 1]
        /\ Head(dbQ) = dbQ[1]
    BY DEF SharedType, TakeDbEvent
  <1>2. announced \subseteq announced'
        /\ \A a : dbQ[1] = [kind |-> "connected", addr |-> a] => a \in announced'
    BY <1>1 DEF TakeDbEvent
  <1>3. ASSUME NEW a, NEW n \in 1 .. Len(dbQ), dbQ[n] = [kind |-> "connected", addr |-> a]
        PROVE  a \in announced' \/ (n # 1 /\ n - 1 \in 1 .. Len(dbQ) - 1 /\ dbQ'[n - 1] = dbQ[n])
    BY <1>1, <1>2, <1>3
  <1>4. Heard \subseteq Heard'
    BY <1>1, <1>2, <1>3 DEF Heard
  <1>5. ShareAfterConnect'
    <2> SUFFICES ASSUME NEW i \in 1 .. Len(dbQ) - 1, dbQ'[i].kind = "share",
                        dbQ'[i].addr \notin announced'
                 PROVE  \E n \in 1 .. i - 1 :
                          dbQ'[n] = [kind |-> "connected", addr |-> dbQ'[i].addr]
      BY <1>1 DEF ShareAfterConnect
    <2>1. i + 1 \in 1 .. Len(dbQ) /\ dbQ'[i] = dbQ[i + 1]
      BY <1>1
    <2>2. PICK n \in 1 .. i : dbQ[n] = [kind |-> "connected", addr |-> dbQ[i + 1].addr]
      BY <1>1, <1>2, <2>1 DEF ShareAfterConnect
    <2>3. n - 1 \in 1 .. i - 1 /\ dbQ'[n - 1] = dbQ[n]
      BY <1>1, <1>3, <2>1, <2>2
    <2> QED
      BY <2>1, <2>2, <2>3
  <1> QED
    BY <1>4, <1>5

(* A channel a step does not open was open before, for the same miner; its *)
(* job is the one it had, or one on the template of the watch.             *)
KeptChannel(c, k) ==
    /\ channels[c][k] # None
    /\ channels'[c][k].addr = channels[c][k].addr
    /\ channels'[c][k].job \in JobInfo
    /\ channels'[c][k].job.tmpl \in {watch, channels[c][k].job.tmpl}

(* What a step may do to a channel that is open after it.                  *)
LEMMA ChannelStep ==
    ASSUME IndInv, [Next]_vars, NEW c \in Conns, NEW k \in ChannelIds,
           channels'[c][k] # None
    PROVE  \/ KeptChannel(c, k)
           \/ \E ident \in Identities, rate \in Rates :
                /\ OpenChannel(c, ident, rate)
                /\ channels'[c][k].addr = ParseMinerAddress(ident)
                /\ channels'[c][k].job.tmpl = watch
  <1>0. ConnType /\ SharedType /\ ConnOK(c)
    BY TypeParts DEF IndInv
  <1>1. channels[c][k] # None => channels[c][k] \in ChannelInfo /\ channels[c][k].job \in JobInfo
    BY <1>0 DEF ConnOK, ChannelOK, ConnType, ChannelInfo
  <1>2. channels'[c][k] = channels[c][k] => KeptChannel(c, k)
    BY <1>1 DEF KeptChannel
  <1>3. ASSUME NEW S, Reset(S)
        PROVE  KeptChannel(c, k)
    BY <1>2, <1>3 DEF Reset, NoChannels
  <1>4. ASSUME NEW d \in Conns, NEW ident \in Identities, NEW rate \in Rates,
               OpenChannel(d, ident, rate)
        PROVE  \/ channels'[c][k] = channels[c][k]
               \/ /\ c = d
                  /\ channels'[c][k].addr = ParseMinerAddress(ident)
                  /\ channels'[c][k].job.tmpl = watch
    <2> DEFINE chan == NewChannel(d, ParseMinerAddress(ident), rate)
    <2>1. channels' = [channels EXCEPT ![d][next_channel_id[d]] = chan]
      BY <1>4 DEF OpenChannel
    <2>2. chan.addr = ParseMinerAddress(ident) /\ chan.job.tmpl = watch
      BY DEF NewChannel
    <2> HIDE DEF chan
    <2> QED
      BY <1>0, <2>1, <2>2 DEF ConnType
  <1>5. ASSUME NEW d \in Conns, TemplateChanged(d)
        PROVE  KeptChannel(c, k)
    <2>1. PICK sent \in Broadcasts(d) :
            channels' = [channels EXCEPT ![d] =
              [l \in ChannelIds |->
                 IF l \in sent
                 THEN [channels[d][l] EXCEPT !.job = [id |-> next_job_id[d], tmpl |-> watch,
                                                      addr |-> channels[d][l].addr]]
                 ELSE channels[d][l]]]
      BY <1>5 DEF TemplateChanged
    <2>2. sent \subseteq OpenIds(d)
      BY <2>1 DEF Broadcasts
    <2>3. CASE c = d /\ k \in sent
      <3> DEFINE job == [id |-> next_job_id[c], tmpl |-> watch, addr |-> channels[c][k].addr]
      <3>1. channels[c][k] # None /\ channels[c][k] \in ChannelInfo
        BY <1>0, <2>2, <2>3 DEF OpenIds, ConnType
      <3>2. channels'[c][k] = [channels[c][k] EXCEPT !.job = job]
        BY <1>0, <2>1, <2>3 DEF ConnType
      <3>3. job \in JobInfo /\ job.tmpl = watch
        BY <1>0, <3>1 DEF JobInfo, ChannelInfo, ConnType, SharedType
      <3> HIDE DEF job
      <3> QED
        BY <3>1, <3>2, <3>3 DEF ChannelInfo, KeptChannel
    <2>4. CASE ~(c = d /\ k \in sent)
      <3>1. channels'[c][k] = channels[c][k]
        BY <1>0, <2>1, <2>4 DEF ConnType
      <3> QED
        BY <1>2, <3>1
    <2> QED
      BY <2>3, <2>4
  <1>6. ASSUME NEW d \in Conns, NEW l, Acknowledge(d, l)
        PROVE  KeptChannel(c, k)
    BY <1>2, <1>3, <1>6 DEF Acknowledge, Disconnect
  <1>7. ASSUME NEW d \in Conns, ShareNext(d)
        PROVE  KeptChannel(c, k)
    <2> PICK l \in ChannelIds, h \in Hashes :
            \E j : \/ RejectStale(d, l, j, h) \/ RejectLow(d, l, j, h)
                  \/ AcceptShare(d, l, j, h) \/ FindBlock(d, l, j, h)
      BY <1>7 DEF ShareNext
    <2>1. UNCHANGED channels \/ Reset({d}) \/ Acknowledge(d, l)
      BY DEF RejectStale, RejectLow, AcceptShare, FindBlock, ReplyError, Disconnect, connVars
    <2>2. CASE UNCHANGED channels
      BY <1>2, <2>2
    <2>3. CASE Reset({d})
      BY <1>3, <2>3
    <2> QED
      BY <1>6, <2>1, <2>2, <2>3
  <1>8. CASE ServerExit
    BY <1>3, <1>8 DEF ServerExit
  <1>9. ASSUME NEW d \in Conns, ConnNext(d),
               ~\E ident \in Identities, rate \in Rates : OpenChannel(d, ident, rate)
        PROVE  KeptChannel(c, k)
    <2>1. CASE \/ Accept(d) \/ HandshakeDone(d) \/ PeerGone(d) \/ HandshakeFails(d)
               \/ CloseConnection(d) \/ \E m \in FirstFrames : SetupConnection(d, m)
               \/ \E ident \in Identities : OpenFails(d, ident)
      <3>1. UNCHANGED channels \/ Reset({d})
        BY <2>1 DEF Accept, HandshakeDone, PeerGone, HandshakeFails,
                    CloseConnection, SetupConnection, OpenFails, Disconnect
      <3>2. CASE UNCHANGED channels
        BY <1>2, <3>2
      <3>3. CASE Reset({d})
        BY <1>3, <3>3
      <3> QED
        BY <3>1, <3>2, <3>3
    <2>2. CASE SolutionSent(d)
      BY <1>6, <2>2 DEF SolutionSent
    <2> QED
      BY <1>5, <1>7, <1>9, <2>1, <2>2 DEF ConnNext
  <1>10. CASE NodeNext \/ TakeDbEvent \/ UNCHANGED vars
    BY <1>2, <1>10 DEF NodeNext, Publish, TakeSolution, NodeStops, TakeDbEvent, vars, connVars
  <1>11. ASSUME NEW d \in Conns, NEW ident \in Identities, NEW rate \in Rates,
                OpenChannel(d, ident, rate)
         PROVE  \/ KeptChannel(c, k)
                \/ /\ OpenChannel(c, ident, rate)
                   /\ channels'[c][k].addr = ParseMinerAddress(ident)
                   /\ channels'[c][k].job.tmpl = watch
    BY <1>2, <1>4, <1>11
  <1> QED
    BY <1>8, <1>9, <1>10, <1>11 DEF Next, ServerNext

(* A task that is sending a solution after a step was sending it before,   *)
(* or has just found it on the job of one of its channels.                 *)
LEMMA PendingStep ==
    ASSUME IndInv, [Next]_vars, NEW c \in Conns, phase'[c] = "sending"
    PROVE  \/ phase[c] = "sending" /\ pending'[c] = pending[c]
           \/ \E k \in ChannelIds :
                channels[c][k] # None /\ pending'[c].sol.tmpl = channels[c][k].job.tmpl
  <1>0. ConnType
    BY TypeParts DEF IndInv
  <1> DEFINE Same == phase'[c] = phase[c] /\ pending'[c] = pending[c]
  <1>1. ASSUME NEW S, Reset(S) PROVE Same
    BY <1>1 DEF Reset
  <1>2. ASSUME NEW d \in Conns, NEW k, Acknowledge(d, k) PROVE Same
    <2>1. CASE /\ phase' = [phase EXCEPT ![d] = "running"]
               /\ pending' = [pending EXCEPT ![d] = None]
      BY <1>0, <2>1 DEF ConnType
    <2> QED
      BY <1>1, <1>2, <2>1 DEF Acknowledge, Disconnect
  <1>3. ASSUME NEW d \in Conns, NEW k \in ChannelIds, NEW j, NEW h, FindBlock(d, k, j, h)
        PROVE  Same \/ (c = d /\ channels[c][k] # None
                         /\ pending'[c].sol.tmpl = channels[c][k].job.tmpl)
    <2>1. /\ phase' = [phase EXCEPT ![d] = "sending"] /\ channels[d][k] # None
          /\ pending' = [pending EXCEPT ![d] =
                [chan |-> k, sol |-> [tmpl |-> channels[d][k].job.tmpl,
                                      addr |-> channels[d][k].job.addr]]]
      BY <1>3 DEF FindBlock, Submitted
    <2>2. CASE c = d
      BY <1>0, <2>1, <2>2 DEF ConnType
    <2>3. CASE c # d
      BY <1>0, <2>1, <2>3 DEF ConnType
    <2> QED
      BY <2>2, <2>3
  <1>4. ASSUME NEW d \in Conns, ShareNext(d)
        PROVE  Same \/ \E k \in ChannelIds :
                 channels[c][k] # None /\ pending'[c].sol.tmpl = channels[c][k].job.tmpl
    <2> PICK k \in ChannelIds, h \in Hashes :
            \E j : \/ RejectStale(d, k, j, h) \/ RejectLow(d, k, j, h)
                  \/ AcceptShare(d, k, j, h) \/ FindBlock(d, k, j, h)
      BY <1>4 DEF ShareNext
    <2>1. \/ UNCHANGED connVars \/ Reset({d}) \/ Acknowledge(d, k)
          \/ \E j : FindBlock(d, k, j, h)
      BY DEF RejectStale, RejectLow, AcceptShare, ReplyError, Disconnect
    <2>2. CASE UNCHANGED connVars
      BY <2>2 DEF connVars
    <2>3. CASE Reset({d})
      BY <1>1, <2>3
    <2>4. CASE \E j : FindBlock(d, k, j, h)
      BY <1>3, <2>4
    <2> HIDE DEF Same
    <2> QED
      BY <1>2, <2>1, <2>2, <2>3, <2>4
  <1>5. ASSUME NEW d \in Conns,
               \/ Accept(d) \/ HandshakeDone(d) \/ PeerGone(d) \/ TemplateChanged(d)
               \/ \E ident \in Identities, rate \in Rates : OpenChannel(d, ident, rate)
        PROVE  Same
    BY <1>0, <1>5 DEF Accept, HandshakeDone, PeerGone, TemplateChanged, OpenChannel, ConnType
  <1>6. ASSUME NEW d \in Conns,
               \/ HandshakeFails(d) \/ CloseConnection(d)
               \/ \E ident \in Identities : OpenFails(d, ident)
        PROVE  Same
    BY <1>1, <1>6 DEF HandshakeFails, CloseConnection, OpenFails, Disconnect
  <1>7. ASSUME NEW d \in Conns, NEW m \in FirstFrames, SetupConnection(d, m)
        PROVE  Same
    <2>1. CASE phase' = [phase EXCEPT ![d] = "running"] /\ UNCHANGED pending
      BY <1>0, <2>1 DEF ConnType
    <2> QED
      BY <1>1, <1>7, <2>1 DEF SetupConnection, Disconnect
  <1>8. CASE ServerExit
    BY <1>1, <1>8 DEF ServerExit
  <1>9. CASE NodeNext \/ TakeDbEvent \/ UNCHANGED vars
    BY <1>9 DEF NodeNext, Publish, TakeSolution, NodeStops, TakeDbEvent, vars, connVars
  <1>10. ASSUME NEW d \in Conns, SolutionSent(d) PROVE Same
    BY <1>2, <1>10 DEF SolutionSent
  <1>11. ASSUME NEW d \in Conns, ConnNext(d)
         PROVE  Same \/ \E k \in ChannelIds :
                  channels[c][k] # None /\ pending'[c].sol.tmpl = channels[c][k].job.tmpl
    BY <1>4, <1>5, <1>6, <1>7, <1>10, <1>11 DEF ConnNext
  <1> QED
    BY <1>8, <1>9, <1>11 DEF Next, ServerNext

(* The queue stays in order, and every open channel's miner heard of.      *)
LEMMA StepHeard ==
    ASSUME IndInv, ShareAfterConnect, ChannelsHeard, [Next]_vars
    PROVE  ShareAfterConnect' /\ ChannelsHeard'
  <1>0. ConnType /\ SharedType /\ \A c \in Conns : ConnOK(c)
    BY TypeParts DEF IndInv
  <1>1. \/ UNCHANGED dbVars
        \/ TakeDbEvent
        \/ \E c \in Conns, ident \in Identities, rate \in Rates : OpenChannel(c, ident, rate)
        \/ \E c \in Conns, k \in ChannelIds :
              channels[c][k] # None /\ DbShare(channels[c][k].addr) /\ UNCHANGED announced
    <2>1. ASSUME NEW c \in Conns, NEW k \in ChannelIds, channels[c][k] # None,
                 Acknowledge(c, k), UNCHANGED announced
          PROVE  UNCHANGED dbVars \/ (DbShare(channels[c][k].addr) /\ UNCHANGED announced)
      BY <2>1 DEF Acknowledge, dbVars
    <2>2. ASSUME NEW c \in Conns, ShareNext(c)
          PROVE  \/ UNCHANGED dbVars
                 \/ \E k \in ChannelIds :
                      channels[c][k] # None /\ Acknowledge(c, k) /\ UNCHANGED announced
      <3> PICK k \in ChannelIds, h \in Hashes :
              \E j : \/ RejectStale(c, k, j, h) \/ RejectLow(c, k, j, h)
                    \/ AcceptShare(c, k, j, h) \/ FindBlock(c, k, j, h)
        BY <2>2 DEF ShareNext
      <3> QED
        BY DEF RejectStale, RejectLow, AcceptShare, FindBlock, ReplyError, Submitted, dbVars
    <2>3. ASSUME NEW c \in Conns, SolutionSent(c)
          PROVE  \E k \in ChannelIds :
                      channels[c][k] # None /\ Acknowledge(c, k) /\ UNCHANGED announced
      <3>1. pending[c] \in Pending /\ channels[c][pending[c].chan] # None
        BY <1>0, <2>3 DEF SolutionSent, ConnOK, ConnType
      <3> QED
        BY <2>3, <3>1 DEF SolutionSent, Pending
    <2>4. ASSUME NEW c \in Conns, ConnNext(c), ~ShareNext(c), ~SolutionSent(c),
                 ~\E ident \in Identities, rate \in Rates : OpenChannel(c, ident, rate)
          PROVE  UNCHANGED dbVars
      BY <2>4 DEF ConnNext, Accept, HandshakeDone, HandshakeFails, SetupConnection, PeerGone,
                  CloseConnection, OpenFails, TemplateChanged
    <2>5. CASE ServerExit \/ NodeNext \/ UNCHANGED vars
      BY <2>5 DEF ServerExit, NodeNext, Publish, TakeSolution, NodeStops, vars, dbVars
    <2>6. ASSUME NEW c \in Conns, ConnNext(c)
          PROVE  \/ UNCHANGED dbVars
                 \/ \E ident \in Identities, rate \in Rates : OpenChannel(c, ident, rate)
                 \/ \E k \in ChannelIds :
                      channels[c][k] # None /\ DbShare(channels[c][k].addr) /\ UNCHANGED announced
      BY <2>1, <2>2, <2>3, <2>4, <2>6
    <2> QED
      BY <2>5, <2>6 DEF Next, ServerNext
  <1>2. ASSUME NEW c \in Conns, NEW ident \in Identities, NEW rate \in Rates,
               OpenChannel(c, ident, rate)
        PROVE  /\ ShareAfterConnect'
               /\ Heard \subseteq Heard'
               /\ ParseMinerAddress(ident) \in Heard'
    <2> DEFINE e == [kind |-> "connected", addr |-> ParseMinerAddress(ident)]
    <2>1. dbQ' = Append(dbQ, e) /\ UNCHANGED announced
      BY <1>2 DEF OpenChannel, DbConnected
    <2>2. e \in DbEvent /\ e.kind = "connected" /\ e.addr = ParseMinerAddress(ident)
      BY IdentityAddress DEF DbEvent
    <2> HIDE DEF e
    <2> QED
      BY <1>0, <2>1, <2>2, AppendInOrder
  <1>3. ShareAfterConnect' /\ Heard \subseteq Heard'
    <2>1. CASE UNCHANGED dbVars
      BY <2>1 DEF dbVars, ShareAfterConnect, Heard
    <2>2. ASSUME NEW c \in Conns, NEW k \in ChannelIds, channels[c][k] # None,
                 DbShare(channels[c][k].addr), UNCHANGED announced
          PROVE  ShareAfterConnect' /\ Heard \subseteq Heard'
      <3> DEFINE e == [kind |-> "share", addr |-> channels[c][k].addr]
      <3>1. e \in DbEvent /\ e.addr = channels[c][k].addr /\ dbQ' = Append(dbQ, e)
        BY <1>0, <2>2 DEF DbShare, DbEvent, ConnType, ChannelInfo
      <3>2. channels[c][k].addr \in Heard
        BY <2>2 DEF ChannelsHeard
      <3> HIDE DEF e
      <3> QED
        BY <1>0, <2>2, <3>1, <3>2, AppendInOrder
    <2>3. CASE TakeDbEvent
      BY <1>0, <2>3, TakeInOrder
    <2> QED
      BY <1>1, <1>2, <2>1, <2>2, <2>3
  <1>4. ASSUME NEW c \in Conns, NEW k \in ChannelIds, channels'[c][k] # None
        PROVE  channels'[c][k].addr \in Heard'
    <2>1. CASE KeptChannel(c, k)
      BY <1>3, <2>1 DEF ChannelsHeard, KeptChannel
    <2>2. CASE \E ident \in Identities, rate \in Rates :
                 /\ OpenChannel(c, ident, rate)
                 /\ channels'[c][k].addr = ParseMinerAddress(ident)
      BY <1>2, <2>2
    <2> QED
      BY <1>4, <2>1, <2>2, ChannelStep
  <1> QED
    BY <1>3, <1>4 DEF ChannelsHeard

(* The DB worker is told of a miner before it is told of its first share,  *)
(* whatever connections open, close and share in between.                  *)
THEOREM AnnouncedFirst == Spec => []ShareAfterConnect
  <1>1. Init => ShareAfterConnect /\ ChannelsHeard
    BY DEF Init, ShareAfterConnect, ChannelsHeard, NoChannels
  <1>2. IndInv /\ ShareAfterConnect /\ ChannelsHeard /\ [Next]_vars
          => ShareAfterConnect' /\ ChannelsHeard'
    BY StepHeard
  <1> QED
    BY <1>1, <1>2, Invariance, PTL DEF Spec
=============================================================================
