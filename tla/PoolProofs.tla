----------------------------- MODULE PoolProofs -----------------------------
(***************************************************************************)
(* Proofs about Pool, for any number of connections, channels, templates   *)
(* and blocks: composed with each other, the server and the IPC thread     *)
(* each see only what their own modules say they may see, so that what is  *)
(* proved about each of them holds of the pool.                            *)
(***************************************************************************)
EXTENDS Pool, TLAPS

(* The components with what is proved about them.                          *)
ServerFacts == INSTANCE Sv2ServerProofs
NodeFacts == INSTANCE NodeIpcProofs WITH receivers <- listening

-----------------------------------------------------------------------------
(* ---- The components are the ones Pool composes ---- *)

(* The server of ServerFacts is the one of Pool.                           *)
LEMMA SameServer ==
    /\ Server!Init <=> ServerFacts!Init
    /\ Server!ServerNext <=> ServerFacts!ServerNext
    /\ Server!TakeDbEvent <=> ServerFacts!TakeDbEvent
    /\ Server!NodeNext <=> ServerFacts!NodeNext
    /\ Server!vars = ServerFacts!vars
  <1> USE DEF Server!ChannelIds, ServerFacts!ChannelIds, Server!Hashes, ServerFacts!Hashes,
              Server!Template, ServerFacts!Template, Server!FirstFrames, ServerFacts!FirstFrames,
              Server!connVars, ServerFacts!connVars, Server!nodeVars, ServerFacts!nodeVars,
              Server!dbVars, ServerFacts!dbVars, Server!NoChannels, ServerFacts!NoChannels,
              Server!Reset, ServerFacts!Reset, Server!Disconnect, ServerFacts!Disconnect,
              Server!WriteResults, ServerFacts!WriteResults,
              Server!ParseMinerAddress, ServerFacts!ParseMinerAddress,
              Server!CanBuild, ServerFacts!CanBuild
  <1>1. Server!Init <=> ServerFacts!Init
    BY DEF Server!Init, ServerFacts!Init
  <1>2. Server!NodeNext <=> ServerFacts!NodeNext
    BY DEF Server!NodeNext, ServerFacts!NodeNext, Server!Publish, ServerFacts!Publish,
           Server!TakeSolution, ServerFacts!TakeSolution, Server!NodeStops, ServerFacts!NodeStops
  <1>3. Server!TakeDbEvent <=> ServerFacts!TakeDbEvent
    BY DEF Server!TakeDbEvent, ServerFacts!TakeDbEvent
  <1>4. Server!vars = ServerFacts!vars
    BY DEF Server!vars, ServerFacts!vars
  <1>5. Server!ServerExit <=> ServerFacts!ServerExit
    BY DEF Server!ServerExit, ServerFacts!ServerExit
  <1>6. Server!DbRoom <=> ServerFacts!DbRoom
    <2> DEFINE Sending == {c \in Conns : phase[c] = "sending"}
    <2> HIDE DEF Sending
    <2>1. Server!Cardinality(Sending) = ServerFacts!Cardinality(Sending)
      BY DEF Server!Cardinality, ServerFacts!Cardinality,
             Server!IsFiniteSet, ServerFacts!IsFiniteSet
    <2> QED
      BY <2>1 DEF Server!DbRoom, ServerFacts!DbRoom, Sending
  <1>7. ASSUME NEW c PROVE Server!Accept(c) <=> ServerFacts!Accept(c)
    BY DEF Server!Accept, ServerFacts!Accept
  <1>8. ASSUME NEW c PROVE Server!HandshakeDone(c) <=> ServerFacts!HandshakeDone(c)
    BY DEF Server!HandshakeDone, ServerFacts!HandshakeDone
  <1>9. ASSUME NEW c PROVE Server!HandshakeFails(c) <=> ServerFacts!HandshakeFails(c)
    BY DEF Server!HandshakeFails, ServerFacts!HandshakeFails
  <1>10. ASSUME NEW c, NEW m
         PROVE  Server!SetupConnection(c, m) <=> ServerFacts!SetupConnection(c, m)
    BY DEF Server!SetupConnection, ServerFacts!SetupConnection,
           Server!SetupAccepted, ServerFacts!SetupAccepted
  <1>11. ASSUME NEW c PROVE Server!PeerGone(c) <=> ServerFacts!PeerGone(c)
    BY DEF Server!PeerGone, ServerFacts!PeerGone
  <1>12. ASSUME NEW c PROVE Server!CloseConnection(c) <=> ServerFacts!CloseConnection(c)
    BY DEF Server!CloseConnection, ServerFacts!CloseConnection
  <1>13. ASSUME NEW c, NEW ident, NEW rate
         PROVE  Server!OpenChannel(c, ident, rate)
                <=> ServerFacts!OpenChannel(c, ident, rate)
    <2>1. Server!NewChannel(c, Server!ParseMinerAddress(ident), rate)
          = ServerFacts!NewChannel(c, Server!ParseMinerAddress(ident), rate)
      BY DEF Server!NewChannel, ServerFacts!NewChannel,
             Server!ChannelTarget, ServerFacts!ChannelTarget
    <2>2. ASSUME NEW v, NEW j PROVE Server!JobSent(v, j) = ServerFacts!JobSent(v, j)
      BY DEF Server!JobSent, ServerFacts!JobSent, Server!OnNewJob, ServerFacts!OnNewJob,
             Server!OnSetNewPrevHash, ServerFacts!OnSetNewPrevHash
    <2> QED
      BY <2>1, <2>2, <1>6 DEF Server!OpenChannel, ServerFacts!OpenChannel,
             Server!Borrow, ServerFacts!Borrow,
             Server!ConsumeJobId, ServerFacts!ConsumeJobId,
             Server!DbConnected, ServerFacts!DbConnected
  <1>14. ASSUME NEW c, NEW ident
         PROVE  Server!OpenFails(c, ident) <=> ServerFacts!OpenFails(c, ident)
    BY DEF Server!OpenFails, ServerFacts!OpenFails
  <1>15. ASSUME NEW c PROVE Server!TemplateChanged(c) <=> ServerFacts!TemplateChanged(c)
    BY DEF Server!TemplateChanged, ServerFacts!TemplateChanged,
           Server!BorrowAndUpdate, ServerFacts!BorrowAndUpdate,
           Server!Broadcasts, ServerFacts!Broadcasts,
           Server!ConsumeJobId, ServerFacts!ConsumeJobId,
           Server!OpenIds, ServerFacts!OpenIds, Server!JobSent, ServerFacts!JobSent,
           Server!OnNewJob, ServerFacts!OnNewJob,
           Server!OnSetNewPrevHash, ServerFacts!OnSetNewPrevHash
  <1>16. ASSUME NEW c, NEW k, NEW j, NEW h
         PROVE  Server!Rebuilt(c, k, j, h) = ServerFacts!Rebuilt(c, k, j, h)
    BY DEF Server!Rebuilt, ServerFacts!Rebuilt, Server!PoolHash, ServerFacts!PoolHash,
           Server!Work, ServerFacts!Work
  <1>17. ASSUME NEW c, NEW k, NEW j
         PROVE  Server!Submitted(c, k, j) <=> ServerFacts!Submitted(c, k, j)
    BY DEF Server!Submitted, ServerFacts!Submitted
  <1>18. ASSUME NEW c, NEW k, NEW j
         PROVE  Server!IsStale(c, k, j) <=> ServerFacts!IsStale(c, k, j)
    BY DEF Server!IsStale, ServerFacts!IsStale
  <1>19. ASSUME NEW c, NEW k, NEW j, NEW h
         PROVE  Server!IsBlock(c, k, j, h) <=> ServerFacts!IsBlock(c, k, j, h)
    BY <1>16 DEF Server!IsBlock, ServerFacts!IsBlock
  <1>20. ASSUME NEW c, NEW k
         PROVE  Server!Acknowledge(c, k) <=> ServerFacts!Acknowledge(c, k)
    BY DEF Server!Acknowledge, ServerFacts!Acknowledge,
           Server!DbShare, ServerFacts!DbShare
  <1>21. ASSUME NEW c, NEW k, NEW j, NEW h
         PROVE  Server!RejectStale(c, k, j, h) <=> ServerFacts!RejectStale(c, k, j, h)
    BY <1>17, <1>18 DEF Server!RejectStale, ServerFacts!RejectStale,
           Server!ReplyError, ServerFacts!ReplyError, Server!ShareReply, ServerFacts!ShareReply
  <1>22. ASSUME NEW c, NEW k, NEW j, NEW h
         PROVE  Server!RejectLow(c, k, j, h) <=> ServerFacts!RejectLow(c, k, j, h)
    BY <1>17, <1>18, <1>16 DEF Server!RejectLow, ServerFacts!RejectLow,
           Server!ReplyError, ServerFacts!ReplyError, Server!ShareReply, ServerFacts!ShareReply
  <1>23. ASSUME NEW c, NEW k, NEW j, NEW h
         PROVE  Server!AcceptShare(c, k, j, h) <=> ServerFacts!AcceptShare(c, k, j, h)
    BY <1>17, <1>18, <1>16, <1>19, <1>20, <1>6
       DEF Server!AcceptShare, ServerFacts!AcceptShare,
           Server!ShareReply, ServerFacts!ShareReply
  <1>24. ASSUME NEW c, NEW k, NEW j, NEW h
         PROVE  Server!FindBlock(c, k, j, h) <=> ServerFacts!FindBlock(c, k, j, h)
    BY <1>17, <1>18, <1>16, <1>19, <1>6 DEF Server!FindBlock, ServerFacts!FindBlock,
           Server!ShareReply, ServerFacts!ShareReply
  <1>25. ASSUME NEW c PROVE Server!ShareNext(c) <=> ServerFacts!ShareNext(c)
    BY <1>21, <1>22, <1>23, <1>24 DEF Server!ShareNext, ServerFacts!ShareNext,
           Server!ClientJobs, ServerFacts!ClientJobs
  <1>26. ASSUME NEW c PROVE Server!SolutionSent(c) <=> ServerFacts!SolutionSent(c)
    BY <1>20 DEF Server!SolutionSent, ServerFacts!SolutionSent
  <1>27. ASSUME NEW c PROVE Server!ConnNext(c) <=> ServerFacts!ConnNext(c)
    BY <1>7, <1>8, <1>9, <1>10, <1>11, <1>12, <1>13, <1>14, <1>15, <1>25, <1>26
       DEF Server!ConnNext, ServerFacts!ConnNext
  <1> QED
    BY <1>1, <1>2, <1>3, <1>4, <1>5, <1>27 DEF Server!ServerNext, ServerFacts!ServerNext

(* The IPC thread of NodeFacts is the one of Pool.                         *)
LEMMA SameNode ==
    /\ Node!Init <=> NodeFacts!Init
    /\ Node!ThreadNext <=> NodeFacts!ThreadNext
    /\ Node!CoreNext <=> NodeFacts!CoreNext
    /\ Node!PoolNext <=> NodeFacts!PoolNext
    /\ Node!vars = NodeFacts!vars
  <1> USE DEF Node!vars, NodeFacts!vars, Node!threadVars, NodeFacts!threadVars,
              Node!waitVars, NodeFacts!waitVars, Node!ThreadEnds, NodeFacts!ThreadEnds,
              Node!Destroyed, NodeFacts!Destroyed, Node!Judged, NodeFacts!Judged,
              Node!WaitDropped, NodeFacts!WaitDropped
  <1>1. Node!Init <=> NodeFacts!Init
    BY DEF Node!Init, NodeFacts!Init
  <1>2. /\ Node!EnterSelect <=> NodeFacts!EnterSelect
        /\ Node!WaitNextSome <=> NodeFacts!WaitNextSome
        /\ Node!WaitNextNone <=> NodeFacts!WaitNextNone
        /\ Node!WaitNextError <=> NodeFacts!WaitNextError
    BY DEF Node!EnterSelect, NodeFacts!EnterSelect, Node!WaitNextSome, NodeFacts!WaitNextSome,
           Node!WaitNextNone, NodeFacts!WaitNextNone, Node!WaitNextError, NodeFacts!WaitNextError
  <1>3. /\ Node!FetchTemplate <=> NodeFacts!FetchTemplate
        /\ Node!FetchError <=> NodeFacts!FetchError
        /\ Node!Shutdown <=> NodeFacts!Shutdown
    BY DEF Node!FetchTemplate, NodeFacts!FetchTemplate, Node!FetchError, NodeFacts!FetchError,
           Node!Shutdown, NodeFacts!Shutdown
  <1>4. /\ Node!SubmitSolution <=> NodeFacts!SubmitSolution
        /\ Node!SubmitError <=> NodeFacts!SubmitError
    BY DEF Node!SubmitSolution, NodeFacts!SubmitSolution, Node!SubmitError, NodeFacts!SubmitError
  <1>5. Node!ThreadNext <=> NodeFacts!ThreadNext
    BY <1>2, <1>3, <1>4 DEF Node!ThreadNext, NodeFacts!ThreadNext
  <1>6. Node!CoreNext <=> NodeFacts!CoreNext
    BY DEF Node!CoreNext, NodeFacts!CoreNext, Node!NewTip, NodeFacts!NewTip,
           Node!FeesRise, NodeFacts!FeesRise, Node!WaitNextAnswered, NodeFacts!WaitNextAnswered
  <1>7. Node!PoolNext <=> NodeFacts!PoolNext
    BY DEF Node!PoolNext, NodeFacts!PoolNext, Node!PushSolution, NodeFacts!PushSolution,
           Node!DropReceivers, NodeFacts!DropReceivers, Node!Solution, NodeFacts!Solution,
           Node!Template, NodeFacts!Template, Node!Block, NodeFacts!Block
  <1> QED
    BY <1>1, <1>5, <1>6, <1>7

(* The server's own assumptions follow from those of the pool.             *)
LEMMA ServerAssumptions ==
    /\ MaxChannels \in Nat /\ MaxTemplates \in Nat /\ MaxDbQueue \in Nat
    /\ SolutionCapacity \in Nat /\ MaxHash \in Nat /\ Versions \subseteq Nat
    /\ RateTarget \in [Rates -> ServerFacts!Hashes \ {MaxHash}]
    /\ NetworkTarget \in [Blocks -> ServerFacts!Hashes \ {MaxHash}]
    /\ None \notin Nat \cup ServerFacts!JobInfo \cup ServerFacts!ChannelInfo
                       \cup ServerFacts!View \cup ServerFacts!Pending
  <1>1. /\ ServerFacts!JobInfo = Server!JobInfo /\ ServerFacts!ChannelInfo = Server!ChannelInfo
        /\ ServerFacts!View = Server!View /\ ServerFacts!Pending = Server!Pending
    BY DEF ServerFacts!JobInfo, Server!JobInfo, ServerFacts!ChannelInfo, Server!ChannelInfo,
           ServerFacts!View, Server!View, ServerFacts!Pending, Server!Pending,
           ServerFacts!Template, Server!Template, ServerFacts!ChannelIds, Server!ChannelIds,
           ServerFacts!Hashes, Server!Hashes, ServerFacts!Addresses, Server!Addresses,
           ServerFacts!Solution, Server!Solution
  <1>2. 0 .. MaxHash - 1 = ServerFacts!Hashes \ {MaxHash}
    BY PoolAssumption DEF ServerFacts!Hashes
  <1>3. NetworkTarget \in [Blocks -> ServerFacts!Hashes \ {MaxHash}]
    BY <1>2, PoolAssumption DEF NetworkTarget, Blocks
  <1> QED
    BY <1>1, <1>2, <1>3, PoolAssumption

-----------------------------------------------------------------------------
(* ---- The invariant of the composition ---- *)

(* What joins the two components: the solution queue is open as long as    *)
(* the thread runs, the thread's next number is the one after the watch's, *)
(* and every job and every solution is on a template that was published.   *)
Link ==
    /\ solOpen <=> ipc # "stopped"
    /\ ipc # "stopped" => template_id = watch.id + 1
    /\ \A c \in Conns, k \in ServerFacts!ChannelIds :
          channels[c][k] # None => channels[c][k].job.tmpl \in published
    /\ \A c \in Conns : phase[c] = "sending" => pending[c].sol.tmpl \in published

PoolInv == ServerFacts!IndInv /\ NodeFacts!IndInv /\ Link

(* Core's blocks and the pool's templates are the same for both.           *)
LEMMA SharedTypes ==
    /\ ServerFacts!Template = NodeFacts!Template
    /\ ServerFacts!Solution = NodeFacts!Solution
    /\ NodeFacts!Block = Blocks
  BY DEF ServerFacts!Template, NodeFacts!Template, ServerFacts!Solution, NodeFacts!Solution,
         NodeFacts!Block, Blocks, ServerFacts!Addresses, Addresses

(* The invariant holds when main() starts the server.                      *)
LEMMA InitPoolInv == Init => PoolInv
  <1> SUFFICES ASSUME Init PROVE PoolInv
    OBVIOUS
  <1>1. ServerFacts!Init /\ NodeFacts!Init
    BY SameServer, SameNode DEF Init
  <1>2. ServerFacts!IndInv
    BY <1>1, ServerFacts!InitIndInv, ServerAssumptions
  <1>3. NodeFacts!IndInv
    BY <1>1, NodeFacts!InitIndInv, PoolAssumption
  <1>4. Link
    BY <1>1 DEF Link, ServerFacts!Init, NodeFacts!Init, ServerFacts!NoChannels
  <1> QED
    BY <1>2, <1>3, <1>4 DEF PoolInv

(* A step of the IPC thread or of Core is, to the server, a step of its    *)
(* environment or none: the thread publishes templates in the order of     *)
(* their numbers, takes solutions and at most once ends.                   *)
LEMMA ServerSees == PoolInv /\ [Next]_vars => [ServerFacts!Next]_(ServerFacts!vars)
  <1> SUFFICES ASSUME PoolInv, [Next]_vars PROVE [ServerFacts!Next]_(ServerFacts!vars)
    OBVIOUS
  <1> USE DEF ServerFacts!vars, ServerFacts!connVars, ServerFacts!nodeVars, ServerFacts!dbVars,
              serverOwn, NodeFacts!threadVars, NodeFacts!waitVars
  <1>1. CASE ServerStep \/ DbStep
    BY <1>1, SameServer DEF ServerStep, DbStep, ServerFacts!Next
  <1>2. ASSUME NodeFacts!FetchTemplate, UNCHANGED serverOwn PROVE ServerFacts!NodeNext
    <2> DEFINE raw == [id |-> template_id, block |-> block]
    <2>1. raw \in ServerFacts!Template
      BY <1>2, SharedTypes, PoolAssumption
         DEF PoolInv, NodeFacts!IndInv, NodeFacts!TypeOK, NodeFacts!Progression,
             NodeFacts!FetchTemplate, NodeFacts!Template
    <2>2. ServerFacts!Publish(raw)
      BY <1>2 DEF NodeFacts!FetchTemplate, ServerFacts!Publish, PoolInv, Link
    <2> QED
      BY <2>1, <2>2 DEF ServerFacts!NodeNext
  <1>3. ASSUME NodeFacts!SubmitSolution \/ NodeFacts!SubmitError, UNCHANGED serverOwn
        PROVE  ServerFacts!NodeNext
    BY <1>3 DEF NodeFacts!SubmitSolution, NodeFacts!SubmitError, ServerFacts!NodeNext,
                ServerFacts!TakeSolution
  <1>4. ASSUME NodeFacts!WaitNextError \/ NodeFacts!FetchError \/ NodeFacts!Shutdown,
               UNCHANGED serverOwn
        PROVE  ServerFacts!NodeNext
    BY <1>4 DEF NodeFacts!WaitNextError, NodeFacts!FetchError, NodeFacts!Shutdown,
                NodeFacts!ThreadEnds, ServerFacts!NodeNext, ServerFacts!NodeStops, PoolInv, Link
  <1>5. ASSUME \/ NodeFacts!EnterSelect \/ NodeFacts!WaitNextSome \/ NodeFacts!WaitNextNone
               \/ NodeFacts!CoreNext,
               UNCHANGED serverOwn
        PROVE  UNCHANGED ServerFacts!vars
    BY <1>5 DEF NodeFacts!EnterSelect, NodeFacts!WaitNextSome, NodeFacts!WaitNextNone,
                NodeFacts!CoreNext, NodeFacts!NewTip, NodeFacts!FeesRise,
                NodeFacts!WaitNextAnswered
  <1>6. CASE NodeStep \/ CoreStep
    BY <1>2, <1>3, <1>4, <1>5, <1>6, SameNode
       DEF NodeStep, CoreStep, NodeFacts!ThreadNext, ServerFacts!Next
  <1>7. CASE UNCHANGED vars
    BY <1>7 DEF vars
  <1> QED
    BY <1>1, <1>6, <1>7 DEF Next

(* A step of the server or of the DB worker is, to the IPC thread, a step  *)
(* of its environment or none: the only solutions that enter the queue are *)
(* on templates the thread has published.                                  *)
LEMMA NodeSees == PoolInv /\ [Next]_vars => [NodeFacts!Next]_(NodeFacts!vars)
  <1> SUFFICES ASSUME PoolInv, [Next]_vars PROVE [NodeFacts!Next]_(NodeFacts!vars)
    OBVIOUS
  <1> USE DEF NodeFacts!vars, NodeFacts!threadVars, NodeFacts!waitVars, nodeOwn, ServerFacts!nodeVars
  <1>1. CASE NodeStep \/ CoreStep
    BY <1>1, SameNode DEF NodeStep, CoreStep, NodeFacts!Next
  <1>2. ASSUME ServerFacts!ServerExit, UNCHANGED nodeOwn PROVE NodeFacts!PoolNext
    BY <1>2 DEF ServerFacts!ServerExit, NodeFacts!PoolNext, NodeFacts!DropReceivers
  <1>3. ASSUME NEW c \in Conns, ServerFacts!SolutionSent(c), UNCHANGED nodeOwn
        PROVE  NodeFacts!PoolNext \/ UNCHANGED NodeFacts!vars
    <2>1. pending[c].sol \in NodeFacts!Solution
      BY <1>3, SharedTypes
         DEF PoolInv, ServerFacts!IndInv, ServerFacts!ConnOK, ServerFacts!TypeOK,
             ServerFacts!Pending, ServerFacts!SolutionSent
    <2>2. pending[c].sol.tmpl \in published
      BY <1>3 DEF PoolInv, Link, ServerFacts!SolutionSent
    <2> QED
      BY <1>3, <2>1, <2>2 DEF ServerFacts!SolutionSent, NodeFacts!PoolNext, NodeFacts!PushSolution
  <1>4. ASSUME NEW c \in Conns, ServerFacts!ConnNext(c), ~ServerFacts!SolutionSent(c)
        PROVE  UNCHANGED <<listening, watch, solQ, solOpen>>
    <2>1. CASE ServerFacts!ShareNext(c)
      <3>1. PICK k, h, j : \/ ServerFacts!RejectStale(c, k, j, h)
                           \/ ServerFacts!RejectLow(c, k, j, h)
                           \/ ServerFacts!AcceptShare(c, k, j, h)
                           \/ ServerFacts!FindBlock(c, k, j, h)
        BY <2>1 DEF ServerFacts!ShareNext
      <3>2. ASSUME NEW kind, ServerFacts!ReplyError(kind, c, k, j, h)
            PROVE  UNCHANGED <<listening, watch, solQ, solOpen>>
        BY <3>2 DEF ServerFacts!ReplyError
      <3>3. CASE ServerFacts!RejectStale(c, k, j, h) \/ ServerFacts!RejectLow(c, k, j, h)
        BY <3>2, <3>3 DEF ServerFacts!RejectStale, ServerFacts!RejectLow
      <3> QED
        BY <3>1, <3>3 DEF ServerFacts!AcceptShare, ServerFacts!FindBlock
    <2> QED
      BY <1>4, <2>1 DEF ServerFacts!ConnNext, ServerFacts!Accept, ServerFacts!HandshakeDone,
            ServerFacts!HandshakeFails, ServerFacts!SetupConnection, ServerFacts!PeerGone,
            ServerFacts!CloseConnection, ServerFacts!OpenChannel, ServerFacts!OpenFails,
            ServerFacts!TemplateChanged
  <1>5. CASE ServerStep
    BY <1>2, <1>3, <1>4, <1>5, SameServer DEF ServerStep, ServerFacts!ServerNext, NodeFacts!Next
  <1>6. CASE DbStep
    BY <1>6, SameServer DEF DbStep, ServerFacts!TakeDbEvent
  <1>7. CASE UNCHANGED vars
    BY <1>7 DEF vars
  <1> QED
    BY <1>1, <1>5, <1>6, <1>7 DEF Next

(* A step keeps the two components joined.                                 *)
LEMMA StepLink == PoolInv /\ [Next]_vars => Link'
  <1> SUFFICES ASSUME PoolInv, [Next]_vars PROVE Link'
    OBVIOUS
  <1>1. [ServerFacts!Next]_(ServerFacts!vars) /\ [NodeFacts!Next]_(NodeFacts!vars)
    BY ServerSees, NodeSees
  <1>2. published \subseteq published' /\ watch \in published
    <2>1. watch \in published
      BY DEF PoolInv, NodeFacts!IndInv, NodeFacts!Progression
    <2> QED
      BY <1>1, <2>1 DEF NodeFacts!Next, NodeFacts!ThreadNext, NodeFacts!CoreNext, NodeFacts!PoolNext,
         NodeFacts!EnterSelect, NodeFacts!WaitNextSome, NodeFacts!WaitNextNone,
         NodeFacts!WaitNextAnswered, NodeFacts!WaitNextError, NodeFacts!FetchTemplate,
         NodeFacts!FetchError, NodeFacts!Shutdown, NodeFacts!SubmitSolution,
         NodeFacts!SubmitError, NodeFacts!NewTip, NodeFacts!FeesRise, NodeFacts!PushSolution,
         NodeFacts!DropReceivers, NodeFacts!vars, NodeFacts!threadVars
  <1>3. /\ (solOpen <=> ipc # "stopped")'
        /\ (ipc # "stopped" => template_id = watch.id + 1)'
    BY <1>1, PoolAssumption
       DEF PoolInv, Link, NodeFacts!IndInv, NodeFacts!TypeOK,
         NodeFacts!Next, NodeFacts!ThreadNext, NodeFacts!CoreNext, NodeFacts!PoolNext,
         NodeFacts!EnterSelect, NodeFacts!WaitNextSome, NodeFacts!WaitNextNone,
         NodeFacts!WaitNextAnswered, NodeFacts!WaitNextError, NodeFacts!FetchTemplate,
         NodeFacts!FetchError, NodeFacts!Shutdown, NodeFacts!SubmitSolution,
         NodeFacts!SubmitError, NodeFacts!NewTip, NodeFacts!FeesRise, NodeFacts!PushSolution,
         NodeFacts!DropReceivers, NodeFacts!vars, NodeFacts!threadVars, NodeFacts!ThreadEnds
  <1>4. ASSUME NEW c \in Conns, NEW k \in ServerFacts!ChannelIds, channels'[c][k] # None
        PROVE  channels'[c][k].job.tmpl \in published'
    <2>1. \/ ServerFacts!KeptChannel(c, k)
          \/ channels'[c][k].job.tmpl = watch
      BY <1>1, <1>4, ServerFacts!ChannelStep, ServerAssumptions DEF PoolInv
    <2> QED
      BY <1>2, <2>1 DEF ServerFacts!KeptChannel, PoolInv, Link
  <1>5. ASSUME NEW c \in Conns, phase'[c] = "sending"
        PROVE  pending'[c].sol.tmpl \in published'
    <2>1. \/ phase[c] = "sending" /\ pending'[c] = pending[c]
          \/ \E k \in ServerFacts!ChannelIds :
                channels[c][k] # None /\ pending'[c].sol.tmpl = channels[c][k].job.tmpl
      BY <1>1, <1>5, ServerFacts!PendingStep, ServerAssumptions DEF PoolInv
    <2> QED
      BY <1>2, <2>1 DEF PoolInv, Link
  <1> QED
    BY <1>3, <1>4, <1>5 DEF Link

(* Each component keeps its own invariant in the composition.              *)
LEMMA StepPoolInv == PoolInv /\ [Next]_vars => PoolInv'
  <1> SUFFICES ASSUME PoolInv, [Next]_vars PROVE PoolInv'
    OBVIOUS
  <1>1. ServerFacts!IndInv'
    BY ServerSees, ServerFacts!StepIndInv, ServerAssumptions DEF PoolInv
  <1>2. NodeFacts!IndInv'
    BY NodeSees, NodeFacts!StepIndInv, PoolAssumption DEF PoolInv
  <1> QED
    BY <1>1, <1>2, StepLink DEF PoolInv

-----------------------------------------------------------------------------
(* ---- The theorems ---- *)

(* The invariant of the composition holds throughout.                      *)
THEOREM Invariance == Spec => []PoolInv
  BY InitPoolInv, StepPoolInv, PTL DEF Spec

(* To the server, the rest of the process is what Sv2Server says it is.    *)
THEOREM ServerImplemented == Spec => ServerSpec
  <1>1. Init => Server!Init
    BY DEF Init
  <1>2. PoolInv /\ [Next]_vars => [Server!Next]_(Server!vars)
    BY ServerSees, SameServer
       DEF Server!Next, ServerFacts!Next, Server!vars, ServerFacts!vars, Server!connVars,
           ServerFacts!connVars, Server!nodeVars, ServerFacts!nodeVars, Server!dbVars,
           ServerFacts!dbVars
  <1> QED
    BY <1>1, <1>2, Invariance, PTL DEF Spec, ServerSpec, Server!Spec

(* To the IPC thread, the server is what NodeIpc says it is: no solution   *)
(* reaches it on a template it never published.                            *)
THEOREM NodeImplemented == Spec => NodeSpec
  <1>1. Init => Node!Init
    BY DEF Init
  <1>2. PoolInv /\ [Next]_vars => [Node!Next]_(Node!vars)
    BY NodeSees, SameNode
       DEF Node!Next, NodeFacts!Next, Node!vars, NodeFacts!vars, Node!threadVars,
           NodeFacts!threadVars, Node!waitVars, NodeFacts!waitVars
  <1> QED
    BY <1>1, <1>2, Invariance, PTL DEF Spec, NodeSpec, Node!Spec

(* What is proved about the server alone holds of the pool: server and     *)
(* miner agree on every job, no channel misses a published template, and   *)
(* the DB worker hears of a miner before its first share.                  *)
THEOREM ServerSafeInPool ==
    Spec => [](/\ ServerFacts!JobAgreement
               /\ ServerFacts!NoMissedTemplate
               /\ ServerFacts!ShareAfterConnect)
  <1>1. Init => ServerFacts!Init
    BY SameServer DEF Init
  <1>2. Spec => ServerFacts!Spec
    BY <1>1, ServerSees, Invariance, PTL DEF Spec, ServerFacts!Spec
  <1>3. ServerFacts!Spec => []ServerFacts!JobAgreement
    BY ServerFacts!JobsAgree, ServerAssumptions
  <1>4. ServerFacts!Spec => []ServerFacts!NoMissedTemplate
    BY ServerFacts!TemplatesReachChannels, ServerAssumptions
  <1>5. ServerFacts!Spec => []ServerFacts!ShareAfterConnect
    BY ServerFacts!AnnouncedFirst, ServerAssumptions
  <1> QED
    BY <1>2, <1>3, <1>4, <1>5, PTL
=============================================================================
