-------------------------------- MODULE Pool --------------------------------
(***************************************************************************)
(* The pool process of pool/src/main.rs: the SV2 server and the IPC thread *)
(* joined by the template watch and the solution queue, with Bitcoin Core  *)
(* and the DB worker's end of its queue around them.  Each of the two      *)
(* components is checked to see, in this composition, only the environment *)
(* that its own module assumes.                                            *)
(***************************************************************************)
EXTENDS Naturals, Sequences, FiniteSets

CONSTANTS
    Conns, MaxChannels, MaxDbQueue, SolutionCapacity, Identities,
    ValidAddresses, PoolAddress, Rates, RateTarget, MaxHash, Versions, None,
    MaxTip, MaxFee, MaxTemplates,
    TipTarget          \* the network target of the block on each tip

VARIABLES
    listening, phase, peer, seen, next_channel_id, next_job_id, channels,
    pending, client, reply, dbQ, announced,         \* Sv2Server
    watch, solQ, solOpen,                           \* shared
    ipc, block, template_id, published, core, answer, handles, leaked,
    verdict                                         \* NodeIpc

Blocks == [tip : 0 .. MaxTip, fee : 0 .. MaxFee]
NetworkTarget == [b \in Blocks |-> TipTarget[b.tip]]
Addresses == Identities \cup {PoolAddress}

Server == INSTANCE Sv2Server
Node == INSTANCE NodeIpc WITH receivers <- listening

ASSUME PoolAssumption ==
    /\ MaxChannels \in Nat /\ MaxDbQueue \in Nat /\ SolutionCapacity \in Nat \ {0}
    /\ MaxHash \in Nat /\ Versions \subseteq Nat
    /\ MaxTip \in Nat /\ MaxFee \in Nat /\ MaxTemplates \in Nat
    /\ RateTarget \in [Rates -> 0 .. MaxHash - 1]
    /\ TipTarget \in [0 .. MaxTip -> 0 .. MaxHash - 1]
    /\ None \notin Nat \cup Server!JobInfo \cup Server!ChannelInfo
                       \cup Server!View \cup Server!Pending

serverOwn == <<phase, peer, seen, next_channel_id, next_job_id, channels,
               pending, client, reply, dbQ, announced>>
nodeOwn == <<ipc, block, template_id, published, core, answer, handles, leaked, verdict>>
vars == <<listening, serverOwn, watch, solQ, solOpen, nodeOwn>>

(* main() starts the server only once node_ipc::start has returned the     *)
(* first template.                                                         *)
Init == Node!Init /\ Server!Init

ServerStep == Server!ServerNext /\ UNCHANGED nodeOwn
NodeStep == Node!ThreadNext /\ UNCHANGED serverOwn
CoreStep == Node!CoreNext /\ UNCHANGED serverOwn
DbStep == Server!TakeDbEvent /\ UNCHANGED nodeOwn

Next == ServerStep \/ NodeStep \/ CoreStep \/ DbStep

Spec == Init /\ [][Next]_vars

(* The fairness of the components: see Sv2Server and NodeIpc.              *)
Fairness ==
    /\ \A c \in Conns :
         /\ SF_vars(Server!TemplateChanged(c) /\ UNCHANGED nodeOwn)
         /\ SF_vars(Server!SolutionSent(c) /\ UNCHANGED nodeOwn)
    /\ WF_vars(DbStep)
    /\ WF_vars(Node!EnterSelect /\ UNCHANGED serverOwn)
    /\ SF_vars(Node!WaitNextAnswered /\ UNCHANGED serverOwn)
    /\ WF_vars(Node!WaitNextSome /\ UNCHANGED serverOwn)
    /\ WF_vars((Node!FetchTemplate \/ Node!Shutdown) /\ UNCHANGED serverOwn)
    /\ WF_vars(Node!SubmitSolution /\ UNCHANGED serverOwn)

FairSpec == Spec /\ Fairness

-----------------------------------------------------------------------------
(* ---- Properties ---- *)

(* Composed with the real IPC thread and Core, the server is a behaviour   *)
(* of Sv2Server: what reaches it from the node is what that module says.   *)
ServerSpec == Server!Spec

(* Composed with the real server, the IPC thread is a behaviour of         *)
(* NodeIpc: every solution it receives is on a template it published.      *)
NodeSpec == Node!Spec

(* End to end: a block template of Core reaches every channel of a miner   *)
(* that stays connected, unless Core moves on, the IPC thread ends or the  *)
(* process exits, if the miners do not keep finding blocks.                *)
JobsFollowCore ==
    <>[](solQ = <<>>) =>
        \A c \in Conns, b \in Blocks :
            (core = b /\ phase[c] = "running")
            ~> \/ core # b
               \/ ipc = "stopped" \/ ~listening
               \/ phase[c] \notin {"running", "sending"} \/ peer[c] = "gone"
               \/ \A k \in Server!OpenIds(c) : channels[c][k].job.tmpl.block = b

(* A task that has found a block gets back to its miner: the IPC thread    *)
(* makes room in the queue, or ends and lets the send fail, at whatever    *)
(* point of its loop it is.                                                *)
FinderReleased == \A c \in Conns : phase[c] = "sending" ~> phase[c] # "sending"

-----------------------------------------------------------------------------
(* ---- What the repository says, and the code does not do ---- *)

(* README.md:4: "if they find a block, the full subsidy and fees go        *)
(* directly to them".  A valid block on the tip of the chain, found on a   *)
(* job of the pool and sent to Core without an error, is not refused.      *)
FoundBlockNotLost == verdict.kind = "refused" => ~verdict.onTip
=============================================================================
