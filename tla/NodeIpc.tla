------------------------------- MODULE NodeIpc -------------------------------
(***************************************************************************)
(* The Bitcoin Core IPC thread of pool/src/node_ipc.rs, with Bitcoin Core  *)
(* as its environment.  The thread holds one BlockTemplate handle of Core, *)
(* waits for the next one, publishes each template on the watch channel    *)
(* and submits the solutions it is sent on whatever handle it then holds.  *)
(***************************************************************************)
EXTENDS Naturals, Sequences

CONSTANTS
    MaxTip,            \* bound: blocks added to the chain
    MaxFee,            \* bound: rises of the mempool fees on one tip
    MaxTemplates,      \* bound: templates published after the first
    SolutionCapacity,  \* capacity of the solution queue (8 in node_ipc.rs)
    Addresses          \* whom a solution's coinbase may pay

(* A block template of Core is fixed by the tip it builds on and by the    *)
(* transactions in it, which change when their fees reach the threshold.   *)
Block == [tip : 0 .. MaxTip, fee : 0 .. MaxFee]

(* RawTemplate: the pool's own number for it, and what Core put in it.     *)
Template == [id : 0 .. MaxTemplates, block : Block]

Solution == [tmpl : Template, addr : Addresses]

(* The outcome of the last submit_solution.  newest: the solution was on   *)
(* the newest published template.  onTip: it was on the tip of the chain.  *)
Verdict == [kind : {"none", "accepted", "refused", "error"},
            newest : BOOLEAN, onTip : BOOLEAN]

ASSUME NodeAssumption ==
    /\ MaxTip \in Nat /\ MaxFee \in Nat /\ MaxTemplates \in Nat
    /\ SolutionCapacity \in Nat \ {0}

VARIABLES
    ipc,          \* "looping" to select!, "waiting" in it, "fetching", "stopped"
    block,        \* the BlockTemplate handle the thread holds
    template_id,  \* the number of the next template
    watch,        \* value of the template watch
    published,    \* every template ever published
    solQ,         \* the solution queue
    solOpen,      \* the thread still owns the queue's receiver
    receivers,    \* somebody still holds a receiver of the watch
    core,         \* the block template Core would build now
    answer,       \* the handle Core has answered the present waitNext with, if any
    handles,      \* handles the thread got and has not asked Core to destroy
    leaked,       \* how Core came to keep a handle that nobody will destroy
    verdict       \* Core's last answer to a solution

threadVars == <<ipc, block, template_id, watch, published>>
waitVars == <<answer, handles, leaked>>
vars == <<threadVars, waitVars, solQ, solOpen, receivers, core, verdict>>

-----------------------------------------------------------------------------

MutReceiverKept ==
    /\ ipc' = "stopped"
    /\ UNCHANGED <<solOpen, solQ>>

(* The thread returns: both of its channel ends are dropped.               *)
ThreadEnds ==
    /\ ipc' = "stopped"
    /\ solOpen' = FALSE
    /\ solQ' = <<>>

(* destroy_block_client ignores a failure: Core may keep the handle, and   *)
(* is not asked again.                                                     *)
Destroyed == {leaked, leaked \cup {"failed"}}

(* A new thread of Core's has been made and select! polls its branches for *)
(* the first time.  The request of waitNext goes out and cannot have an    *)
(* answer yet, so this turn is the solution's if there is one; otherwise   *)
(* the thread waits for whichever comes first.                             *)
EnterSelect ==
    /\ ipc = "looping"
    /\ solQ = <<>>
    /\ ipc' = "waiting"
    /\ UNCHANGED <<block, template_id, watch, published, waitVars, solQ, solOpen,
                   receivers, core, verdict>>

MutDestroysNewHandle ==
    /\ ipc = "waiting"
    /\ template_id <= MaxTemplates
    /\ block' \in answer
    /\ leaked' \in Destroyed
    /\ ipc' = "fetching"
    /\ answer' = {}
    /\ UNCHANGED <<template_id, watch, published, handles, solQ, solOpen, receivers,
                   core, verdict>>

(* The branch of waitNext, with a handle on a newer block template: the    *)
(* old one is destroyed, or Core keeps it, and replaced before the new one *)
(* is read.                                                                *)
WaitNextSome ==
    /\ ipc = "waiting"
    /\ template_id <= MaxTemplates
    /\ \E new_block \in answer :
          /\ handles' = (handles \ {block}) \cup {new_block}
          /\ block' = new_block
    /\ leaked' \in Destroyed
    /\ ipc' = "fetching"
    /\ answer' = {}
    /\ UNCHANGED <<template_id, watch, published, solQ, solOpen, receivers,
                   core, verdict>>

(* waitNext times out: the loop starts again.                              *)
WaitNextNone ==
    /\ ipc = "waiting"
    /\ answer = {}
    /\ ipc' = "looping"
    /\ UNCHANGED <<block, template_id, watch, published, waitVars, solQ, solOpen,
                   receivers, core, verdict>>

(* new_thread or waitNext fails: the error ends the thread as it is.       *)
WaitNextError ==
    /\ ipc = "looping" \/ (ipc = "waiting" /\ answer = {})
    /\ ThreadEnds
    /\ UNCHANGED <<block, template_id, watch, published, waitVars, receivers, core,
                   verdict>>

MutTemplateIdReused ==
    LET raw == [id |-> template_id, block |-> block]
    IN  /\ ipc = "fetching"
        /\ receivers
        /\ watch' = raw
        /\ published' = published \cup {raw}
        /\ ipc' = "looping"
        /\ UNCHANGED <<block, template_id, waitVars, solQ, solOpen, receivers, core,
                       verdict>>

MutTemplateIdTwice ==
    LET raw == [id |-> template_id, block |-> block]
    IN  /\ ipc = "fetching"
        /\ receivers
        /\ watch' = raw
        /\ published' = published \cup {raw}
        /\ template_id' = template_id + 2
        /\ ipc' = "looping"
        /\ UNCHANGED <<block, waitVars, solQ, solOpen, receivers, core, verdict>>

MutNumberedLate ==
    LET raw == [id |-> template_id + 1, block |-> block]
    IN  /\ ipc = "fetching"
        /\ receivers
        /\ watch' = raw
        /\ published' = published \cup {raw}
        /\ template_id' = template_id + 1
        /\ ipc' = "looping"
        /\ UNCHANGED <<block, waitVars, solQ, solOpen, receivers, core, verdict>>

(* The held block is read and published under the next number.             *)
FetchTemplate ==
    LET raw == [id |-> template_id, block |-> block]
    IN  /\ ipc = "fetching"
        /\ receivers
        /\ watch' = raw
        /\ published' = published \cup {raw}
        /\ template_id' = template_id + 1
        /\ ipc' = "looping"
        /\ UNCHANGED <<block, waitVars, solQ, solOpen, receivers, core, verdict>>

(* Nobody is left to publish to: the loop breaks and the handle is         *)
(* destroyed before the socket closes.                                     *)
Shutdown ==
    /\ ipc = "fetching"
    /\ ~receivers
    /\ template_id' = template_id + 1
    /\ handles' = handles \ {block}
    /\ leaked' \in Destroyed
    /\ ThreadEnds
    /\ UNCHANGED <<block, watch, published, answer, receivers, core, verdict>>

MutFetchErrorRetries ==
    /\ ipc = "fetching"
    /\ ipc' = "looping"
    /\ UNCHANGED <<block, template_id, watch, published, waitVars, solQ, solOpen,
                   receivers, core, verdict>>

(* The error ends the thread with the handle exchanged and not published;  *)
(* the last destroy is skipped.                                            *)
FetchError ==
    /\ ipc = "fetching"
    /\ ThreadEnds
    /\ UNCHANGED <<block, template_id, watch, published, waitVars, receivers, core,
                   verdict>>

Judged(kind, sol) ==
    [kind |-> kind, newest |-> sol.tmpl = watch, onTip |-> sol.tmpl.block.tip = core.tip]

(* The branch of the solution drops the wait in progress.  If Core has     *)
(* answered it, or still does before it learns that nobody waits, it has   *)
(* given out a handle that this code neither holds nor destroys.           *)
WaitDropped ==
    /\ answer' = {}
    /\ \/ answer = {} /\ leaked' = leaked
       \/ core # block /\ leaked' = leaked \cup {"dropped"}

MutSolutionAwaitsItsBlock ==
    /\ ipc \in {"looping", "waiting"}
    /\ solQ # <<>>
    /\ Head(solQ).tmpl.block = block
    /\ ipc' = "looping"
    /\ solQ' = Tail(solQ)
    /\ verdict' = Judged("accepted", Head(solQ))
    /\ WaitDropped
    /\ UNCHANGED <<block, template_id, watch, published, handles, solOpen, receivers,
                   core>>

(* A solution goes to the handle now held: the template_id it carries is   *)
(* not looked at.  Core completes that handle's block with the solution's  *)
(* coinbase and nonce, so the proof of work holds only if the solution was *)
(* mined on that very block.  An accepted block on the tip becomes the tip.*)
SubmitSolution ==
    LET sol == Head(solQ)
    IN  /\ ipc \in {"looping", "waiting"}
        /\ solQ # <<>>
        /\ ipc' = "looping"
        /\ solQ' = Tail(solQ)
        /\ IF sol.tmpl.block = block
           THEN /\ verdict' = Judged("accepted", sol)
                /\ core' = IF block.tip = core.tip /\ core.tip < MaxTip
                           THEN [tip |-> core.tip + 1, fee |-> 0] ELSE core
           ELSE /\ verdict' = Judged("refused", sol)
                /\ UNCHANGED core
        /\ WaitDropped
        /\ UNCHANGED <<block, template_id, watch, published, handles, solOpen, receivers>>

(* The call fails: the error is logged and the solution is gone.           *)
SubmitError ==
    /\ ipc \in {"looping", "waiting"}
    /\ solQ # <<>>
    /\ ipc' = "looping"
    /\ solQ' = Tail(solQ)
    /\ verdict' = Judged("error", Head(solQ))
    /\ WaitDropped
    /\ UNCHANGED <<block, template_id, watch, published, handles, solOpen, receivers,
                   core>>

-----------------------------------------------------------------------------
(* ---- Bitcoin Core and the rest of the pool ---- *)

(* Another miner's block becomes the tip.                                  *)
NewTip ==
    /\ core.tip < MaxTip
    /\ core' = [tip |-> core.tip + 1, fee |-> 0]
    /\ UNCHANGED <<threadVars, waitVars, solQ, solOpen, receivers, verdict>>

(* Mempool fees reach the threshold that waitNext was given.               *)
FeesRise ==
    /\ core.fee < MaxFee
    /\ core' = [core EXCEPT !.fee = @ + 1]
    /\ UNCHANGED <<threadVars, waitVars, solQ, solOpen, receivers, verdict>>

MutAnswersNewTipOnly ==
    /\ ipc = "waiting"
    /\ answer = {}
    /\ core.tip # block.tip
    /\ answer' = {core}
    /\ UNCHANGED <<threadVars, handles, leaked, solQ, solOpen, receivers, core, verdict>>

(* Core answers the wait in progress with a handle on its block template,  *)
(* once that one has a new tip or, by the threshold the request sets,      *)
(* enough new fees.                                                        *)
WaitNextAnswered ==
    /\ ipc = "waiting"
    /\ answer = {}
    /\ core # block
    /\ answer' = {core}
    /\ UNCHANGED <<threadVars, handles, leaked, solQ, solOpen, receivers, core, verdict>>

(* A connection sends a solution on any template it was given.             *)
PushSolution(sol) ==
    /\ sol.tmpl \in published
    /\ solOpen
    /\ Len(solQ) < SolutionCapacity
    /\ solQ' = Append(solQ, sol)
    /\ UNCHANGED <<threadVars, waitVars, solOpen, receivers, core, verdict>>

DropReceivers ==
    /\ receivers
    /\ receivers' = FALSE
    /\ UNCHANGED <<threadVars, waitVars, solQ, solOpen, core, verdict>>

-----------------------------------------------------------------------------

(* The state in which start() returns: the first handle has been created,  *)
(* read and published.  A failure before that ends the process.            *)
Init ==
    /\ core = [tip |-> 0, fee |-> 0]
    /\ block = core
    /\ answer = {}
    /\ handles = {block}
    /\ leaked = {}
    /\ watch = [id |-> 0, block |-> block]
    /\ published = {watch}
    /\ template_id = 1
    /\ ipc = "looping"
    /\ solQ = <<>>
    /\ solOpen = TRUE
    /\ receivers = TRUE
    /\ verdict = [kind |-> "none", newest |-> FALSE, onTip |-> FALSE]

ThreadNext ==
    \/ EnterSelect
    \/ WaitNextSome \/ WaitNextNone \/ WaitNextError
    \/ FetchTemplate \/ FetchError \/ Shutdown
    \/ SubmitSolution \/ SubmitError

CoreNext == NewTip \/ FeesRise \/ WaitNextAnswered

PoolNext == DropReceivers \/ \E sol \in Solution : PushSolution(sol)

Next == ThreadNext \/ CoreNext \/ PoolNext

Spec == Init /\ [][Next]_vars

(* The thread runs.  Core answers a wait that is made again and again for  *)
(* a newer block template.  The branch of waitNext is taken if it is ready *)
(* and stays so: a solution that comes first takes its turn and its answer *)
(* away.  Errors are not assumed to happen.                                *)
Fairness ==
    /\ WF_vars(EnterSelect)
    /\ SF_vars(WaitNextAnswered)
    /\ WF_vars(WaitNextSome)
    /\ WF_vars(FetchTemplate \/ Shutdown)
    /\ WF_vars(SubmitSolution)

FairSpec == Spec /\ Fairness

-----------------------------------------------------------------------------
(* ---- Properties ---- *)

(* Every variable has the shape the code gives it, and the queue never     *)
(* exceeds its capacity.                                                   *)
TypeOK ==
    /\ ipc \in {"looping", "waiting", "fetching", "stopped"}
    /\ block \in Block
    /\ template_id \in 1 .. MaxTemplates + 1
    /\ watch \in Template
    /\ published \in SUBSET Template
    /\ solQ \in Seq(Solution) /\ Len(solQ) <= SolutionCapacity
    /\ solOpen \in BOOLEAN
    /\ receivers \in BOOLEAN
    /\ core \in Block
    /\ answer \in SUBSET Block
    /\ handles \in SUBSET Block
    /\ leaked \in SUBSET {"failed", "dropped"}
    /\ verdict \in Verdict

(* While the thread runs it works on a handle it has not destroyed.  Every *)
(* other handle it got it has asked Core to destroy, also when it has      *)
(* ended; the only ones it could not ask for came with an answer that a    *)
(* solution made it drop.                                                  *)
HandleLive ==
    /\ ipc # "stopped" => block \in handles
    /\ handles \subseteq {block}
    /\ "dropped" \in leaked => verdict.kind # "none"

(* Every block template of Core is published at most once and under a      *)
(* number of its own, so a template's number stands for its block.         *)
PublishedOnce ==
    \A s, t \in published : s.id = t.id \/ s.block = t.block => s = t

(* Core refuses a solution only if a newer template than the solution's    *)
(* had been published: whenever a solution is taken from the queue, the    *)
(* held handle is the newest published template.                           *)
RefusedOnlyIfSuperseded == verdict.kind = "refused" => ~verdict.newest

(* A block template of Core gets published, unless Core moves on or the    *)
(* thread ends, if solutions do not keep coming: a wait that a solution    *)
(* cancelled or that timed out is made again, and an answer that was       *)
(* dropped is given again.                                                 *)
TemplateFollowsCore ==
    <>[](solQ = <<>>) =>
        \A b \in Block :
            core = b ~> core # b \/ watch.block = b \/ ipc = "stopped" \/ ~receivers

(* A full solution queue gets room again: no connection waits for ever.    *)
QueueMoves == Len(solQ) = SolutionCapacity ~> Len(solQ) < SolutionCapacity

-----------------------------------------------------------------------------
(* ---- What the repository says, and the code does not do ---- *)

(* node_ipc.rs:44: start() returns a receiver "updated on every new        *)
(* template", as long as the thread runs and somebody holds the receiver.  *)
UpdatedWhileRunning ==
    \A b \in Block :
        core = b ~> core # b \/ watch.block = b \/ ~receivers \/ ipc = "stopped"
=============================================================================
