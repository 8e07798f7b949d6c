---------------------------- MODULE NodeIpcProofs ----------------------------
(***************************************************************************)
(* Proofs about NodeIpc, for every chain length, number of fee levels and  *)
(* queue capacity.                                                         *)
(***************************************************************************)
EXTENDS NodeIpc, TLAPS

(* Core's block templates only ever move forward.                          *)
Older(a, b) == a.tip < b.tip \/ (a.tip = b.tip /\ a.fee < b.fee)

(* The held block is Core's present one or an older one, and Core's answer *)
(* to a wait lies between the two; what has been published is not newer    *)
(* than the held block, and strictly older while that one is being         *)
(* fetched; on the way to select! and in it the newest one published is    *)
(* held.                                                                   *)
Progression ==
    /\ block = core \/ Older(block, core)
    /\ \A b \in answer : Older(block, b) /\ (b = core \/ Older(b, core))
    /\ answer # {} => ipc = "waiting"
    /\ watch \in published
    /\ \A t \in published : t.id < template_id
    /\ \A t \in published : t.block = block \/ Older(t.block, block)
    /\ ipc = "fetching" => template_id <= MaxTemplates
    /\ ipc = "fetching" => \A t \in published : Older(t.block, block)
    /\ ipc \in {"looping", "waiting"} => watch.block = block

(* The inductive invariant: the properties, and why they hold.             *)
IndInv ==
    /\ TypeOK
    /\ HandleLive
    /\ PublishedOnce
    /\ RefusedOnlyIfSuperseded
    /\ Progression

-----------------------------------------------------------------------------

(* Older is a strict order on block templates.                             *)
LEMMA OlderTransitive ==
    ASSUME NEW a \in Block, NEW b \in Block, NEW c \in Block,
           a = b \/ Older(a, b), Older(b, c)
    PROVE  Older(a, c) /\ a # c
  BY NodeAssumption DEF Older, Block

(* A queue within its capacity stays so when its head is taken.            *)
LEMMA TailOfQueue ==
    ASSUME NEW q \in Seq(Solution), q # <<>>, Len(q) <= SolutionCapacity
    PROVE  Tail(q) \in Seq(Solution) /\ Len(Tail(q)) <= SolutionCapacity
           /\ Head(q) \in Solution
  BY NodeAssumption

(* Core's answers are verdicts.                                            *)
LEMMA JudgedType ==
    ASSUME NEW kind \in {"none", "accepted", "refused", "error"}, NEW sol
    PROVE  Judged(kind, sol) \in Verdict
  <1>1. (sol.tmpl = watch) \in BOOLEAN /\ (sol.tmpl.block.tip = core.tip) \in BOOLEAN
    OBVIOUS
  <1> QED
    BY <1>1, Zenon DEF Judged, Verdict

(* The empty queue is within every bound.                                  *)
LEMMA EmptyQueue == <<>> \in Seq(Solution) /\ Len(<<>>) <= SolutionCapacity
  BY NodeAssumption

(* The invariant holds when start() returns.                               *)
LEMMA InitIndInv == Init => IndInv
  <1> SUFFICES ASSUME Init PROVE IndInv
    OBVIOUS
  <1>1. core \in Block
    BY NodeAssumption DEF Init, Block
  <1>2. watch \in Template
    BY <1>1, NodeAssumption DEF Init, Template
  <1>3. TypeOK
    BY <1>1, <1>2, NodeAssumption DEF Init, TypeOK, Verdict
  <1>4. HandleLive /\ PublishedOnce /\ RefusedOnlyIfSuperseded
    BY DEF Init, HandleLive, PublishedOnce, RefusedOnlyIfSuperseded
  <1>5. Progression
    BY DEF Init, Progression
  <1> QED
    BY <1>3, <1>4, <1>5 DEF IndInv

(* The steps of the thread and of Core, one by one.                        *)
LEMMA StepIndInv == IndInv /\ [Next]_vars => IndInv'
  <1> SUFFICES ASSUME IndInv, [Next]_vars PROVE IndInv'
    OBVIOUS
  <1> USE DEF IndInv
  <1>1. CASE WaitNextSome
    <2>1. PICK new_block \in answer :
            /\ handles' = (handles \ {block}) \cup {new_block}
            /\ block' = new_block
      BY <1>1 DEF WaitNextSome
    <2>2. /\ ipc = "waiting" /\ ipc' = "fetching" /\ template_id <= MaxTemplates
          /\ leaked' \in {leaked, leaked \cup {"failed"}} /\ answer' = {}
          /\ UNCHANGED <<template_id, watch, published, solQ, solOpen, receivers, core, verdict>>
      BY <1>1 DEF WaitNextSome, Destroyed
    <2>3. /\ new_block \in Block /\ Older(block, new_block)
          /\ new_block = core \/ Older(new_block, core)
      BY <2>1 DEF TypeOK, Progression
    <2>4. TypeOK'
      BY <2>1, <2>2, <2>3 DEF TypeOK
    <2>5. HandleLive'
      BY <2>1, <2>2 DEF HandleLive
    <2>6. PublishedOnce' /\ RefusedOnlyIfSuperseded'
      BY <2>2 DEF PublishedOnce, RefusedOnlyIfSuperseded
    <2>7. \A t \in published : Older(t.block, new_block)
      <3> TAKE t \in published
      <3>1. t.block \in Block
        BY DEF TypeOK, Template
      <3> QED
        BY <2>3, <3>1, OlderTransitive DEF TypeOK, Progression
    <2>8. Progression'
      BY <2>1, <2>2, <2>3, <2>7 DEF Progression, Older
    <2> QED
      BY <2>4, <2>5, <2>6, <2>8
  <1>2. CASE FetchTemplate
    <2> DEFINE raw == [id |-> template_id, block |-> block]
    <2>1. raw \in Template
      BY <1>2 DEF FetchTemplate, TypeOK, Progression, Template
    <2>2. TypeOK'
      BY <1>2, <2>1, NodeAssumption DEF FetchTemplate, waitVars, TypeOK, Progression
    <2>3. HandleLive' /\ RefusedOnlyIfSuperseded'
      BY <1>2 DEF FetchTemplate, waitVars, HandleLive, RefusedOnlyIfSuperseded
    <2>4. \A t \in published : t.id # raw.id /\ t.block # raw.block
      <3> TAKE t \in published
      <3>1. t \in Template /\ t.id < template_id
        BY DEF TypeOK, Progression
      <3>2. Older(t.block, block)
        BY <1>2 DEF FetchTemplate, Progression
      <3>3. t.block # block
        BY <3>1, <3>2, NodeAssumption DEF Older, Template, Block, TypeOK
      <3> QED
        BY <3>1, <3>3 DEF Template, TypeOK
    <2>5. PublishedOnce'
      BY <1>2, <2>4 DEF FetchTemplate, PublishedOnce
    <2>6. Progression'
      <3>1. \A t \in published' : t.id < template_id'
        BY <1>2, NodeAssumption DEF FetchTemplate, Progression, TypeOK, Template
      <3> QED
        BY <1>2, <3>1 DEF FetchTemplate, waitVars, Progression, Older
    <2> QED
      BY <2>2, <2>3, <2>5, <2>6
  <1>3. CASE WaitNextError \/ FetchError
    <2>1. answer = {}
      BY <1>3 DEF WaitNextError, FetchError, Progression
    <2>2. /\ ipc' = "stopped" /\ solOpen' = FALSE /\ solQ' = <<>>
          /\ UNCHANGED <<block, template_id, watch, published, answer, handles, leaked,
                         receivers, core, verdict>>
      BY <1>3 DEF WaitNextError, FetchError, ThreadEnds, waitVars
    <2>3. TypeOK'
      BY <2>2, EmptyQueue, Zenon DEF TypeOK
    <2> QED
      BY <2>1, <2>2, <2>3 DEF HandleLive, PublishedOnce, RefusedOnlyIfSuperseded,
                              Progression, Older
  <1>4. CASE Shutdown
    <2>1. template_id' \in 1 .. MaxTemplates + 1
      BY <1>4, NodeAssumption DEF Shutdown, TypeOK, Progression
    <2>2. /\ ipc = "fetching" /\ ipc' = "stopped" /\ solOpen' = FALSE /\ solQ' = <<>>
          /\ template_id' = template_id + 1 /\ handles' = handles \ {block}
          /\ leaked' \in {leaked, leaked \cup {"failed"}}
          /\ UNCHANGED <<block, watch, published, answer, receivers, core, verdict>>
      BY <1>4 DEF Shutdown, ThreadEnds, Destroyed
    <2>3. handles' \in SUBSET Block /\ leaked' \in SUBSET {"failed", "dropped"}
      BY <2>2 DEF TypeOK
    <2>4. TypeOK'
      BY <2>1, <2>2, <2>3, EmptyQueue, Zenon DEF TypeOK
    <2>5. \A t \in published : t.id < template_id'
      BY <2>2, NodeAssumption DEF Progression, TypeOK, Template
    <2>6. Progression'
      BY <2>2, <2>5 DEF Progression, Older
    <2> QED
      BY <2>2, <2>4, <2>6 DEF HandleLive, PublishedOnce, RefusedOnlyIfSuperseded
  <1>5. CASE SubmitSolution
    <2> DEFINE sol == Head(solQ)
    <2>1. Tail(solQ) \in Seq(Solution) /\ Len(Tail(solQ)) <= SolutionCapacity
      BY <1>5, TailOfQueue DEF SubmitSolution, TypeOK
    <2>2. core' \in Block /\ (core' = core \/ Older(core, core'))
      BY <1>5, NodeAssumption, SMTT(30) DEF SubmitSolution, TypeOK, Block, Older
    <2>3. verdict' \in Verdict /\ verdict'.kind # "none"
      <3>1. verdict' = Judged("accepted", sol) \/ verdict' = Judged("refused", sol)
        BY <1>5 DEF SubmitSolution
      <3>2. verdict' \in Verdict
        BY <3>1, JudgedType, Zenon
      <3> QED
        BY <3>1, <3>2 DEF Judged
    <2>4. /\ ipc \in {"looping", "waiting"} /\ ipc' = "looping" /\ answer' = {}
          /\ leaked' \in {leaked, leaked \cup {"dropped"}} /\ solQ' = Tail(solQ)
          /\ UNCHANGED <<block, template_id, watch, published, handles, solOpen, receivers>>
      BY <1>5 DEF SubmitSolution, WaitDropped
    <2>5. TypeOK'
      BY <2>1, <2>2, <2>3, <2>4 DEF TypeOK
    <2>6. RefusedOnlyIfSuperseded'
      <3> SUFFICES ASSUME verdict'.kind = "refused" PROVE ~verdict'.newest
        BY DEF RefusedOnlyIfSuperseded
      <3>1. verdict' = Judged("refused", sol) /\ sol.tmpl.block # block
        BY <1>5 DEF SubmitSolution, Judged
      <3>2. watch.block = block
        BY <2>4 DEF Progression
      <3> QED
        BY <3>1, <3>2 DEF Judged
    <2>7. block' = core' \/ Older(block', core')
      <3>1. block' = block /\ block \in Block /\ core \in Block
        BY <2>4 DEF TypeOK
      <3> QED
        BY <2>2, <3>1, OlderTransitive DEF Progression
    <2>8. Progression'
      BY <2>4, <2>7 DEF Progression, Older
    <2> QED
      BY <2>3, <2>4, <2>5, <2>6, <2>8 DEF HandleLive, PublishedOnce
  <1>6. CASE SubmitError
    <2>1. /\ ipc \in {"looping", "waiting"} /\ ipc' = "looping" /\ answer' = {}
          /\ leaked' \in {leaked, leaked \cup {"dropped"}} /\ solQ # <<>> /\ solQ' = Tail(solQ)
          /\ verdict' = Judged("error", Head(solQ))
          /\ UNCHANGED <<block, template_id, watch, published, handles, solOpen, receivers, core>>
      BY <1>6 DEF SubmitError, WaitDropped
    <2>2. verdict' \in Verdict /\ verdict'.kind = "error"
      BY <2>1, JudgedType DEF Judged
    <2>3. TypeOK'
      BY <2>1, <2>2, TailOfQueue DEF TypeOK
    <2> QED
      BY <2>1, <2>2, <2>3 DEF HandleLive, PublishedOnce, RefusedOnlyIfSuperseded,
                              Progression, Older
  <1>7. CASE NewTip \/ FeesRise
    <2>1. core' \in Block /\ Older(core, core')
      BY <1>7, NodeAssumption, SMTT(30) DEF NewTip, FeesRise, TypeOK, Block, Older
    <2>2. /\ UNCHANGED <<ipc, block, template_id, watch, published, answer, handles, leaked>>
          /\ UNCHANGED <<solQ, solOpen, receivers, verdict>>
      BY <1>7 DEF NewTip, FeesRise, threadVars, waitVars
    <2>3. TypeOK'
      BY <2>1, <2>2 DEF TypeOK
    <2>4. Older(block, core') /\ \A b \in answer : Older(b, core')
      BY <2>1, OlderTransitive DEF TypeOK, Progression
    <2>5. Progression'
      BY <2>2, <2>4 DEF Progression, Older
    <2> QED
      BY <2>2, <2>3, <2>5 DEF HandleLive, PublishedOnce, RefusedOnlyIfSuperseded
  <1>8. CASE WaitNextAnswered
    <2>1. /\ ipc = "waiting" /\ core # block /\ answer' = {core}
          /\ UNCHANGED <<ipc, block, template_id, watch, published, handles, leaked>>
          /\ UNCHANGED <<solQ, solOpen, receivers, core, verdict>>
      BY <1>8 DEF WaitNextAnswered, threadVars
    <2>2. TypeOK'
      BY <2>1 DEF TypeOK
    <2>3. Older(block, core)
      BY <2>1 DEF Progression
    <2>4. Progression'
      BY <2>1, <2>3 DEF Progression, Older
    <2> QED
      BY <2>1, <2>2, <2>4 DEF HandleLive, PublishedOnce, RefusedOnlyIfSuperseded
  <1>9. CASE EnterSelect \/ WaitNextNone
    <2>1. /\ ipc \in {"looping", "waiting"} /\ ipc' \in {"looping", "waiting"}
          /\ answer = {}
          /\ UNCHANGED <<block, template_id, watch, published, answer, handles, leaked>>
          /\ UNCHANGED <<solQ, solOpen, receivers, core, verdict>>
      BY <1>9 DEF EnterSelect, WaitNextNone, waitVars, Progression
    <2>2. TypeOK'
      BY <2>1 DEF TypeOK
    <2> QED
      BY <2>1, <2>2 DEF HandleLive, PublishedOnce, RefusedOnlyIfSuperseded, Progression, Older
  <1>10. CASE \E sol \in Solution : PushSolution(sol)
    <2>1. TypeOK'
      BY <1>10, NodeAssumption DEF PushSolution, TypeOK, threadVars, waitVars
    <2> QED
      BY <1>10, <2>1 DEF PushSolution, threadVars, waitVars, HandleLive, PublishedOnce,
                         RefusedOnlyIfSuperseded, Progression, Older
  <1>11. CASE DropReceivers
    BY <1>11 DEF DropReceivers, threadVars, waitVars, TypeOK, HandleLive, PublishedOnce,
                 RefusedOnlyIfSuperseded, Progression, Older
  <1>12. CASE UNCHANGED vars
    BY <1>12 DEF vars, threadVars, waitVars, TypeOK, HandleLive, PublishedOnce,
                 RefusedOnlyIfSuperseded, Progression, Older
  <1> QED
    BY <1>1, <1>2, <1>3, <1>4, <1>5, <1>6, <1>7, <1>8, <1>9, <1>10, <1>11, <1>12
       DEF Next, ThreadNext, CoreNext, PoolNext

(* The inductive invariant holds throughout.                               *)
THEOREM Invariance == Spec => []IndInv
  BY InitIndInv, StepIndInv, PTL DEF Spec

(* The thread's state keeps its type and the solution queue its bound.     *)
THEOREM TypeCorrect == Spec => []TypeOK
  BY Invariance, PTL DEF IndInv

(* The IPC thread never works on a handle it has asked Core to destroy,    *)
(* asks for every handle it replaces, also if a destroy fails and when it  *)
(* has ended, and leaves one unasked only where a solution cancelled the   *)
(* wait that brought it.                                                   *)
THEOREM HandleSafe == Spec => []HandleLive
  BY Invariance, PTL DEF IndInv

(* A template's number identifies the block of Core it stands for.         *)
THEOREM TemplatesNumbered == Spec => []PublishedOnce
  BY Invariance, PTL DEF IndInv

(* Core refuses only solutions on templates that have been superseded.     *)
THEOREM RefusalsExplained == Spec => []RefusedOnlyIfSuperseded
  BY Invariance, PTL DEF IndInv
=============================================================================
