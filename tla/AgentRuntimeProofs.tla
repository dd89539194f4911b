------------------------- MODULE AgentRuntimeProofs -------------------------
(***************************************************************************)
(* Proofs about AgentRuntime, for any number of requests, runs, workers    *)
(* and restarts: the process implements AgentRunState, and what is proved  *)
(* of that module, together with what lru_cache and the life of a process  *)
(* say of who is served by whom, gives the properties of the process.      *)
(***************************************************************************)
EXTENDS AgentRuntime, AgentRunStateRefinement

-----------------------------------------------------------------------------
(***************************************************************************)
(* Refinement.                                                             *)
(***************************************************************************)

\* A step of the process is a step of the repositories and their threads, or
\* leaves them alone.
LEMMA RuntimeStepIsStep == [RuntimeNext]_runtimeVars => [Next]_vars
<1> SUFFICES ASSUME [RuntimeNext]_runtimeVars
             PROVE  [Next]_vars
  OBVIOUS
<1>1. ASSUME NEW t \in Handlers, Arrive(t)
      PROVE  UNCHANGED vars
  BY <1>1 DEF Arrive
<1>2. ASSUME NEW t \in Handlers, Handle(t)
      PROVE  Next \/ UNCHANGED vars
  <2>1. CASE Take(t)
    BY <2>1 DEF Take
  <2>2. CASE AnswerHealth(t)
    BY <2>2 DEF AnswerHealth
  <2>3. CASE CacheHit(t) \/ CacheMiss(t) \/ BuildFails(t) \/ BuildSucceeds(t)
    BY <2>3 DEF CacheHit, CacheMiss, BuildFails, BuildSucceeds
  <2>4. CASE AnswerReady(t)
    BY <2>4 DEF AnswerReady
  <2>5. CASE t \in Calls /\ Run(t)
    BY <2>5 DEF Run, Next
  <2> QED BY <1>2, <2>1, <2>2, <2>3, <2>4, <2>5 DEF Handle
<1>3. CASE Restart
  BY <1>3 DEF Restart
<1>4. CASE RuntimeTerminating \/ UNCHANGED runtimeVars
  BY <1>4 DEF RuntimeTerminating, runtimeVars
<1> QED BY <1>1, <1>2, <1>3, <1>4 DEF RuntimeNext

\* By construction, every behaviour of the process is one of its repositories.
LEMMA RuntimeIsRunState == RuntimeSpec => Spec
<1>1. RuntimeInit => Init
  BY DEF RuntimeInit
<1> QED BY <1>1, RuntimeStepIsStep, PTL DEF RuntimeSpec, Spec

-----------------------------------------------------------------------------
(***************************************************************************)
(* The inductive invariant.  Its parts say, of every reachable state:      *)
(***************************************************************************)

\* a request reached this process or an earlier one;
LifeOK == \A t \in Handlers : handler[t].life <= process

\* a request has a service from when it is served;
ServedStages == {"serving", "ready", "not_ready"}

StageOK ==
  \A t \in Handlers : handler[t].service # None <=> handler[t].stage \in ServedStages

\* who is served by a service lives in the process of the request that built
\* it, which uses it too;
BuilderOK ==
  \A t \in Handlers : handler[t].service # None =>
    LET s == handler[t].service
    IN handler[s].service = s /\ handler[s].life = handler[t].life

\* the cached service was built in this process, from settings it accepts, and
\* there is one as soon as anybody is served;
CachedOK ==
  /\ cached # None =>
       /\ handler[cached].service = cached
       /\ handler[cached].life = process
       /\ Accepted(environment)
  /\ \A t \in Handlers : Live(t) /\ handler[t].service # None => cached # None

\* after the process has answered "ready" nobody builds a service, and all who
\* come are served by the cached one.
GatedOK ==
  /\ \A t \in Handlers : Live(t) /\ handler[t].gated =>
       /\ cached # None
       /\ handler[t].stage # "building"
       /\ handler[t].service \in {None, cached}
  /\ \A t, u \in Handlers :
       /\ handler[t].gated /\ handler[u].gated
       /\ handler[t].life = handler[u].life
       /\ handler[t].service # None /\ handler[u].service # None
       => handler[t].service = handler[u].service

RuntimeCoherent == LifeOK /\ StageOK /\ BuilderOK /\ CachedOK /\ GatedOK

RuntimeInv == RuntimeTypeOK /\ RuntimeCoherent

-----------------------------------------------------------------------------
(***************************************************************************)
(* The invariant is kept: one lemma per kind of step.                      *)
(***************************************************************************)

\* A request without a service that goes on without one, or a probe that is
\* answered.
LEMMA MoveStep ==
  ASSUME RuntimeInv, NEW t \in Handlers, NEW stage \in Stages,
         t \in Calls => pc[t] = "idle",
         handler[t].stage \in ServedStages <=> stage \in ServedStages,
         stage = "building" => cached = None,
         handler' = [handler EXCEPT ![t].stage = stage],
         UNCHANGED <<vars, cached, process, environment>>
  PROVE  RuntimeInv'
<1> USE DEF RuntimeInv, RuntimeCoherent, RuntimeTypeOK
<1>1. \A u \in Handlers :
        /\ handler'[u] \in Handler
        /\ handler'[u].life = handler[u].life
        /\ handler'[u].service = handler[u].service
        /\ handler'[u].gated = handler[u].gated
        /\ handler'[u].stage = IF u = t THEN stage ELSE handler[u].stage
  BY DEF Handler
<1>2. handler' \in [Handlers -> Handler]
  BY <1>1
<1>3. Calls \subseteq Handlers /\ Services \subseteq Handlers
  BY DEF Handlers, Services
<1>4. RuntimeTypeOK'
  <2>1. TypeOK'
    BY DEF TypeOK, vars
  <2>2. \A u \in Handlers : Live(u)' /\ handler'[u].service # None => Accepted(environment)
    BY <1>1 DEF Live
  <2>3. \A c \in Calls : pc[c] # "idle" =>
          handler'[c].stage = "serving" /\ request[c].agentRunId[1] = handler'[c].service
    BY <1>1, <1>3
  <2> QED BY <1>2, <2>1, <2>2, <2>3 DEF vars, Accepted
<1>5. LifeOK' /\ StageOK'
  BY <1>1 DEF LifeOK, StageOK
<1>6. BuilderOK'
  BY <1>1, <1>3 DEF BuilderOK, Handler
<1>7. CachedOK'
  BY <1>1, <1>3 DEF CachedOK, Live, Accepted
<1>8. GatedOK'
  BY <1>1 DEF GatedOK, Live
<1> QED BY <1>4, <1>5, <1>6, <1>7, <1>8

\* A request that gets the service it found in the cache or has just built.
LEMMA ServeStep ==
  ASSUME RuntimeInv, NEW t \in Services, NEW s \in Services,
         Live(t), handler[t].stage \in {"called", "building"},
         s = t \/ s = cached, handler[t].stage = "called" => s = cached,
         Accepted(environment), Serves(t, s),
         cached' = IF cached = None THEN s ELSE cached,
         UNCHANGED <<vars, process, environment>>
  PROVE  RuntimeInv'
<1> USE RuntimeAssumption DEF RuntimeInv, RuntimeCoherent, RuntimeTypeOK
<1>1. \A u \in Handlers :
        /\ handler'[u] \in Handler
        /\ handler'[u].life = handler[u].life
        /\ handler'[u].service = IF u = t THEN s ELSE handler[u].service
        /\ handler'[u].gated = handler[u].gated
        /\ handler'[u].stage = IF u = t THEN "serving" ELSE handler[u].stage
  BY DEF Handler, Serves, Stages
<1>2. handler' \in [Handlers -> Handler]
  BY <1>1 DEF Serves
<1>3. Calls \subseteq Handlers /\ Services \subseteq Handlers /\ None \notin Services
  BY DEF Handlers, Services
<1>4. t \in Handlers /\ s # None /\ cached' \in Services /\ handler[t].service = None
  BY <1>3 DEF StageOK, ServedStages
<1>5. RuntimeTypeOK'
  <2>1. TypeOK'
    BY DEF TypeOK, vars
  <2>2. \A u \in Handlers : Live(u)' /\ handler'[u].service # None => Accepted(environment)
    BY DEF Live
  <2>3. \A c \in Calls : pc[c] # "idle" =>
          handler'[c].stage = "serving" /\ request[c].agentRunId[1] = handler'[c].service
    BY <1>1, <1>3
  <2> QED BY <1>2, <1>4, <2>1, <2>2, <2>3 DEF vars, Accepted
<1>6. LifeOK'
  BY <1>1 DEF LifeOK
<1>7. StageOK'
  BY <1>1, <1>4 DEF StageOK, ServedStages
<1>8. handler[s].life = process /\ handler'[s].service = s
  BY <1>1, <1>3, <1>4 DEF CachedOK, Live
<1>9. BuilderOK'
  <2> SUFFICES ASSUME NEW u \in Handlers, handler'[u].service # None
               PROVE  LET b == handler'[u].service
                      IN handler'[b].service = b /\ handler'[b].life = handler'[u].life
    BY DEF BuilderOK
  <2>1. CASE u = t
    BY <1>1, <1>3, <1>4, <1>8, <2>1 DEF Live
  <2>2. CASE u # t
    <3>1. handler[u].service # None /\ handler[u].service \in Services
      BY <1>1, <2>2 DEF Handler
    <3>2. handler[u].service # t
      BY <1>3, <1>4, <3>1 DEF BuilderOK
    <3> QED BY <1>1, <1>3, <2>2, <3>1, <3>2 DEF BuilderOK
  <2> QED BY <2>1, <2>2
<1>10. CachedOK'
  <2>1. cached = None => cached' = s
    OBVIOUS
  <2>2. cached # None =>
          /\ cached' = cached /\ cached \in Services /\ cached # t
          /\ handler[cached].service = cached /\ handler[cached].life = process
    BY <1>3, <1>4 DEF CachedOK
  <2>3. handler'[cached'].service = cached' /\ handler'[cached'].life = process
    BY <1>1, <1>3, <1>8, <2>1, <2>2
  <2> QED BY <1>3, <1>4, <2>3 DEF CachedOK, Accepted
<1>11. GatedOK'
  <2>1. handler[t].gated => s = cached /\ cached' = cached
    BY <1>3, <1>4 DEF GatedOK
  <2>2. \A u \in Handlers : Live(u) /\ handler[u].gated => cached # None /\ cached' = cached
    BY DEF GatedOK
  <2>3. \A u \in Handlers : Live(u)' /\ handler'[u].gated =>
          /\ cached' # None
          /\ handler'[u].stage # "building"
          /\ handler'[u].service \in {None, cached'}
    BY <1>1, <2>1, <2>2 DEF GatedOK, Live
  <2>4. \A u \in Handlers :
          /\ handler[t].gated /\ handler[u].gated /\ handler[t].life = handler[u].life
          /\ handler[u].service # None
          => handler[u].service = s
    BY <1>4, <2>1 DEF GatedOK, Live
  <2>5. \A u, v \in Handlers :
          /\ handler'[u].gated /\ handler'[v].gated
          /\ handler'[u].life = handler'[v].life
          /\ handler'[u].service # None /\ handler'[v].service # None
          => handler'[u].service = handler'[v].service
    BY <1>1, <1>4, <2>4 DEF GatedOK
  <2> QED BY <2>3, <2>5 DEF GatedOK
<1> QED BY <1>5, <1>6, <1>7, <1>9, <1>10, <1>11

\* A request that reaches the process.
LEMMA ArriveStep ==
  ASSUME RuntimeInv, NEW t \in Handlers, Arrive(t)
  PROVE  RuntimeInv'
<1> DEFINE gated == \E p \in Probes : At(p, "ready")
<1>0. /\ handler' = [handler EXCEPT ![t] =
           [stage |-> "queued", life |-> process, service |-> None, gated |-> gated]]
      /\ handler[t].stage = "absent" /\ gated \in BOOLEAN
      /\ UNCHANGED <<vars, cached, process, environment>>
  BY Zenon DEF Arrive
<1>10. gated => cached # None
  BY RuntimeAssumption DEF At, Live, StageOK, ServedStages, CachedOK, RuntimeInv,
     RuntimeCoherent, Handlers, Services
<1> HIDE DEF gated
<1> USE RuntimeAssumption DEF RuntimeInv, RuntimeCoherent, RuntimeTypeOK
<1>1. \A u \in Handlers :
        /\ handler'[u] = IF u = t
             THEN [stage |-> "queued", life |-> process, service |-> None, gated |-> gated]
             ELSE handler[u]
        /\ handler'[u] \in Handler
  BY <1>0 DEF Handler, Stages
<1>2. handler' \in [Handlers -> Handler]
  BY <1>0, <1>1
<1>3. Calls \subseteq Handlers /\ Services \subseteq Handlers /\ None \notin Services
  BY DEF Handlers, Services
<1>4. handler[t].service = None
  BY <1>0 DEF StageOK, ServedStages
<1>5. RuntimeTypeOK'
  <2>1. TypeOK'
    BY <1>0 DEF TypeOK, vars
  <2>2. \A u \in Handlers : Live(u)' /\ handler'[u].service # None => Accepted(environment)
    BY <1>0, <1>1 DEF Live
  <2>3. \A c \in Calls : pc[c] # "idle" =>
          handler'[c].stage = "serving" /\ request[c].agentRunId[1] = handler'[c].service
    BY <1>0, <1>1, <1>3
  <2> QED BY <1>0, <1>2, <2>1, <2>2, <2>3 DEF vars, Accepted
<1>6. LifeOK' /\ StageOK'
  BY <1>0, <1>1, <1>4 DEF LifeOK, StageOK, ServedStages
<1>7. \A u \in Handlers : handler[u].service # t
  BY <1>3, <1>4 DEF BuilderOK, Handler
<1>8. BuilderOK'
  BY <1>1, <1>3, <1>4, <1>7 DEF BuilderOK, Handler
<1>9. CachedOK'
  BY <1>0, <1>1, <1>3, <1>4, <1>7 DEF CachedOK, Live, Accepted
<1>11. GatedOK'
  BY <1>0, <1>1, <1>4, <1>10 DEF GatedOK, Live
<1> QED BY <1>5, <1>6, <1>8, <1>9, <1>11

\* The process dies and is started again.
LEMMA RestartStep ==
  ASSUME RuntimeInv, Restart
  PROVE  RuntimeInv'
<1> USE DEF RuntimeInv, RuntimeCoherent, RuntimeTypeOK, Restart
<1>1. \A t \in Handlers : ~ Live(t)'
  BY DEF LifeOK, Live, Handler
<1>2. RuntimeTypeOK'
  BY <1>1 DEF TypeOK, vars
<1>3. LifeOK' /\ StageOK' /\ BuilderOK'
  BY DEF LifeOK, StageOK, BuilderOK, Handler
<1>4. CachedOK' /\ GatedOK'
  BY <1>1 DEF CachedOK, GatedOK
<1> QED BY <1>2, <1>3, <1>4

\* A step of run(): it changes who has called which service only for a request
\* that had not called yet.
LEMMA RunStep ==
  ASSUME RuntimeInv, NEW c \in Calls, Run(c)
  PROVE  RuntimeInv'
<1> USE DEF RuntimeInv, RuntimeCoherent, RuntimeTypeOK
<1>1. UNCHANGED <<handler, cached, process, environment>> /\ handler[c].stage = "serving"
  BY DEF Run, At
<1>2. TypeOK'
  <2>1. [Next]_vars
    BY DEF Run, Next
  <2> QED BY <2>1, TypeStep
<1>3. \A d \in Calls : pc'[d] # "idle" =>
        handler'[d].stage = "serving" /\ request'[d].agentRunId[1] = handler'[d].service
  <2> SUFFICES ASSUME NEW d \in Calls, pc'[d] # "idle"
               PROVE  /\ handler[d].stage = "serving"
                      /\ request'[d].agentRunId[1] = handler[d].service
    BY <1>1
  <2>1. request'[d] # None
    BY <1>2 DEF TypeOK
  <2>2. CASE Receive(c) /\ request'[c].agentRunId[1] = handler[c].service
    <3>1. CASE d = c
      BY <1>1, <2>2, <3>1
    <3>2. CASE d # c
      BY <2>1, <2>2, <3>2 DEF Receive, TypeOK
    <3> QED BY <3>1, <3>2
  <2>3. CASE Step(c)
    <3>1. request' = request
      BY <2>3 DEF Step, Begin, Identify, RejectEarly, RaiseEarly, BeginFirst, BeginConflict,
                  BeginWait, BeginCached, BeginRetry, WaitPass, WaitSleep, ExecuteCompleted,
                  ExecuteFailed, ExecuteRaises, Complete, Abort
    <3> QED BY <2>1, <3>1 DEF TypeOK
  <2> QED BY <2>2, <2>3 DEF Run
<1>4. RuntimeTypeOK'
  <2>1. \A t \in Handlers : Live(t)' /\ handler'[t].service # None => Accepted(environment)'
    BY <1>1 DEF Live, Accepted
  <2> QED BY <1>1, <1>2, <1>3, <2>1
<1>5. LifeOK' /\ StageOK' /\ BuilderOK' /\ CachedOK' /\ GatedOK'
  BY <1>1 DEF LifeOK, StageOK, BuilderOK, CachedOK, GatedOK, Live, Accepted
<1> QED BY <1>4, <1>5

LEMMA RuntimeInvStep == RuntimeInv /\ [RuntimeNext]_runtimeVars => RuntimeInv'
<1> SUFFICES ASSUME RuntimeInv, [RuntimeNext]_runtimeVars
             PROVE  RuntimeInv'
  OBVIOUS
<1>1. ASSUME NEW t \in Handlers, Arrive(t)
      PROVE  RuntimeInv'
  BY <1>1, ArriveStep
<1>2. ASSUME NEW t \in Handlers, Handle(t)
      PROVE  RuntimeInv'
  <2> DEFINE called == t \in Calls => pc[t] = "idle"
  <2>1. CASE Take(t)
    <3>1. called /\ handler[t].stage = "queued"
      BY <2>1 DEF Take, At, RuntimeInv, RuntimeTypeOK
    <3> QED BY <2>1, <3>1, MoveStep DEF Take, Goto, Stages, ServedStages
  <2>2. CASE t \in HealthChecks /\ AnswerHealth(t)
    <3>1. t \notin Calls /\ handler[t].stage = "called"
      BY <2>2, RuntimeAssumption DEF AnswerHealth, At, Services
    <3> QED BY <2>2, <3>1, MoveStep DEF AnswerHealth, Goto, Stages, ServedStages
  <2>3. CASE t \in Probes /\ AnswerReady(t)
    <3>1. t \notin Calls /\ handler[t].stage = "serving"
      BY <2>3, RuntimeAssumption DEF AnswerReady, At
    <3>2. PICK answer \in {"ready", "not_ready"} : Goto(t, answer)
      BY <2>3 DEF AnswerReady
    <3>3. UNCHANGED <<vars, cached, process, environment>>
      BY <2>3 DEF AnswerReady
    <3> QED BY <3>1, <3>2, <3>3, MoveStep DEF Goto, Stages, ServedStages
  <2>4. CASE CacheMiss(t)
    <3>1. called /\ handler[t].stage = "called"
      BY <2>4 DEF CacheMiss, At, RuntimeInv, RuntimeTypeOK
    <3> QED BY <2>4, <3>1, MoveStep DEF CacheMiss, Goto, Stages, ServedStages
  <2>5. CASE BuildFails(t)
    <3>1. called /\ handler[t].stage = "building"
      BY <2>5 DEF BuildFails, At, RuntimeInv, RuntimeTypeOK
    <3> QED BY <2>5, <3>1, MoveStep DEF BuildFails, Goto, Stages, ServedStages
  <2>6. CASE t \in Services /\ CacheHit(t)
    <3>1. cached \in Services /\ cached # None /\ Accepted(environment)
      BY <2>6 DEF CacheHit, RuntimeInv, RuntimeCoherent, RuntimeTypeOK, CachedOK
    <3> QED BY <2>6, <3>1, ServeStep DEF CacheHit, At
  <2>7. CASE t \in Services /\ BuildSucceeds(t)
    BY <2>7, ServeStep DEF BuildSucceeds, At
  <2>8. CASE t \in Calls /\ Run(t)
    BY <2>8, RunStep
  <2> QED BY <1>2, <2>1, <2>2, <2>3, <2>4, <2>5, <2>6, <2>7, <2>8 DEF Handle
<1>3. CASE Restart
  BY <1>3, RestartStep
<1>4. CASE UNCHANGED runtimeVars
  BY <1>4 DEF runtimeVars, vars, RuntimeInv, RuntimeTypeOK, TypeOK, RuntimeCoherent, LifeOK,
     StageOK, BuilderOK, CachedOK, GatedOK, Live, Accepted
<1>5. CASE RuntimeTerminating
  BY <1>4, <1>5 DEF RuntimeTerminating
<1> QED BY <1>1, <1>2, <1>3, <1>4, <1>5 DEF RuntimeNext

LEMMA RuntimeInvariance == RuntimeSpec => []RuntimeInv
<1>1. RuntimeInit => RuntimeInv
  <2> SUFFICES ASSUME RuntimeInit PROVE RuntimeInv
    OBVIOUS
  <2>1. TypeOK /\ \A c \in Calls : pc[c] = "idle"
    BY NoneIsNoRecord DEF RuntimeInit, Init, TypeOK
  <2>2. /\ \A t \in Handlers :
             /\ handler[t].stage = "absent" /\ handler[t].life = 0
             /\ handler[t].service = None /\ ~ handler[t].gated
        /\ handler \in [Handlers -> Handler]
        /\ cached = None /\ process = 1 /\ environment \in Environments
    BY DEF RuntimeInit, Handler, Stages
  <2> QED BY <2>1, <2>2 DEF RuntimeInv, RuntimeTypeOK, RuntimeCoherent, LifeOK, StageOK,
             ServedStages, BuilderOK, CachedOK, GatedOK, Live
<1> QED BY <1>1, RuntimeInvStep, PTL DEF RuntimeSpec

-----------------------------------------------------------------------------
(***************************************************************************)
(* What follows.                                                           *)
(***************************************************************************)

\* Type correctness, the service of every running delivery and the settings
\* of every service included.
THEOREM RuntimeTypeCorrect == RuntimeSpec => []RuntimeTypeOK
<1>1. RuntimeInv => RuntimeTypeOK
  BY DEF RuntimeInv
<1> QED BY <1>1, RuntimeInvariance, PTL

\* Deliveries that reach a process after it has answered "ready" are answered
\* from one repository: those of a run that complete get one Result.
THEOREM GatedRunsAgreeHolds == RuntimeSpec => []GatedRunsAgree
<1>1. RuntimeInv /\ OneCompletedResult => GatedRunsAgree
  <2> SUFFICES ASSUME RuntimeInv, OneCompletedResult, NEW c \in Calls, NEW d \in Calls,
                      handler[c].gated, handler[d].gated,
                      BothCompleted(c, d), SameDelivery(c, d)
               PROVE  result[c] = result[d]
    BY DEF GatedRunsAgree
  <2> USE DEF RuntimeInv, RuntimeCoherent, RuntimeTypeOK, TypeOK
  <2>1. \A e \in {c, d} :
          /\ e \in Handlers /\ handler[e].service # None
          /\ request[e].agentRunId[1] = handler[e].service
          /\ request[e].agentRunId \in Services \X RunIds
    BY RuntimeAssumption
       DEF BothCompleted, StageOK, ServedStages, Handlers, Services, Request
  <2>2. handler[c].service = handler[d].service
    BY <2>1 DEF GatedOK, SameDelivery
  <2>3. request[c].agentRunId = request[d].agentRunId
    BY <2>1, <2>2 DEF SameDelivery
  <2> QED BY <2>3 DEF OneCompletedResult, BothCompleted, SameRun
<1>2. RuntimeSpec => []OneCompletedResult
  BY RuntimeIsRunState, OneCompletedResultHolds
<1> QED BY <1>1, <1>2, RuntimeInvariance, PTL

\* What is in progress for a live delivery is executed by a live handler that
\* holds a worker: what a dead process began, or a service that lost the cache
\* holds, is never what a delivery of this process and service waits for, if
\* the mounted result schema accepts every failed result.
THEOREM LiveRunsAreExecutedHolds ==
  ASSUME PipelineReasons \subseteq ContractReasons
  PROVE  RuntimeSpec => []LiveRunsAreExecuted
<1>1. RuntimeInv /\ IInv /\ Owned => LiveRunsAreExecuted
  <2> SUFFICES ASSUME RuntimeInv, IInv, Owned,
                      NEW c \in Calls, Live(c), request[c] # None,
                      Entry(c) # None, Entry(c).status = "IN_PROGRESS"
               PROVE  \E d \in Calls :
                        /\ Holds(d) /\ pc[d] \in Executing /\ SameRun(c, d)
                        /\ attempt_id[d] = Entry(c).attempt_id
    BY DEF LiveRunsAreExecuted
  <2> USE DEF RuntimeInv, RuntimeCoherent, RuntimeTypeOK
  <2>1. pc[c] # "idle" /\ request[c].agentRunId \in Runs
    BY DEF TypeOK, Request
  <2>2. PICK d \in Calls : pc[d] \in Executing /\ request[d].agentRunId = request[c].agentRunId
    BY <2>1 DEF Owned, Entry
  <2>3. request[d] # None /\ SameRun(c, d) /\ attempt_id[d] = Entry(c).attempt_id
    BY <2>2 DEF IInv, Coherent, OwnersOK, Owns, Matches, Entry, SameRun, TypeOK, Executing
  <2>4. /\ handler[c].service # None /\ handler[c].service = handler[d].service
        /\ c \in Handlers /\ d \in Handlers /\ handler[d].stage = "serving"
    BY <2>1, <2>2 DEF StageOK, ServedStages, Handlers, Services, Executing
  <2>5. handler[d].life = handler[c].life
    BY <2>4 DEF BuilderOK
  <2>6. Holds(d)
    BY <2>2, <2>4, <2>5 DEF Holds, Live, Answered, Executing, Terminal
  <2> QED BY <2>2, <2>3, <2>6
<1>2. RuntimeSpec => [](IInv /\ Owned)
  BY RuntimeIsRunState, OwnedHolds, Invariance, PTL
<1> QED BY <1>1, <1>2, RuntimeInvariance, PTL

\* The pool is never exhausted by waiting: whatever its size, when a worker is
\* asleep another one executes what it waits for, in the same process.
THEOREM PoolNeverAllAsleepHolds ==
  ASSUME PipelineReasons \subseteq ContractReasons
  PROVE  RuntimeSpec => []PoolNeverAllAsleep
<1>1. RuntimeInv /\ NoSleeperForgotten => PoolNeverAllAsleep
  <2> SUFFICES ASSUME RuntimeInv, NoSleeperForgotten,
                      NEW t \in Handlers, Holds(t), t \in Calls, pc[t] = "asleep"
               PROVE  \E u \in Handlers : Holds(u) /\ ~ (u \in Calls /\ pc[u] = "asleep")
    BY DEF PoolNeverAllAsleep
  <2> USE DEF RuntimeInv, RuntimeCoherent, RuntimeTypeOK
  <2>1. PICK d \in Calls : pc[d] \in Executing /\ SameRun(t, d)
    BY DEF NoSleeperForgotten
  <2>2. /\ handler[t].service # None /\ handler[t].service = handler[d].service
        /\ d \in Handlers /\ handler[d].stage = "serving"
    BY <2>1 DEF StageOK, ServedStages, SameRun, Handlers, Services, Executing
  <2>3. handler[d].life = handler[t].life
    BY <2>2 DEF BuilderOK
  <2>4. Holds(d) /\ pc[d] # "asleep"
    BY <2>1, <2>2, <2>3 DEF Holds, Live, Answered, Executing, Terminal
  <2> QED BY <2>2, <2>4
<1>2. RuntimeSpec => []NoSleeperForgotten
  BY RuntimeIsRunState, NoSleeperForgottenHolds
<1> QED BY <1>1, <1>2, RuntimeInvariance, PTL

\* No service of the process executes a run in two threads.
THEOREM RuntimeSingleFlight == RuntimeSpec => []SingleFlight
BY RuntimeIsRunState, SingleFlightHolds

\* Every service of every process gives its callers what IdempotentRun promises:
\* what a restart or a second service breaks is broken between services only.
THEOREM RuntimeKeepsPromise == RuntimeSpec => KeepsPromise
BY RuntimeIsRunState, Refinement

=============================================================================
