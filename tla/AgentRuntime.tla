---------------------------- MODULE AgentRuntime ----------------------------
(***************************************************************************)
(* The REST adapter (app/api.py): the process, its bounded pool of worker  *)
(* threads, the service that lru_cache keeps, and the three endpoints.     *)
(*                                                                         *)
(* Nothing in _service() is single-flight: requests that find the cache    *)
(* empty build a service each, with a repository of its own.  All these    *)
(* repositories together are one AgentRunState whose runs are pairs        *)
(* <<service, run>>, so what holds of AgentRunState holds of each of them. *)
(* A service is named after the request that built it.                     *)
(***************************************************************************)
EXTENDS AgentRunState, FiniteSets

CONSTANTS
  RunIds,        \* values of agentRunId in a request
  Probes,        \* GET /ready
  HealthChecks,  \* GET /health
  Environments,  \* what the environment variables can be
  Workers,       \* size of the server's thread pool
  MaxRestarts    \* bound on restarts of the process

Services == Calls \cup Probes
Handlers == Services \cup HealthChecks

ASSUME RuntimeAssumption ==
  /\ Runs = Services \X RunIds
  /\ None \notin Handlers
  /\ Calls \cap Probes = {} /\ Services \cap HealthChecks = {}
  /\ Workers \in Nat \ {0} /\ MaxRestarts \in Nat

VARIABLES
  handler,  \* each request's handler
  cached,   \* what lru_cache holds
  process,  \* which start of the process is alive
  environment

runtimeVars == <<vars, handler, cached, process, environment>>

Live(t) == handler[t].life = process

At(t, stage) == Live(t) /\ handler[t].stage = stage

Stages == {"absent", "queued", "called", "building", "serving",
           "ready", "not_ready", "answered", "failed"}

\* life: the process the request reached.  gated: it came after that process
\* had answered "ready".
Handler ==
  [stage : Stages, life : Nat, service : Services \cup {None}, gated : BOOLEAN]

(***************************************************************************)
(* Settings.from_env() and validate() take an environment.  floating is    *)
(* one of latest, default, auto; invalid a log level or a port that is     *)
(* none.  Whether the paths exist is left to BuildFails.                   *)
(***************************************************************************)
HasDefault == {"APP_ENV", "LOG_LEVEL", "HOST", "PORT"}

Accepted(e) ==
  /\ \A name \in DOMAIN e :
       /\ e[name] \notin {"empty", "floating"}
       /\ e[name] = "unset" => name \in HasDefault
  /\ e["LOG_LEVEL"] # "invalid" /\ e["PORT"] # "invalid"

\* A delivery is handled by the service its request found or built, and no
\* service of the process was built from settings it rejects.
RuntimeTypeOK ==
  /\ TypeOK
  /\ handler \in [Handlers -> Handler]
  /\ cached \in Services \cup {None}
  /\ process \in Nat
  /\ environment \in Environments
  /\ \A t \in Handlers : Live(t) /\ handler[t].service # None => Accepted(environment)
  /\ \A c \in Calls : pc[c] # "idle" =>
       /\ handler[c].stage = "serving"
       /\ request[c].agentRunId[1] = handler[c].service

RuntimeInit ==
  /\ Init
  /\ handler = [t \in Handlers |->
                  [stage |-> "absent", life |-> 0, service |-> None, gated |-> FALSE]]
  /\ cached = None
  /\ process = 1
  /\ environment \in Environments

-----------------------------------------------------------------------------
(***************************************************************************)
(* Requests and workers.                                                   *)
(***************************************************************************)
Goto(t, stage) == handler' = [handler EXCEPT ![t].stage = stage]

Serves(t, service) ==
  handler' = [handler EXCEPT ![t].stage = "serving", ![t].service = service]

Answered(t) ==
  \/ handler[t].stage \in {"ready", "not_ready", "answered", "failed"}
  \/ t \in Calls /\ pc[t] \in Terminal

\* Mutant: a run that raises keeps its worker.
HoldsRaised(t) ==
  /\ Live(t) /\ handler[t].stage \in {"called", "building", "serving"}
  /\ ~ (t \in Calls /\ pc[t] = "returned")

\* Handlers are sync: each occupies a worker until it has answered.
Holds(t) ==
  Live(t) /\ handler[t].stage \in {"called", "building", "serving"} /\ ~ Answered(t)

Arrive(t) ==
  /\ handler[t].stage = "absent"
  /\ handler' = [handler EXCEPT ![t] =
       [stage |-> "queued", life |-> process, service |-> None,
        gated |-> \E p \in Probes : At(p, "ready")]]
  /\ UNCHANGED <<vars, cached, process, environment>>

Take(t) ==
  /\ At(t, "queued")
  /\ Cardinality({u \in Handlers : Holds(u)}) < Workers
  /\ Goto(t, "called")
  /\ UNCHANGED <<vars, cached, process, environment>>

-----------------------------------------------------------------------------
(***************************************************************************)
(* _service() under lru_cache(maxsize=1).                                  *)
(***************************************************************************)
CacheHit(t) ==
  /\ At(t, "called")
  /\ cached # None
  /\ Serves(t, cached)
  /\ UNCHANGED <<vars, cached, process, environment>>

\* Mutant: lru_cache is forgotten.
CacheMissAlways(t) ==
  /\ At(t, "called")
  /\ Goto(t, "building")
  /\ UNCHANGED <<vars, cached, process, environment>>

\* lru_cache calls _service() without a lock.
CacheMiss(t) ==
  /\ At(t, "called")
  /\ cached = None
  /\ Goto(t, "building")
  /\ UNCHANGED <<vars, cached, process, environment>>

\* Mutant: a build that fails is cached.
BuildFailsCached(t) ==
  /\ At(t, "building")
  /\ Goto(t, "failed")
  /\ cached' = "failed"
  /\ UNCHANGED <<vars, process, environment>>

\* A setting is rejected, a file or directory is not there, or _load_schemas()
\* raises: 503 from /ready, 500 from a run.  lru_cache keeps no exceptions.
BuildFails(t) ==
  /\ At(t, "building")
  /\ Goto(t, "failed")
  /\ UNCHANGED <<vars, cached, process, environment>>

\* Whoever built a service uses it, but lru_cache keeps the first.
BuildSucceeds(t) ==
  /\ At(t, "building")
  /\ Accepted(environment)
  /\ Serves(t, t)
  /\ cached' = IF cached = None THEN t ELSE cached
  /\ UNCHANGED <<vars, process, environment>>

-----------------------------------------------------------------------------
(***************************************************************************)
(* The endpoints.                                                          *)
(***************************************************************************)
AnswerHealth(h) ==
  /\ At(h, "called")
  /\ Goto(h, "answered")
  /\ UNCHANGED <<vars, cached, process, environment>>

\* readiness() is ModelPipeline's; here it succeeds or fails.
AnswerReady(p) ==
  /\ At(p, "serving")
  /\ \E answer \in {"ready", "not_ready"} : Goto(p, answer)
  /\ UNCHANGED <<vars, cached, process, environment>>

\* run() of the service that this request found or built.
Run(c) ==
  /\ At(c, "serving")
  /\ \/ Receive(c) /\ request'[c].agentRunId[1] = handler[c].service
     \/ Step(c)
  /\ UNCHANGED <<handler, cached, process, environment>>

\* What a handler does on its own, from the queue to its answer.
Handle(t) ==
  \/ Take(t)
  \/ t \in HealthChecks /\ AnswerHealth(t)
  \/ t \in Services /\ (CacheHit(t) \/ CacheMiss(t) \/ BuildFails(t) \/ BuildSucceeds(t))
  \/ t \in Probes /\ AnswerReady(t)
  \/ t \in Calls /\ Run(t)

\* Mutant: the repository outlives its process.
RestartPersistent ==
  /\ process <= MaxRestarts
  /\ process' = process + 1
  /\ UNCHANGED <<vars, handler, cached, environment>>

\* The process dies with its threads, its repositories and its cache, and is
\* started again, with other settings perhaps.  Threads of a dead process stay where they were.
Restart ==
  /\ process <= MaxRestarts
  /\ process' = process + 1
  /\ cached' = None
  /\ environment' \in Environments
  /\ UNCHANGED <<vars, handler>>

RuntimeTerminating ==
  /\ \A t \in Handlers : handler[t].stage # "absent" /\ (Live(t) => Answered(t))
  /\ UNCHANGED runtimeVars

RuntimeNext ==
  \/ \E t \in Handlers : Arrive(t) \/ Handle(t)
  \/ Restart
  \/ RuntimeTerminating

RuntimeSpec == RuntimeInit /\ [][RuntimeNext]_runtimeVars

\* Threads are scheduled, and a free worker is given to a queued request.
\* Nothing obliges requests to come or the process to die.
FairRuntimeSpec == RuntimeSpec /\ \A t \in Handlers : WF_runtimeVars(Handle(t))

-----------------------------------------------------------------------------
\* The run a live delivery asks for is in progress only while a live handler with
\* a worker executes it: nothing that a dead process began, a losing service of
\* the cold start holds or a failed execution left is in the way of a delivery.
LiveRunsAreExecuted ==
  \A c \in Calls :
    /\ Live(c) /\ request[c] # None
    /\ Entry(c) # None /\ Entry(c).status = "IN_PROGRESS"
    => \E d \in Calls :
         /\ Holds(d) /\ pc[d] \in Executing /\ SameRun(c, d)
         /\ attempt_id[d] = Entry(c).attempt_id

SameDelivery(c, d) ==
  /\ handler[c].life = handler[d].life
  /\ request[c].agentRunId[2] = request[d].agentRunId[2]

BothCompleted(c, d) ==
  /\ pc[c] = "returned" /\ result[c].resultStatus = "COMPLETED"
  /\ pc[d] = "returned" /\ result[d].resultStatus = "COMPLETED"

\* Once a process has answered "ready", deliveries of a run that reach it and
\* complete are answered with one Result: whatever was built in the cold start
\* and whoever won the cache, from then on there is one repository.
GatedRunsAgree ==
  \A c, d \in Calls :
    handler[c].gated /\ handler[d].gated /\ BothCompleted(c, d) /\ SameDelivery(c, d)
    => result[c] = result[d]

\* The workers of the process are never all asleep: duplicates that wait for an
\* execution hold workers, but that execution holds one too, so the pool cannot
\* be exhausted by waiting alone, however small it is.
PoolNeverAllAsleep ==
  (\E t \in Handlers : Holds(t)) =>
    \E t \in Handlers : Holds(t) /\ ~ (t \in Calls /\ pc[t] = "asleep")

\* Every request that reaches a process, health checks behind waiting duplicates
\* and redeliveries after a restart included, is answered unless that process dies.
EveryRequestAnswered ==
  \A t \in Handlers : At(t, "queued") ~> (Answered(t) \/ ~ Live(t))

=============================================================================
