----------------------------- MODULE MCRuntime -----------------------------
(***************************************************************************)
(* The modules of what runs beside the requests: the end of the process,   *)
(* the scheduler, the heartbeats, the registry of skills, the spawning of  *)
(* cores, the queue and the event stream of the Butler, the router of the  *)
(* models, the edge, the watcher and the crons.  They share no state; a    *)
(* behavior is one of the module that `part' names, as in MCGateway.  The  *)
(* fairness of a module is that of its specification, while it is the one  *)
(* that runs.  The queue is that of the module RealtimeQueue, which this   *)
(* one extends.                                                            *)
(***************************************************************************)
EXTENDS RealtimeQueue

CONSTANTS
  None,                                                      \* nothing
  Connections, ChannelSize, MaxAccepted,                     \* of Shutdown
  Calls, SkillOf, DependsOn, ParTasks, Workers, PoolCap,     \* of Scheduler
  Cores, Other, BusCap, CheckEvery, MaxTime, MaxOther,       \* of Heartbeat
  SkillIds, Global, DegradedFailCount, MaxChecks, MaxRegistrations,     \* of Registry
  CoreIds, MaxSpawnDepth, MaxChildrenPerCore,                \* of SpawnDepth
  Senders, Limit, MaxEvents,                                 \* of SSEStream
  Requests, Modes, Backends, Sovereignty, HasKey, Tokens, ChanCap,      \* of LLMRouter
  Chats, CacheSize, MaxAnswers, MaxDowns,                    \* of Edge
  Files, MaxWrites,                                          \* of Watcher
  Jobs, Expr, Star, MinutesPerHour, HoursPerDay, MaxMinutes  \* of Cron

(* Counts are numbers, the cores that can be spawned are finitely many,    *)
(* the backends are listed, and what is not a pulse or not a minute does   *)
(* not look like one.                                                      *)
ASSUME RunAssumption ==
  /\ CheckEvery \in Nat \ {0} /\ DegradedFailCount \in Nat \ {0}
  /\ MaxSpawnDepth \in Nat /\ MaxChildrenPerCore \in Nat /\ IsFiniteSet(CoreIds)
  /\ CacheSize \in Nat
  /\ Len(Backends) \in Nat /\ DOMAIN Backends = 1..Len(Backends)
  /\ Other \notin Cores /\ None \notin Nat

VARIABLES
  part,
  server, main, signal, running, accepted, timedOut, closer, ledgerPending, draining, exit,
  queue, worker, pool, call, schedDone, par,
  time, bus, pulsed, received, lastPulse, status, checked, others,
  meta, loop, failures, checks, registrations,
  depths, children, parents, spawnTold,
  sseDone, cancelled, closed, wire, backlog, lastID, stopper, sender, panicked, sends, beats,
  request, called, stream,
  up, offline, connected, checking, chat, kept, edgePending, sent, syncing, answers, downs,
  modTime, noted, unseen, watcher, published, writes,
  minute, tick, cronStopped, cronLoop, jobsRunning, begun, dropped, polled

queueVars == vars
downVars == <<server, main, signal, running, accepted, timedOut, closer, ledgerPending,
              draining, exit>>
schedVars == <<queue, worker, pool, call, schedDone, par>>
beatVars == <<time, bus, pulsed, received, lastPulse, status, checked, others>>
regVars == <<meta, loop, failures, checks, registrations>>
spawnVars == <<depths, children, parents, spawnTold>>
sseVars == <<sseDone, cancelled, closed, wire, backlog, lastID, stopper, sender, panicked,
             sends, beats>>
llmVars == <<request, called, stream>>
edgeVars == <<up, offline, connected, checking, chat, kept, edgePending, sent, syncing,
              answers, downs>>
watchVars == <<modTime, noted, unseen, watcher, published, writes>>
cronVars == <<minute, tick, cronStopped, cronLoop, jobsRunning, begun, dropped, polled>>

Down == INSTANCE Shutdown WITH pending <- ledgerPending
Sched == INSTANCE Scheduler WITH QueueCap <- PoolCap, done <- schedDone
Beat == INSTANCE Heartbeat
Reg == INSTANCE Registry
Tree == INSTANCE SpawnDepth WITH told <- spawnTold
Sse == INSTANCE SSEStream WITH done <- sseDone
Llm == INSTANCE LLMRouter
Net == INSTANCE Edge WITH pending <- edgePending
Watch == INSTANCE Watcher WITH told <- published
Crons == INSTANCE Cron WITH stopped <- cronStopped, loop <- cronLoop, running <- jobsRunning

-----------------------------------------------------------------------------
RunInit ==
  /\ part \in {"down", "sched", "beat", "reg", "spawn", "queue", "sse", "llm", "edge", "watch",
             "cron"}
  /\ Init
  /\ Down!Init
  /\ Sched!Init
  /\ Beat!Init
  /\ Reg!Init
  /\ Tree!Init
  /\ Sse!Init
  /\ Llm!Init
  /\ Net!Init
  /\ Watch!Init
  /\ Crons!Init
  /\ part # "watch" => modTime = [f \in Files |-> 0]

DownStep == part = "down" /\ Down!Next
  /\ UNCHANGED <<part, queueVars, schedVars, beatVars, regVars, spawnVars, sseVars, llmVars,
                 edgeVars, watchVars, cronVars>>
SchedStep == part = "sched" /\ Sched!Next
  /\ UNCHANGED <<part, queueVars, downVars, beatVars, regVars, spawnVars, sseVars, llmVars,
                 edgeVars, watchVars, cronVars>>
BeatStep == part = "beat" /\ Beat!Next
  /\ UNCHANGED <<part, queueVars, downVars, schedVars, regVars, spawnVars, sseVars, llmVars,
                 edgeVars, watchVars, cronVars>>
RegStep == part = "reg" /\ Reg!Next
  /\ UNCHANGED <<part, queueVars, downVars, schedVars, beatVars, spawnVars, sseVars, llmVars,
                 edgeVars, watchVars, cronVars>>
SpawnStep == part = "spawn" /\ Tree!Next
  /\ UNCHANGED <<part, queueVars, downVars, schedVars, beatVars, regVars, sseVars, llmVars,
                 edgeVars, watchVars, cronVars>>
QueueStep == part = "queue" /\ Next
  /\ UNCHANGED <<part, downVars, schedVars, beatVars, regVars, spawnVars, sseVars, llmVars,
                 edgeVars, watchVars, cronVars>>
SseStep == part = "sse" /\ Sse!Next
  /\ UNCHANGED <<part, queueVars, downVars, schedVars, beatVars, regVars, spawnVars, llmVars,
                 edgeVars, watchVars, cronVars>>
LlmStep == part = "llm" /\ Llm!Next
  /\ UNCHANGED <<part, queueVars, downVars, schedVars, beatVars, regVars, spawnVars, sseVars,
                 edgeVars, watchVars, cronVars>>
EdgeStep == part = "edge" /\ Net!Next
  /\ UNCHANGED <<part, queueVars, downVars, schedVars, beatVars, regVars, spawnVars, sseVars,
                 llmVars, watchVars, cronVars>>
WatchStep == part = "watch" /\ Watch!Next
  /\ UNCHANGED <<part, queueVars, downVars, schedVars, beatVars, regVars, spawnVars, sseVars,
                 llmVars, edgeVars, cronVars>>
CronStep == part = "cron" /\ Crons!Next
  /\ UNCHANGED <<part, queueVars, downVars, schedVars, beatVars, regVars, spawnVars, sseVars,
                 llmVars, edgeVars, watchVars>>

RunNext ==
  \/ DownStep \/ SchedStep \/ BeatStep \/ RegStep \/ SpawnStep
  \/ QueueStep \/ SseStep \/ LlmStep \/ EdgeStep \/ WatchStep \/ CronStep

runVars == <<part, queueVars, downVars, schedVars, beatVars, regVars, spawnVars, sseVars,
             llmVars, edgeVars, watchVars, cronVars>>

(* The fairness of the modules: their goroutines are scheduled and what    *)
(* they wait for outside of the program ends.                              *)
Fairness ==
  /\ WF_downVars(part = "down" /\ Down!Drain)
  /\ WF_downVars(part = "down" /\ Down!MainStep)
  /\ WF_downVars(part = "down" /\ Down!SignalStep)
  /\ \A w \in Workers : WF_schedVars(part = "sched" /\ Sched!WorkerStep(w))
  /\ \A c \in Calls : WF_schedVars(part = "sched" /\ Sched!CallStep(c))
  /\ WF_schedVars(part = "sched" /\ Sched!ParStep)
  /\ WF_sseVars(part = "sse" /\ Sse!HeartbeatEnds)
  /\ WF_sseVars(part = "sse" /\ Sse!Stop("beat"))
  /\ \A r \in Requests : WF_llmVars(part = "llm" /\ Llm!ProducerStep(r))
  /\ \A r \in Requests : WF_llmVars(part = "llm" /\ Llm!ReadToken(r))
  /\ WF_edgeVars(part = "edge" /\ Net!CheckAsks)
  /\ WF_edgeVars(part = "edge" /\ Net!CheckTold)
  /\ WF_edgeVars(part = "edge" /\ Net!SetConnected)
  /\ WF_watchVars(part = "watch" /\ Watch!WatcherStep)
  /\ WF_cronVars(part = "cron" /\ Crons!LoopEnds)

RunSpec == RunInit /\ [][RunNext]_runVars /\ Fairness

-----------------------------------------------------------------------------
(* Properties, stated in the modules; DequeueNeverBlocks is one of them    *)

(* Cores are degraded and skills unhealthy for their own silence and their *)
(* own failures alone, no core has too many children, and cores that were  *)
(* spawned in order are not nested too deep (cmd/harmonclaw/main.go,       *)
(* architect/registry.go, bus/depth_controller.go).                        *)
JudgedByTheirOwn ==
  /\ part = "beat" => Beat!DegradedWhenSilent
  /\ part = "reg" => Reg!FailuresItsOwn
  /\ part = "spawn" => Tree!NestingBounded

(* Who closes the ledger first leaves nothing unwritten, the events of a   *)
(* stream are numbered without a gap, backends are asked in order, the     *)
(* edge keeps the latest answers, and a cron job runs once in each minute  *)
(* it is due whose tick was not dropped (cmd/harmonclaw/main.go,           *)
(* butler/sse.go, llm/router.go, internal/edge/offline.go,                 *)
(* architect/cron.go).                                                     *)
NothingOutOfOrder ==
  /\ part = "down" => Down!FirstCloserFlushes
  /\ part = "sse" => Sse!EventsCounted
  /\ part = "llm" => Llm!BackendsInOrder
  /\ part = "edge" => Net!LatestKept
  /\ part = "cron" => Crons!OncePerDueMinute

(* A signal ends the process, schedules end, and so do streams, their      *)
(* heartbeats and the cron loop (cmd/harmonclaw/main.go,                   *)
(* architect/scheduler.go, llm/router.go, butler/sse.go,                   *)
(* architect/cron.go).                                                     *)
WorkEnds ==
  /\ Down!SignalEndsProcess
  /\ Sched!SchedulesEnd
  /\ part = "sched" => Sched!ParallelEnds
  /\ Llm!StreamEnds
  /\ Sse!HeartbeatLeaves
  /\ Crons!StopEndsLoop

(* A backend that is back is noticed, and every change of a configuration  *)
(* is published (internal/edge/offline.go, configs/watcher.go).            *)
ChangesNoticed == (part = "edge" => Net!BackOnline) /\ Watch!ChangesPublished

(* .cursorrules:280-291: requests in progress complete, or have 30 seconds *)
(* to, before the process ends (cmd/harmonclaw/main.go).                   *)
DrainedBeforeExit == Down!DrainedBeforeExit
-----------------------------------------------------------------------------
(* A small instance *)

(* Two skills that depend on each other and on one that is not scheduled.  *)
MCSkillOf == [c1 |-> "a", c2 |-> "b"]
MCDependsOn == [c1 |-> {"b", "x"}, c2 |-> {"a"}]

(* Two backends with a key and one without; the first admits no shadow.    *)
MCBackends == <<"deepseek", "moonshot", "ollama">>
MCSovereignty == [deepseek |-> {"airlock", "opensea"}, moonshot |-> {"airlock", "opensea"},
                  ollama |-> {"shadow", "airlock", "opensea"}]
MCHasKey == [deepseek |-> TRUE, moonshot |-> FALSE, ollama |-> TRUE]

(* Every minute, the first minute of every hour, one minute of the day,    *)
(* and an expression that is too short.                                    *)
MCExpr == [all |-> [fields |-> 5, min |-> Star, hour |-> Star],
           hourly |-> [fields |-> 5, min |-> 0, hour |-> Star],
           daily |-> [fields |-> 5, min |-> 1, hour |-> 1],
           short |-> [fields |-> 2, min |-> Star, hour |-> Star]]
=============================================================================
