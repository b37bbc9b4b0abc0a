# HarmonClaw: a TLA+ development

HarmonClaw is a Go program (standard library only) that puts three cores behind
one HTTP gateway: the Governor decides what is allowed, the Butler talks, the
Architect runs skills. They share a message bus and the Viking storage. This
directory holds TLA+ modules of its parts, TLC configurations that check them
on small instances, and proofs checked by TLAPS.

Run everything from this directory:

    tlc -config Ledger.cfg MCLedger          # and the other .cfg files
    tlapm LedgerProofs.tla
    tlapm SkillExecProofs.tla                # and the other ...Proofs modules

Contents: 1 inventory, 2 plan, 3 modules, 4 runs, 5 findings, 6 proofs,
7 assumptions about the environment, 8 what is not modelled.

## 1. Inventory

| Part | State | Operations | Talks to | What is hard | What makes it correct |
|---|---|---|---|---|---|
| Audit ledger (`viking/ledger.go`, `LedgerSafeAppend` in `viking/write.go`) | `closed`, the channel of 64, the drain goroutine, `ledger.jsonl`, its `.tmp` | Record, Close, drain, Latest, Trace, Query | called by every part | Record against Close, a full channel, failing file operations, crashes | order, lines damaged by failing operations alone, nothing accepted is lost, Close flushes |
| Skill execution (`architect/{architect,pool,pipeline}.go`, `skills/sandbox.go`, `governor/quota.go`, `handleSkills`, `handlePipelineExecute`) | task queue, workers, result channels, slots of the quota | Allow, Submit, run with timeout, reply, Release | ledger, skills | timeouts racing results, abandoned goroutines, full queue | one answer per call, no lost slot, no shared arguments |
| Chat (`butler/{butler,conversation,memory}.go`) | sessions, `<user>.jsonl`, its `.tmp` | HandleChat, HandleChatStream, SaveStreamedResponse, Append, LoadContext, restore | LLM, file system | all clients are one user; persist runs outside the mutex | the prompt is this chat's, the file is whole and current |
| Topic bus (`bus/bus.go`) | event channel, lists of subscribers, a channel each | Publish, SubscribeTopic, unsubscribe, dispatch | config watcher publishes | unsubscribe against dispatch, slow handlers | order, isolation of subscribers, no crash |
| Heartbeat (`main.go`, `bus.Send`) | shared channel of 64, last pulses, core status | Pulse, monitor | cores | loss, competing subscribers, 15 s ticks | a dead core is noticed, a live one is not degraded |
| Shutdown (`main.go`, `gateway.go`) | server, signal goroutine, deferred calls | signal, Shutdown, Close, exit | ledger, snapshots, crons | main returns before the shutdown goroutine is done | requests drained and the last record stored before the exit |
| Scheduler and crons (`architect/{scheduler,cron}.go`) | done map, cron jobs | Schedule, ScheduleParallel, Start, Stop | pool, ledger | done is closed at Submit; refused tasks are waited for | a task runs after what it depends on; every call returns |
| Skill registry (`architect/registry.go`) | skills, health | Register, HealthCheck, SyncFromGlobal | Architect | global map read unguarded | three failures degrade, a success recovers |
| Depth controller (`bus/depth_controller.go`) | depth and children per core | CanSpawn, Spawn | nobody yet | re-spawning | depth below the limit along every chain |
| Sovereignty (`governor/{client,sovereignty*}.go`, `handlers.go`) | mode and domains, twice | switch, check of an outbound request | ledger, gateway | two copies, check before use | both copies agree; nothing leaves in shadow mode |
| Admission (`governor/{ratelimit,firewall,token}.go`, `ironclaw`, `gateway/middleware.go`) | buckets, windows, bans | the chain of middleware | every request | partial consumption, windows, panics | limits hold; each request is recorded once |
| Viking storage (`viking/{write,merkle,store,snapshot,gc,engram}.go`) | files, audit roots, key-value items, snapshots | SafeWrite, AppendAuditRoot, Snapshot, Restore, Expire, GC | Butler, gateway, GC | unsynchronised read-modify-write, lists lost on restart | roots are kept, the right snapshots go |
| Viking search (`viking/{search,bm25,segment}.go`) | index and its file | Add, Search, persist | gateway | persistence | the index answers what was added |
| Realtime queue, SSE, TTS stream (`butler/{queue,sse,tts_stream}.go`) | two lists, 16 tokens; event ids, `done` | Enqueue, Dequeue; Send, Stop | Butler | tokens outside the lock; Stop from two goroutines | tokens + items add up; ids in order |
| LLM (`llm/*`) | providers, their failures | Chat, ChatStream, route | Butler | failover | a failing provider is left for the next |
| Dialogue engine (`internal/engine/*`; `engine/*` is the older one) | sessions, engrams | Append, summarise, expire | storage | window and summary | every turn is in the window or in a summary |
| Edge (`internal/edge/*`) | offline cache, pending messages, tunnel | Record, GetPendingSync, ClearPending, reconnect | backend | a message recorded during the synchronisation | each message is synchronised once |
| Updater, backup (`updater`, `backup`) | current, backup, new file | Download, Replace, Rollback | file system | crash between two renames | there is always a current program |
| Skills (`skills/*`) | caches, semaphores | Execute | LLM, network | cache limits, retries | caches bounded |
| Configuration (`configs/*`) | modification times | load, poll | bus | a change between two polls | a change is published |
| Everything else (`cmd/hc*`, `sdk`, `channel`, `telemetry`, `pkg/log`, `gateway/{cors,logger,metrics}.go`, `governor/{crypto*,credential_proxy,audit}.go`) | little or none | | | | |

The hazards these parts are exposed to, each at its line, are listed under
`hazards` in `PROJECT.json`, with the properties that watch over them.

## 2. How the modules are laid out

The four parts through which every request goes have a run of their own, because
their interleavings are large, and an MC module where a constant needs a
definition: **Ledger** with its abstract specification **AuditLog**,
**SkillExec**, **EventBus**, **Chat**. All other parts are modules of moderate
size that share no state with each other; three modules put them together for
TLC:

* **MCGateway**: what stands between a request and its handler, and between the
  process and the network: Sovereignty (on SovereigntyRules),
  SovereigntyMachine, RateLimit, Firewall, Middleware, ChatHandler;
* **MCStores**: what is stored, searched and remembered: SafeWrite, KVStore,
  Snapshots, Engrams, SearchIndex (on Segmenter), Updater, Dialogue, SlotSkill;
* **MCRuntime**: what runs beside the requests: Shutdown, Scheduler, Heartbeat,
  Registry, SpawnDepth, RealtimeQueue, SSEStream, LLMRouter, Edge, Watcher,
  Cron.

Each of the three instantiates its modules under a name and adds a variable
`part`: a behavior is one of the module that `part` names, and the variables of
the others keep their initial values. Modules that share no state cannot disturb
each other, so nothing is lost by not interleaving them, and the number of states
is the sum of theirs and not the product. Their properties are stated in the
modules; the composing module joins those about one concern under one name.
Where modules do meet in the code, the meeting is part of a module: the POST that
switches the mode in Sovereignty passes the gateway's check that Middleware
describes; Shutdown has the ledger as a count of pending entries with the closing
protocol of Ledger; the pool of Scheduler is that of SkillExec with Stop.

The composing modules are parametrised like all others: their sets and limits are
CONSTANTS with named assumptions (`GatewayAssumption`, `StoresAssumption`,
`TextAssumption`, `TalkAssumption`, `RunAssumption`), so that the theorems are about any instance; the .cfg files give
the numbers, and definitions named `MC...` at the end of a composing module give
what is no number or set of names.

Left for later: the persona store and the tunnel, which are maps under a mutex.

Conventions: constants carry the names of the code's constants where it names
them; each action is one atomic step of one goroutine, that is the code between
two points where another goroutine can be seen; a definition whose comment
begins with "Variant" is a faulty form of the one after it, kept to see that a
property notices it. No module uses a RECURSIVE operator; recursion is written as
functions and folds.

## 3. Modules

**AuditLog.** What a ledger promises: an accepted entry is stored later, in the
order of acceptance; an entry may be lost (a failure), the log may be replaced
by its beginning, with or without the new entry and with a damaged last line (a
read that failed on the way), a shutdown stops acceptance. Liveness: what is
pending is stored or lost in the end.

**Ledger.** `ch`, `chClosed`, `closed` are the fields of `FileLedger`; `rec[r]`
is where goroutine r is in `Record`, `closer[c]` where c is in `Close`, `drain`
where the drain goroutine is in its loop and in `LedgerSafeAppend`. `Record` is
two steps (`RecordCall`: the test of `closed`; `RecordSend`: the select under the
deferred recover), `Close` three (`CloseSwap`, `CloseChannel`, `CloseWait`), an
append six (`Receive`, `Read`, `CreateTmp`, `WriteTmp`, `SyncTmp`, `RenameTmp`).
`AppendFails` is a failing operation, except a failing ReadFile, whose error the
code ignores while it keeps what was read by then (`Read`, `ReadPart`): any number
of lines and any part of the next one, to which the new line is glued (`cut`,
`Full`). `Crash` resets the process and leaves on the disk what was
synced and any prefix of what was not. A line is the number of its entry; the
checksum and the JSON are left out. `MkdirAll` fails like `Read` or `CreateTmp`.

**SkillExec.** A job is a pair of a caller and the number of its call. `tasks`,
`poolRunning` and `userActive` are the code's; `worker[w]` is the job whose
sandbox w is in; `skill[j]` is the goroutine that the sandbox started for it,
`result[j]` the sandbox's channel, `reply[j]` the channel of `ExecuteSkill` or
`Pipeline.Run`. `WorkerTimeout` may fire at any time, also when the result is
already there, as the select of the sandbox allows. Handlers are modelled from
`Quota.Allow` to the deferred `Release`; a request body that does not parse
returns before that and changes nothing. The quota's limits on calls per second
and on goroutines may refuse any call without a trace, so they are no action.
Chats take a slot of the same quota; they hold it like a request does.

**EventBus.** An event is the number of its acceptance. The dispatcher's loop
body is four actions: `Take`, `CopySubscribers` (the only one under the lock),
`SendNext` once per subscriber, `AllServed`. A handler call is one step: it
returns, or it hangs for ever. `since` and `refused` are history variables.

**Chat.** One user, as in the code (`user := "default"`). A chat is in "save"
(SaveMemory and the part of `Append` under the mutex: `Enter`), then in the four
stages of `persist`, then in "ask" (the call of the model), and a second time
through `Append` for the answer; a chat without a message goes through
`LoadContext` (`Load`, `EnterLoaded`). Names refer to inodes, so that two
goroutines that both created `default.jsonl.tmp` write to one file, as on the
real system, even after one of them renamed it. Reading the file back is not the
inverse of writing it: a line whose message has no role is skipped (a client sends
the role, and nobody checks it), and the Scanner stops at a line of more than 64
KiB, which hides what is behind it (`TakeKind`, `Whole`). A read that fails gives
what it has read without an error (`Reads`). Streaming differs from a plain
chat in nothing but how the answer arrives. Left out: system messages (persona,
summary every ten turns) that are put before the messages; `LoadHistory`, which
looks for a session that has only just got its identifier; the partly
overwritten neighbour of an overwritten line (lines are of one length).
`overlapped` is a history variable: two uses of the conversation have been in
progress at once.

### Gateway and governor

**SovereigntyRules** decides about one destination: `DomainAllowed` is the list
of the client with `*.suffix` and `*`, `RulesAllow` the rules of
`sovereignty.json` (one that denies beats all that allow, and what none allows is
denied; the port is taken from the scheme if there is none), `TripleCheck` the check of SovereigntyMachine.

**Sovereignty** holds the mode twice, as the code does: `clientMode` with
`clientDomains` under a mutex, and the gateway's plain variable. A POST is four
steps (`PassGateway`, `SetSovereigntyMode`, `RecordSwitch`, `SetGatewayMode`), an
outbound request reads the pair once (`ReadMode`) and is decided later (`Send`,
`Block`). `switched`, `recorded`, `overlapped` and `inForce` are history variables.
**SovereigntyMachine** is the second implementation of the check, which only tests
make; `ChecksAgree` compares the two.

**RateLimit** asks the three buckets one after the other (`Ask`, `Allow`), as
requests do, and replaces their limits on a PUT (`Put`, `UpdateConfig`). A token
is worth `Second`, so that refills are whole numbers; a burst of zero counts as
one, as in `NewTokenBucket`. **Firewall** has the ban, the window and the clean-up
as separate steps, because each takes the mutex for itself.

**Middleware** passes a request through recover, firewall, rate limit,
authentication, ironclaw, access log, metrics and ledger. A token is the time it
was issued at. A panic of the handler passes all of them but recover by. What a
request leaves in the ledger is the list of the entries made in the name of the
gateway: those of the two middlewares, and the one that a PUT of the limits makes of
itself; the entries that handlers make in the user's name are part of SkillExec and
ChatHandler. The
fast path (`/v1/health`) has recover alone, and so no place in the ledger.
**ChatHandler** is the handler behind it: a place and a window of the quota, the
window of the policy, the body, the answer or the stream, and the deferred release.

### Stores

**SafeWrite** works on inodes, like Chat: two writers of one file share the
temporary name. After a write it reads the root file and writes it anew with one
line more (`ReadAudit`). `excused` names the files that two writers wrote at
once; the properties say nothing of them from then on, and that is where the
code's lack of a lock shows: two appends at once lose a root. `roots` are the roots
appended since the last append that could not read the file, which begins it anew
(`blind`; `AppendAuditRoot` uses nothing of a read that failed). `RootsKept` counts
two lines per root: the header that SafeWrite puts on top is read back and kept, one
for each append.

**KVStore** compares what Get and List return with the last Set of each key.
**Snapshots** keeps the list in memory apart from the directory; a snapshot may
fail while it walks, or be cut off without a trace, since the errors of `io.Copy`
and of the closes are ignored (`complete` are the whole ones); the renaming and the
trim under the mutex are two steps, between which the API or the GC may list the
directory; two may be taken in one second.
`Listings` is what `sort.Slice` makes of the names in the directory, of which no
two are alike; `WithVersion` is the sorting after an append, which may meet a name
that is there already.
**Engrams** writes a file, then the index; the trim ranks by importance and the
last access. A restart parses the files (`Parsed`): of a content of several lines
the first is read back, a line "---" ends the reading, and a line such as "ID: ..."
makes it the file of another engram. A file that cannot be removed or read is passed
over (`left`). `IndexMatchesFiles` excepts what this does to the engrams in question. **Segmenter** cuts by the longest word; the reader of a text is a
`Walk`, which goes on behind what it has read. **SearchIndex** keeps both
indexes over the same documents, each with a file, a save and a reload of its own,
and a document indexed again. A reload stops at a line of 64 KiB (`Long`), and the
lines are in the order of a map, so it has any of the others (`Loads`). BM25 returns
as many as its limit allows, which of them is left open (`SearchBM25`). **Updater** is three names and two renames. **Dialogue** runs requests
through intent, routing, window, memories and model, with every lock released
in between; every turn a session was ever told has a place, a summary knows that of
its first turn, and so it can be said where each turn is. **SlotSkill** is what web_search, tts and openclaw_adapter have in
common; a request that outlives the sandbox's timeout keeps its slot, and the proxy
tries again with it. Two first calls of tts or web_search may each make the channel
of slots (`MakeSlots`) or the cache (`MakeCache`), since they test for nil without a
lock; `made` and `caches` count them.

### Runtime

**Shutdown**: `main` is where main is after `Listen`, `signal` where the signal
goroutine is; both call `Close`, whose first caller closes and waits, and whose
second returns at once. **Scheduler** has the `done` map as the call whose channel
is registered, and a pool that may be stopped. **Heartbeat** has the shared channel
of the bus as a sequence that drops what it cannot hold; a unit of time is five
seconds. **Registry** holds the answer of a check apart from its record. A history
variable counts the failures of the current registration. **SpawnDepth** has
CanSpawn and Spawn in any order: a core may be spawned after it has spawned others,
or again by another core. That no line is too deep is said of cores spawned in order
alone (`InOrder`).
**RealtimeQueue** is two numbers (the lists' lengths), the tokens in the channel
and the callers in the middle of a call. **SSEStream** numbers events under the
writer's lock and notes the id under the stream's. **LLMRouter** asks backends in
order and forwards a stream over a bounded channel. **Edge** is the health loop,
the proxy and the pending list of hc-edge. **Watcher** looks at one file per step,
while somebody may write any of them. **Cron** has the ticker's channel of one
tick, which carries its time, and drops ticks while it is full.

Only tests call SovereigntyMachine, Scheduler, the health loop of the registry,
the lists of RealtimeQueue, SSEStream, the router of the models, the updater and
the dialogue engine of `internal/engine`. They are modelled for what they promise
to a caller.

## 4. Runs

| Run | Instance | Shows |
|---|---|---|
| `ledger` | 2 recorders, 2 closers, channel of 2, 4 records, 2 faults, 1 crash | type, `StoredInOrder`, `OnlyFaultsDamage`, `NothingLost`, `FlushedOnClose`, `CloseReturns`, refinement of AuditLog |
| `ledger_full` | the same without faults | counterexample to `FailuresAreKept` |
| `skill_exec` | 2 requests with a quota of 1, a pipeline of 2 stages, 2 workers, a queue of 1 | type, `QuotaAccounted`, `JobInOnePlace`, `PipelineArgsPrivate`, `CallersAnswered`, `GoroutinesEnd` |
| `skill_exec_bound` | the same | counterexample to `ExecutionBounded` |
| `event_bus` | 2 subscriptions of one topic, 2 topics, 3 events, both buffers of 1 | `HandledInOrder`, `NothingMissed`, `DispatcherProgresses`, `UnsubscribedEnds` |
| `event_bus_unsubscribe` | the same | counterexample to `DispatcherSurvives` |
| `chat` | 2 chats at a time, 3 in all, window of 2; 1 message without a role or too long, 1 fault, 1 crash, any two of the three | `PromptIsOwn`, `PromptComplete`, `FileWhole`, `FileMatchesSession` |
| `chat_overlap` | 2 chats, no fault, no crash | counterexample to `PromptNotEmpty` |
| `gateway` | 2 POSTs and 1 outbound request; 2 clients of 3 buckets with a PUT; 2 connections of one address; 2 requests through the chain; 3 chats with a quota of 2 | `OutboundAsChecked`, `SwitchesKept`, `AdmissionBounded`, `RequestsAccounted`, `ConversationsBounded` |
| `stores` | 2 writers, 2 files, 1 crash; 2 keys; 2 snapshots kept; 3 engrams with room for 1, 1 restart; 2 documents, one text too long to be loaded, 2 saves, 1 result; 3 releases; 2 dialogues of one session; 2 jobs with a cache of 1 and 2 of the proxy with 2 tries, over 1 slot each | `FilesKept`, `NewestSeen`, `SnapshotsKept`, `IndexesMatch`, `SearchFindsContained`, `DialogueKept`, `SlotsKept` |
| `runtime` | 1 signal and 2 connections; 2 schedules that depend on each other and 2 parallel tasks over a queue of 1; 2 cores over a channel of 1; 2 skills; 4 cores; 3 callers of a queue of 2; 2 senders; 3 backends; 2 proxied chats; 2 watched files; 4 cron jobs over 5 minutes | `DequeueNeverBlocks`, `JudgedByTheirOwn`, `NothingOutOfOrder`, `WorkEnds`, `ChangesNoticed` |
| `shutdown_drain` | the same, with a smaller queue | counterexample to `DrainedBeforeExit` |

Bounds. Each buffer is as small as lets it be empty, partly full (where its
order matters) and full; the code's 64, 100, 8 and 16 add no other case. Four
records over a channel of two fill it, drop an entry and go on. One fault and
one crash each reach every place where a fault or a crash can strike; a second
fault meets the states the first one leaves, which the run `ledger` has and the
proofs cover for any number. Two of each kind of goroutine make every pairwise race; the user's
quota of 1 makes the second request wait or be refused. Three events fill a
subscriber whose handler hangs. Three chats (up to six appends) push messages out of a window of two; any two of an odd message, a fault and a crash meet (`MaxMishaps`). The view of this run merges states that differ only in inodes and windows no step reads again.

In the composed runs each number is the smallest at which the case in question
happens. Two POSTs overlap; one outbound request sees both of their switches. Three
asks drain a bucket, a tick refills it, and a PUT replaces it. A limit of one
request per window and a ban of three ticks let bans begin, end and be cleaned up.
A token of one tick expires before a request that shows it. Three chats over a
quota of two make one wait outside. Three engrams over a limit of one make a trim
remove one. Five seconds of snapshots over a limit of two make a trim, and the
clock allows two in one second. Two tries make the proxy fail, retry and fail for
good. What bounds hide: with a bounded number of writes every changed file is
found by a later poll of the watcher, while without a bound a file that changes
before each poll and comes early in the order keeps the others from being found. Five checks and three registrations let a skill be
registered anew between the question and the answer, with two failures behind it.
Seven units of time let a core miss three pulses and come back. Three tokens
over a channel of one block the goroutine of a stream.

Fairness. The Go scheduler runs every goroutine that can run. Hence weak
fairness of the ledger's drain and of a Close in progress; of the workers
(whose timers fire), of a skill's goroutine once the skill has ended, of a
caller that can receive and of a handler that has begun; of the bus's
dispatcher and the subscribers' goroutines. Nothing makes a client call, a
skill return, or a handler not hang. Chat states no liveness: a call of the
model ends when the provider's HTTP call does. In `runtime`: weak fairness of
the ledger's drain, of main and of the signal goroutine once it was signalled; of
a pool worker (its task returns or panics), of a call of Schedule and of
ScheduleParallel; of the heartbeat of a stream and its stop; of the goroutine of a
model's stream and of its reader as long as it stays; of the edge's ticker and the
end of its requests; of the watcher's poll. A backend need not come back, a client
need not leave, a file need not change. The cron loop leaves once it was stopped:
of two ready cases a select takes each now and then.

Deadlock is not checked: each of these systems rests when nobody calls it.

Every property of a passing run has a variant of a definition that violates
it, listed under `mutants` in `PROJECT.json`.

## 5. Findings

* `ledger_full`: `Record` drops any entry the full channel does not take
  (`viking/ledger.go:87-91`), also one that reports a failure.
  `.cursorrules:111` says of those: "BLOCK caller until space (never drop)".
* `skill_exec_bound`: a skill that outlives its timeout runs on
  (`skills/sandbox.go:21-44`) while its worker takes the next job, so that the
  number of running skills is not bounded by the pool, against
  `.cursorrules:69-77`. `GoroutinesEnd` shows the good part: once such a skill
  returns, its goroutine ends.
* `event_bus_unsubscribe`: an unsubscribe between the dispatcher's copy of the
  list and its send closes the channel under it, and the process panics
  (`bus/bus.go:96`, `:112`).
* `chat_overlap`: `persist` runs after the mutex was given back, and every chat
  is a chat of "default". Of two chats that both created the temporary file the
  later one finds it renamed; its `Append` returns an error, and `HandleChat`
  logs the error and asks the model with no messages
  (`butler/butler.go:101-104`). The condition `~overlapped` in `FileWhole`,
  `FileMatchesSession` and `PromptComplete` is there for the same reason: they
  hold as long as the uses of the conversation do not overlap, and fail without.
  One more of these overlaps is `LoadContext`, which reads the file before it takes
  the mutex and then overwrites the session, with all that was appended meanwhile
  (`butler/conversation.go:154-169`).
* `shutdown_drain`: `http.Server.Shutdown` makes `ListenAndServe` return at once
  (`cmd/harmonclaw/main.go:262-265`); main then runs its deferred `ledger.Close`
  and returns, and the process ends while a request is in progress and within the
  timeout, and while the signal goroutine has not made the snapshot or the last
  record. `main.go:238` says "draining...", `.cursorrules:283` asks to wait for
  requests in progress. `FirstCloserFlushes` is the good part: whatever the first
  closer finds accepted is written before it returns.

Observed while modelling, and stated in the modules where they matter:

* `POST /v1/governor/sovereignty` "switches the mode" (`README.md:57`,
  `docs/api.md:17`), but in shadow mode `ironclawMiddleware` refuses every path
  under `/v1/`, the POST included, and only a restart ends shadow mode. The theorem
  `ShadowForGood` states that of the code; it is no promise, and no run checks it.
  Two POSTs that overlap can leave the gateway and the client in different modes for
  good: the condition `~overlapped` of `ModesAgree` leaves that case out, and no
  property catches it. The domains of a POST have no effect while rules are loaded.
* The ledger middleware records "success" for every request whose handler returned
  (`gateway/middleware.go:97-108`), also for one that `handleSkills` answered with an
  error and recorded as "fail" itself (`gateway/handlers_chat.go:254-275`): the two
  entries of one request contradict each other.
* A chat message without a role is in the prompt until the next restart, or the next
  chat without a message, and is forgotten then; one of more than 64 KiB takes all
  messages behind it with it (`butler/conversation.go:82-88`).
* `.cursorrules:158` names `/healthz` and `/v1/auth/login` as what skips the
  authentication; the code also lets `POST /v1/token` pass (`gateway/gateway.go:190-193`),
  whose handler issues a token for any name without a password, as does the login.
* A refresh is allowed for 72 hours (`governor/token.go:52-55`), but only with a
  token that is valid, and tokens expire after 24.
* The record of a panic (`recoverMiddleware`) has no action id, because the
  middleware that makes it is further inside; `handleRateLimitPut` starts from the
  file's configuration, not from the one in force.
* Snapshots of earlier processes are neither counted nor removed by
  `Snapshot`, and `GC.Run` trims a list that `ListSnapshots` has already cut to
  `maxKeep` (`viking/snapshot.go:89-98`, `viking/gc.go:41-45`), so old ones stay.
* The engram trim removes what was accessed most recently among equals: its
  score grows with the age of the last access (`viking/engram.go:236-246`).
* Streamed chunks are not flushed to the client: the recorder that the access log
  wraps around the writer is no `http.Flusher` (`gateway/logger.go:68-76`).
* `Schedule` closes its channel when it has submitted its task, so a task may run
  before the one it depends on (`architect/scheduler.go:62`, `:88`).
* `RecordShutdown` finds the ledger closed if main was faster, and is dropped.
* Two calls of `SSEStream.Stop` at once may both close `done`: the module has the
  panic (`panicked`), which `HeartbeatLeaves` excepts.
* `ArchiveStale` deletes an idle session with its window and writes nothing
  (`internal/engine/context_manager.go:145-163`); `.cursorrules:501` asks that
  sessions be archived after 30 minutes. `TurnsKept` counts those turns as deleted.
* Two appends to the audit root at once lose a root, and one that cannot read the file
  writes it anew with its root alone (`viking/merkle.go:77-83`): `RootsKept` speaks of
  what is left.
* An archive that was cut off counts like a whole one, so a trim may remove the last
  whole one (`viking/snapshot.go:69`, `:81-97`). With one snapshot kept, one whose name is in
  the list already is removed by its own trim.
* The index of engrams forgets what it could not remove, and a restart brings it back
  (`viking/engram.go:225`, `:257`). A content of several lines comes back as its first
  (`:145-193`), and one with a line "ID: ..." or "SessionID: ..." as another engram.
* Whatever a restart cannot load, because a line of the index file has 64 KiB or more,
  the next save removes from the file too (`viking/search.go:60`, `viking/bm25.go:82`).
* Two first calls of tts or web_search may each make a cache or a channel of slots
  (`skills/tts/cache.go:29-45`): what was stored in the first is lost, and its slots
  are not counted.
* What `Check` makes pending while a synchronisation is between `GetPendingSync` and
  `ClearPending` is cleared without having been sent (`internal/edge/offline.go:98`).
  Nothing outside that file calls the two.
* `buildMessages` puts the question into the prompt twice: the window already ends
  with it (`internal/engine/response_pipeline.go:174-182`).

## 6. Proofs

Assumptions: those named `...Assumption` in the modules, which say no more than
that bounds are natural numbers, buffers are not empty, and sets that are
counted are finite. TLC evaluates them in every run.

**LedgerProofs** (extends Ledger). For any sets of recorders and closers, any
capacity and any number of records, faults and crashes:

* `LedgerTypeOK`: `SafeSpec => []TypeOK`;
* `LedgerStored`: `SafeSpec => []StoredInOrder`;
* `LedgerDamage`: `SafeSpec => []OnlyFaultsDamage`;
* `LedgerNothingLost`: `SafeSpec => []NothingLost`;
* `LedgerClosing`: `SafeSpec => []FlushedOnClose`;
* `LedgerImplementsAuditLog`: `SafeSpec => Audit!SafeSpec`.

None of these is inductive. `LedgerInvariant` proves the invariant they follow
from. `ChannelContiguous`: the channel holds the last accepted entries without a
gap, and drain holds the one before them (a step moves an entry along this line,
so its place must be known before it arrives). `FileOlder`: all that is in the
file is older than the entry in hand. `AppendProgress`: between the read and the
rename of `LedgerSafeAppend`, what was read is the file (or, after a fault, the
beginning of it), no more of its lines are damaged than operations have failed,
from stage "sync" on the temporary file is that and the new entry, and
in stage "rename" it is synced. `Complete`: before the first failure the file
holds 1..n where n is all that has left the channel and drain's hands.
`ClosingOrder`: drain has exited only with the channel closed and empty, and a
closer is past its wait only after drain has exited. The refinement uses the same
invariant: the entry in hand followed by the channel is the abstract queue of at
most Capacity + 1, and each of the drain's steps is a store, a loss, a shortening
or a stutter.

**SkillExecProofs** (extends SkillExec). For any sets of requests, pipelines and
workers, any capacity of the queue, any quota and any number of calls:

* `ExecTypeOK`: `SafeSpec => []TypeOK`;
* `ExecJobInOnePlace`: `JobInOnePlace`;
* `ExecQuotaAccounted`: `QuotaAccounted`;
* `ExecPipelineArgsPrivate`: `PipelineArgsPrivate`.

`SafeJobInv` proves the invariant behind the first two. `NoJobTwice`: each of the
queue, the workers and the replies holds a job at most once, and no two of them
hold the same. `AwaitedJobsHeld`: a job is in one of them exactly if its caller
waits for it. These carry the cardinalities of `JobInOnePlace`, but need three
facts about the edges of a call: an admitted request has a call left
(`AdmittedHasCall`, else `Submit` could leave the jobs), a waiting caller has
begun one (`WaitingHasJob`), and no worker holds a job when the pool is started
(`NotStarted`, else `PoolStart` would lose it). A step that moves a job between
places needs no look at the callers (`SameJobsHeld`), and one that moves none
needs no look at the places (`PlacesUntouched`). `QuotaAccounted` is inductive
given the types: `RequestAllow` and `RequestReturn` add and remove one element of
the set it counts, and all other steps leave the set and the counter alone.

For the pipelines, `RunningStages` names the one stage whose skill may be running:
the one that is waited for, or the one whose timeout ended the pipeline. That a
pipeline with an answer "ok" has no skill running rests on `ResultsAwaited`: a result is under way only from a goroutine that has ended.

**ChatProofs** (extends Chat). For any finite set of goroutines, any window but
an empty one, and any number of chats, failures and crashes:

* `ChatPromptIsOwn`: `Spec => []PromptIsOwn`;
* `ChatPromptComplete`: `Spec => []PromptComplete`;
* `ChatFileWhole`: `Spec => []FileWhole`;
* `ChatFileMatches`: `Spec => []FileMatchesSession`.

The invariant `ChatInv` has a part for each condition under which something holds.
`OwnInv`, whatever overlaps: a chat that writes the file holds a copy of the
session that ends with its own message, so the prompt it reads from that copy does
too; and the temporary file is never the one under the name. `FileInv`, while no
two uses overlapped: one chat at most is between `Append` and its return
(`Alone`), what it has written so far is the beginning of the session (`UseInv`),
the session and the file are in order, each message once (`Ordered`), and the file
is synced. `MatchInv`, without a failure besides: when nobody writes, the file
gives back what can be read of the session; what has been read once is read again
whole (`MessagesWhole`), a crash included.
`CompleteInv`, without a crash besides: of the last `Window` messages ever appended
the session lacks only unreadable ones (`Kept`), and it has all that came behind a
long one it still holds (`LongFollowed`), so that a reload loses nothing but what
follows that one within a window. `Latest(s, n)`, the window, is defined by SubSeq;
that it drops no more than it must is a matter of counting (`WindowHolds`, with
`HoldsMany` and `OrderedNarrow`).

**GatewayProofs** (extends MCGateway). For any finite sets of goroutines, any
addresses, users, limits and lifetimes, if a second is at least one tick, the
configurations of the buckets are pairs of numbers and the names of the three kinds
of buckets differ:

* `GatewayOutboundAsChecked`: `GatewaySpec => []OutboundAsChecked`;
* `GatewaySwitchesKept`: `GatewaySpec => []SwitchesKept`;

* `GatewayAdmissionBounded`: `GatewaySpec => []AdmissionBounded`;
* `GatewayRequestsAccounted`: `GatewaySpec => []RequestsAccounted`;
* `GatewayConversationsBounded`: `GatewaySpec => []ConversationsBounded`.

Each module has an inductive invariant of its own, `GatewayInv` is their
conjunction, and a step of one leaves the variables of the others alone. The
theorems about Sovereignty are instances of those of SovereigntyProofs, whose
specification `GatewaySpec` implies.

*Chats.* `RecordedLast`: a chat that is not about to give its place back has
recorded nothing, since every record is followed by the way out. A place is counted
with the chat that enters or leaves the set of those in progress (`PlacesCounted`);
the test of `Release` for zero never fails, because the chat that releases is one of
them. `WindowsInv`: of what was let through, that which is not too old is exactly
the list of times the code keeps, which is no longer than the limit.
*Token buckets.* The bound between two grants does not say what is left in the
bucket. `Paid` does: since any grant, what has been granted and the tokens that are
left come to no more than the capacity and what the bucket gained until it was last
looked at. A refill adds at most what it gained since then, a grant moves `Second`
from the tokens to what has been granted, and a PUT starts with a new bucket.
*Firewall.* `WallInv`: of each address, how many were let through since the window
of its record began, and that those before it lie a window behind. A clean-up
forgets a record only when nothing of it counts any more.
*Chain.* Each request is judged by itself (`ChainOf`, `OneRequest`): nothing is
recorded before the handler is left, and until the ledger middleware is, only what
the handler recorded itself (`RecordedOf`); what comes after the authentication has
passed it, or is one of the POSTs that need not (`AuthenticatedOf`).
The token may expire while the request is further in, so the verdict is kept with
the request.

**RuntimeProofs** (extends MCRuntime). For any sets of cores, skills, requests,
senders, jobs and minutes, any limits, any list of backends and any finite set of
callers of the queue:

* `QueueTokens`: `Spec => [](TypeOK /\ TokensAccounted)` of RealtimeQueue;
* `RuntimeQueueNeverBlocks`: `RunSpec => []DequeueNeverBlocks`;
* `RuntimeJudgedByTheirOwn`: `RunSpec => []JudgedByTheirOwn`;
* `RuntimeNothingOutOfOrder`: `RunSpec => []NothingOutOfOrder`.

`RunInv` is the conjunction of the invariants of the modules. `QInv`: tokens in the
channel, items in the lists and callers in the middle of a call add up to the
capacity; every step moves one unit from one of these to another. A caller that is
about to give its token back is itself one of those in the middle of a call, so
fewer than the capacity are in the channel, and it does not wait. `BeatInv`: what a
core's status says is a matter of when it last pulsed and when that was received,
with the checks at multiples of `CheckEvery`. `RegInv`: while an answer about an
earlier registration of a skill is held, the record has no failure yet that is not
the present registration's, so it has one too many at most. `SpawnInv`: a core has
no more children than are counted; that no line of cores is too deep is an induction
along the line (`NumbersIncluded`). `DownInv`: the drain ends only behind whoever
closed the ledger first, who goes on only behind the drain. `SseInv`, `EdgeInv`: the
numbers of events, and the latest answers that are kept. `LlmInv`: what is left of a
request's list of backends lies behind all that were called, each of which was
admitted and failed. `CronInv`: of the minutes since the tick polled last, all but
the one in the channel were dropped.

**StoresProofs** (extends MCStores). For any finite sets of goroutines, paths and
executions, any keys, levels, lifetimes and limits, any number of writes, failures
and crashes:

* `StoresFilesKept`: `Spec => []FilesKept`;
* `StoresNewestSeen`: `Spec => []NewestSeen`;
* `StoresSnapshotsKept`: `Spec => []SnapshotsKept`;
* `StoresIndexesMatch`: `Spec => []IndexesMatch`;
* `StoresSearchFinds`: `Spec => []SearchFindsContained`;
* `StoresDialogueKept`: `Spec => []DialogueKept`;
* `StoresSlotsKept`: `Spec => []SlotsKept`.

`StoresAssumption` says of the limits that a manager keeps a snapshot,
and no more than the GC does (both are 24 in the code), and that there is room in a
cache. `EngramAssumption` says that a content is read back as a content and claims
to be an engram or nothing. `TextAssumption` says that texts and words are sequences of
characters, that a word of the dictionary is longest, and that no stem is a Chinese
character; `TalkAssumption` that the window has a size, that at least one turn is
summarised at a time, and that nothing is no conversation.
`WriteInv` is about inodes: none has two names, and a goroutine writes to no file
but that of its path (`InodesApart`, which holds whatever overlaps); of a path that
is not excused one goroutine has hold (`Alone`), and the temporary file is what it
has written so far (`Begun`); the audit root is a header for each root in front of
the roots, and who appends to it holds all of them and its own, or its own alone if
it could not read them (`KnownTo`, `RootsInv`, with `HeaderInFront` and `AppendBehind` about lists of lines). That
`os.Create` finds a free inode is a matter of counting (`FreeInodeIs`). `StoreInv`:
an item is the last that was set, or is gone because that one had expired. `SnapInv`:
no archive is newer than the one being written, and the list names no
second twice until that one is in it; what a trim removes has as many newer ones in
front of it as are kept, but for one if the list has a name twice. `UpdateInv`: between the two renames the
program is the backup.
`EngramInv` is about each id that no two goroutines wrote at once and no content
claims (`ClaimsKnown`: a content that claims another makes both unsure): whoever
writes an engram does so alone and to the directory where it has been (`EngramKept`),
its file is ahead of the index from the renaming until the index has it, and
otherwise the two agree, as written or as parsed, or the file is one of those left. `SearchInv` is the property with the types; what it needs is about
texts. That the reader's `Walk` is a function at all (the definition chooses one),
and that a token is read of it if and only if one is found at a character the
reader comes to, are inductions from the end of the text; that every character of a
text belongs to one token or separates is the reason a document is found by its
own text; that it is among the results when no more documents than the limit match
is a matter of counting (`ResultsFind`). `TalkInv`: place by place, the window is the end of what its session was
told (`WindowKept`), a summary has its turns in their places before the window,
behind those of the summaries before it and apart from what was deleted
(`SummaryKept`), and no place before the window is without either (`NoneMissing`);
a turn that does not fit moves exactly one place. A request that has not asked has
left no turn of its own, one that asked has left its question, and no two requests
have one number (`TalkRuns`), so turns of others change nothing of it. A memory
keeps its keywords, so those a request was given stay unlike (`FoundOK`); that
`MergeSimilar` leaves no two that are alike is an induction along the ranking.
`SlotInv`: an execution is past the making of the channel of
slots only when one has been made. `CacheInv`, in the same way for the cache, and that
a cache which has not been made has had no entry (`CacheMade`); room is made in a full
one, since the entry that expires first exists (`RoomIsMade`).

**SovereigntyProofs** (extends Sovereignty). For any goroutines and any number of
POSTs and requests:

* `OutboundDecided`: `Spec => []DecidedAsInForce`;
* `ShadowForGood`: `Spec => ShadowStays`;
* `ModesAgreeAlone`: `Spec => []ModesAgree`;
* `SwitchesAllRecorded`: `Spec => []SwitchesRecorded`, if the goroutines that serve
  POSTs are finitely many (their records in the making are counted).

Each has an invariant of its own. `ReadInForce`: before a request has read the
mode, the present pair is among those that were in force, and afterwards the pair
it read is. `OnePost`: while no two POSTs overlapped at most one is past the
check, and how far the copies are apart is where that one is. `ShadowStays` is
about steps and needs no invariant: where it holds, no POST is past the check, and
none passes it. For the records, each change is counted or about to be by
the POST that made it, of which there is one.

**EventBusProofs** (extends EventBus). For any topics, subscriptions, events and
buffers:

* `BusTypeOK`: `Spec => []TypeOK`;
* `BusHandledInOrder`: `Spec => []HandledInOrder`;
* `BusNothingMissed`: `Spec => []NothingMissed`.

`ChannelContiguous`: the event channel holds the last events without a gap, and
the dispatcher the one before them. `ListsExact` and `TargetsExact`: a list of
subscribers, and the dispatcher's copy of it, hold a subscription at most once;
the list holds exactly the open ones. `GotInOrder`: what a subscription got and
what waits in its channel is in order, and older than what the dispatcher still
has for it. `GotAll`: what it did not get was refused by its channel or is in the
dispatcher's hands. An unsubscribe does not touch the copy, which is why the
argument goes through however the two interleave.

Every inductive invariant was checked by TLC on the instance of its run before it
was proved.

Only model-checked: all liveness (`CloseReturns`, `CallersAnswered`,
`GoroutinesEnd`, `DispatcherProgresses`, `UnsubscribedEnds`, `WorkEnds`,
`ChangesNoticed`), since fairness and ENABLED are out of the prover's reach. Every
invariant that a run checks is stated by a theorem.

No induction theorem of the library can be applied, since they take an operator. An
induction over numbers is possible where the claim can be put as the inclusion of a
set in another: the least number that is in one and not in the other cannot exist
(`NumbersIncluded`, `LeastNumber`, `FromTheStart`, `FromTheEnd`). That is how the
lines of cores, the least free inode, and the recursive functions of Segmenter and
Dialogue are dealt with; a recursive function is shown to exist first
(`MergeExists` and the like), since its definition chooses one. What is said of
folds, of `SelectSeq` and of sorting is no more than the theorems need: `Route` may
return any skills, and `Intent` any intent, for what `DialogueKept` says.

## 7. Assumptions about the environment

* `os.Rename` is atomic and, once done, survives a crash; data does so once
  synced; of unsynced data any prefix may survive (Ledger, Chat). In SafeWrite a
  crash is one of the process alone, and what was written stays.
* A file operation takes effect at one moment; reading a file, or that part of it
  which a failing read gives, is one step.
* Plain variables that several goroutines use without a lock (the gateway's mode,
  the channel of slots and the cache of tts and web_search, the last access of a
  session) are read and written in one step each. Only the mode is wider than a machine
  word. Its one test asks whether it is "shadow", the only mode of that length,
  so a torn read of it tests like the old value or like the new one; in the
  ledger's action types it would be garbled, which is left out.
* Time is discrete. Tickers fire in order and not too late by more than the bound
  that the module states (Heartbeat).
* An HTTP request to a backend ends, with an answer or an error.

## 8. What is not modelled

See `components` in `PROJECT.json`. Left out for good: ciphers and credentials
(calls of the standard library), the report of the audit, floating-point scores
(Segmenter, SearchIndex and Dialogue keep whether a score is positive, and what is
greater), parsing, formatting, metrics and log output, `doc_perceiver` (text in,
text out), the SDK, the channels and the command line, and the superseded
`engine/` package. Left out because they hold one map under one mutex and interact
with nobody: the persona store and the tunnel. `Restore` of a snapshot or of a backup is one call that
unpacks an archive over what is there, on request of an operator.
