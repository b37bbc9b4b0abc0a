----------------------------- MODULE SlotSkill -----------------------------
(***************************************************************************)
(* The skills that call a service: skills/tts, skills/web_search and       *)
(* skills/openclaw_adapter.  Each has a channel of slots, made at its      *)
(* first use; tts and web_search look into a cache first, also made at its *)
(* first use, and fill it; the OpenClaw proxy retries.  The sandbox        *)
(* (skills/sandbox.go) may answer "timeout" while the job goes on.         *)
(*                                                                         *)
(* tts and web_search test the variables of the cache and of the channel   *)
(* and set them without a lock, so that two first calls may both make one; *)
(* what the first stored goes with its cache, and a job releases its slot  *)
(* in the channel that is there then.  The proxy uses sync.Once.           *)
(***************************************************************************)
EXTENDS Naturals, FiniteSets

CONSTANTS
  Jobs, SkillOf, KeyOf,    \* the executions; job: its skill and cache key
  Once, Cached,            \* skills that use sync.Once, that have a cache
  Limit, MaxRetries,
  Ttl, MaxSize,            \* of the cache
  MaxClock

VARIABLES
  made,        \* skill: number of channels made; the latest is in use
  slots,       \* skill: slots taken in the channel in use
  job,         \* job: where it is, and the tries it has made
  answer,      \* job: what its caller was given
  caches,      \* skill: number of caches made; the latest is in use
  cache,       \* skill: its entries: key and time of expiry
  latest,      \* skill: the entry set last
  clock

vars == <<made, slots, job, answer, caches, cache, latest, clock>>

Kinds == {SkillOf[j] : j \in Jobs}

Init ==
  /\ made = [k \in Kinds |-> 0] /\ slots = [k \in Kinds |-> 0]
  /\ job = [j \in Jobs |-> [at |-> "idle", tries |-> 0]]
  /\ answer = [j \in Jobs |-> "none"]
  /\ caches = [k \in Kinds |-> 0] /\ cache = [k \in Kinds |-> {}]
  /\ latest = [k \in Kinds |-> {}] /\ clock = 0

Goto(j, at) == job' = [job EXCEPT ![j].at = at]
Answered(j, out) == answer' = [answer EXCEPT ![j] = IF @ = "none" THEN out ELSE @]
InFlight(k) == {j \in Jobs : SkillOf[j] = k /\ job[j].at = "request"}

-----------------------------------------------------------------------------
(* The cache *)

Live(entries) == {e \in entries : clock <= e.expires}
Hit(j) == SkillOf[j] \in Cached /\ \E e \in Live(cache[SkillOf[j]]) : e.key = KeyOf[j]

(* A full cache loses what has expired, and if that was nothing one of     *)
(* those that expire first.                                                *)
RoomFor(entries) ==
  IF Cardinality(entries) < MaxSize THEN entries
  ELSE IF Cardinality(Live(entries)) < MaxSize THEN Live(entries)
  ELSE Live(entries) \ {CHOOSE e \in Live(entries) :
                          \A f \in Live(entries) : e.expires <= f.expires}

CacheSet(k, key) ==
  LET entry == [key |-> key, expires |-> clock + Ttl]
  IN  /\ cache' = [cache EXCEPT ![k] = {e \in RoomFor(@) : e.key # key} \cup {entry}]
      /\ latest' = [latest EXCEPT ![k] = {entry}]

-----------------------------------------------------------------------------
(* doExecute *)

Uncached(j) == SkillOf[j] \in Cached /\ caches[SkillOf[j]] = 0

(* The cache is not there. *)
BeginFirst(j) ==
  /\ job[j].at = "idle" /\ Uncached(j)
  /\ Goto(j, "cache")
  /\ UNCHANGED <<made, slots, answer, caches, cache, latest, clock>>

(* Another may have been made since. *)
MakeCache(j) ==
  LET k == SkillOf[j]
  IN  /\ job[j].at = "cache"
      /\ Goto(j, "lookup")
      /\ caches' = [caches EXCEPT ![k] = @ + 1] /\ cache' = [cache EXCEPT ![k] = {}]
      /\ UNCHANGED <<made, slots, answer, latest, clock>>

(* The cache has an answer, or a slot is needed. *)
Begin(j) ==
  /\ job[j].at \in {"idle", "lookup"} /\ ~Uncached(j)
  /\ IF Hit(j) THEN Goto(j, "left") /\ Answered(j, "ok")
     ELSE /\ Goto(j, IF made[SkillOf[j]] > 0 THEN "acquire" ELSE "make")
          /\ UNCHANGED answer
  /\ UNCHANGED <<made, slots, caches, cache, latest, clock>>

(* The channel is made; under sync.Once nobody else has made one.          *)
MakeSlots(j) ==
  LET k == SkillOf[j]
  IN  /\ job[j].at = "make"
      /\ Goto(j, "acquire")
      /\ IF k \in Once /\ made[k] > 0 THEN UNCHANGED <<made, slots>>
         ELSE made' = [made EXCEPT ![k] = @ + 1] /\ slots' = [slots EXCEPT ![k] = 0]
      /\ UNCHANGED <<answer, caches, cache, latest, clock>>

Acquire(j) ==
  LET k == SkillOf[j]
  IN  /\ job[j].at = "acquire"
      /\ IF slots[k] < Limit
         THEN Goto(j, "request") /\ slots' = [slots EXCEPT ![k] = @ + 1] /\ UNCHANGED answer
         ELSE Goto(j, "left") /\ Answered(j, "limit") /\ UNCHANGED slots
      /\ UNCHANGED <<made, caches, cache, latest, clock>>

Released(k) == IF slots[k] > 0 THEN slots[k] - 1 ELSE 0

LastTry(j) == SkillOf[j] \in Cached \/ job[j].tries + 1 >= MaxRetries

(* Variant: a request that fails keeps its slot. *)
RequestEndsKeeping(j, ok) ==
  LET k == SkillOf[j]
  IN  /\ job[j].at = "request" /\ (ok \/ LastTry(j))
      /\ Goto(j, "left") /\ Answered(j, IF ok THEN "ok" ELSE "error")
      /\ slots' = IF ok THEN [slots EXCEPT ![k] = Released(k)] ELSE slots
      /\ IF ok /\ k \in Cached THEN CacheSet(k, KeyOf[j]) ELSE UNCHANGED <<cache, latest>>
      /\ UNCHANGED <<made, caches, clock>>

RequestEnds(j, ok) ==
  LET k == SkillOf[j]
  IN  /\ job[j].at = "request" /\ (ok \/ LastTry(j))
      /\ Goto(j, "left") /\ Answered(j, IF ok THEN "ok" ELSE "error")
      /\ slots' = [slots EXCEPT ![k] = Released(k)]
      /\ IF ok /\ k \in Cached THEN CacheSet(k, KeyOf[j]) ELSE UNCHANGED <<cache, latest>>
      /\ UNCHANGED <<made, caches, clock>>

(* The proxy tries a request that has failed again, with the same body.    *)
RequestRetried(j) ==
  /\ job[j].at = "request" /\ ~LastTry(j)
  /\ job' = [job EXCEPT ![j].tries = @ + 1]
  /\ UNCHANGED <<made, slots, answer, caches, cache, latest, clock>>

(* RunSandboxedWithTimeout: the caller is answered, the job goes on. *)
TimedOut(j) ==
  /\ job[j].at \in {"cache", "lookup", "make", "acquire", "request"} /\ answer[j] = "none"
  /\ Answered(j, "timeout")
  /\ UNCHANGED <<made, slots, job, caches, cache, latest, clock>>

Tick ==
  /\ clock < MaxClock /\ clock' = clock + 1
  /\ UNCHANGED <<made, slots, job, answer, caches, cache, latest>>

Next ==
  \/ \E j \in Jobs :
       \/ BeginFirst(j) \/ MakeCache(j) \/ Begin(j) \/ MakeSlots(j) \/ Acquire(j)
       \/ RequestRetried(j) \/ TimedOut(j)
       \/ \E ok \in BOOLEAN : RequestEnds(j, ok)
  \/ Tick

Spec == Init /\ [][Next]_vars

-----------------------------------------------------------------------------
(* Properties *)

(* The slots taken are those of the requests under way, timed-out ones     *)
(* included, so that none is lost when a request fails or outlives its     *)
(* caller; and no more than the limit are under way.  Where two first      *)
(* calls each made a channel the second half does not hold, but no slot    *)
(* stays taken for nobody.                                                 *)
SlotsAreRequests ==
  \A k \in Kinds :
    /\ slots[k] <= Cardinality(InFlight(k))
    /\ made[k] <= 1 => slots[k] = Cardinality(InFlight(k)) /\ slots[k] <= Limit
    /\ k \in Once => made[k] <= 1

(* A cache stays within its size, and making room in it never costs the    *)
(* entry that was stored last.  Two first calls that each make a cache do: *)
(* what was stored in the first of them is gone.                           *)
CacheKeepsLatest ==
  \A k \in Kinds : /\ Cardinality(cache[k]) <= MaxSize
                   /\ caches[k] <= 1 => latest[k] \subseteq cache[k]
=============================================================================
