-------------------------------- MODULE Cron --------------------------------
(***************************************************************************)
(* CronStore (architect/cron.go): a loop that wakes up every minute and    *)
(* starts a goroutine for each job that is due, until it is stopped.  The  *)
(* ticker's channel holds one tick and drops what comes while it is full;  *)
(* a tick carries the time it was sent at.                                 *)
(***************************************************************************)
EXTENDS Naturals, Sequences, SequencesExt, FiniteSets

CONSTANTS
  Jobs,
  Expr,             \* job: its expression, [fields, min, hour]
  Star,             \* the field "*"
  MinutesPerHour, HoursPerDay,
  MaxMinutes,       \* bound on the clock
  None              \* no tick

VARIABLES
  minute,
  tick,             \* the ticker's channel
  stopped, loop,
  running,          \* executions in progress: a job and the tick it was due at
  begun,            \* job: the ticks it was started at
  dropped, polled   \* the ticks that were dropped; the tick polled last

vars == <<minute, tick, stopped, loop, running, begun, dropped, polled>>

(* Day, month and day of week are not looked at. *)
MatchCron(expr, now) ==
  /\ expr.fields >= 5
  /\ expr.min \in {Star, now % MinutesPerHour}
  /\ expr.hour \in {Star, (now \div MinutesPerHour) % HoursPerDay}

Init ==
  /\ minute = 0 /\ tick = None
  /\ stopped = FALSE /\ loop = "run"
  /\ running = {} /\ begun = [j \in Jobs |-> <<>>]
  /\ dropped = {} /\ polled = 0

Tick ==
  /\ minute < MaxMinutes /\ loop = "run"
  /\ minute' = minute + 1
  /\ IF tick = None THEN tick' = minute + 1 /\ UNCHANGED dropped
                    ELSE dropped' = dropped \cup {minute + 1} /\ UNCHANGED tick
  /\ UNCHANGED <<stopped, loop, running, begun, polled>>

Begin(now) ==
  LET due == {j \in Jobs : MatchCron(Expr[j], now)}
  IN  /\ running' = running \cup {<<j, now>> : j \in due}
      /\ begun' = [j \in Jobs |-> IF j \in due THEN Append(begun[j], now) ELSE begun[j]]

(* Variant: what is due is looked up for the present minute. *)
PollAtPresent ==
  /\ loop = "run" /\ tick # None
  /\ Begin(minute)
  /\ tick' = None /\ polled' = tick
  /\ UNCHANGED <<minute, stopped, loop, dropped>>

(* Both cases of the select may be ready; a poll after Stop is possible.   *)
Poll ==
  /\ loop = "run" /\ tick # None
  /\ Begin(tick)
  /\ tick' = None /\ polled' = tick
  /\ UNCHANGED <<minute, stopped, loop, dropped>>

LoopEnds ==
  /\ loop = "run" /\ stopped
  /\ loop' = "left"
  /\ UNCHANGED <<minute, tick, stopped, running, begun, dropped, polled>>

(* The signal goroutine of main calls Stop, once. *)
Stop ==
  /\ ~stopped /\ stopped' = TRUE
  /\ UNCHANGED <<minute, tick, loop, running, begun, dropped, polled>>

(* ExecuteSkill returns, with an answer or refused; nobody looks at it.    *)
ExecuteSkill(x) ==
  /\ running' = running \ {x}
  /\ UNCHANGED <<minute, tick, stopped, loop, begun, dropped, polled>>

Next == Tick \/ Poll \/ LoopEnds \/ Stop \/ \E x \in running : ExecuteSkill(x)

(* A select does not pass over a case that stays ready for ever. *)
Spec == Init /\ [][Next]_vars /\ WF_vars(LoopEnds)

-----------------------------------------------------------------------------
(* Properties *)

(* A job has begun once in every minute it was due in, in order, except    *)
(* where the ticker dropped the tick because the loop was late: lateness   *)
(* costs a minute, but neither doubles nor shifts another.                 *)
OncePerDueMinute ==
  \A j \in Jobs :
    /\ ToSet(begun[j]) = {m \in (1..polled) \ dropped : MatchCron(Expr[j], m)}
    /\ \A h, i \in DOMAIN begun[j] : h < i => begun[j][h] < begun[j][i]

(* Once Stop was called the loop ends. *)
StopEndsLoop == stopped ~> loop = "left"
=============================================================================
