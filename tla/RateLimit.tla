----------------------------- MODULE RateLimit -----------------------------
(***************************************************************************)
(* The token buckets in front of the API (governor/ratelimit.go), asked by *)
(* rateLimitMiddleware and replaced by PUT /v1/governor/ratelimit.         *)
(*                                                                         *)
(* A request takes a token from the global bucket, from the bucket of its  *)
(* user, who is "default" for all of them, and from the bucket of its      *)
(* path, one after the other; a token taken is not given back when a later *)
(* bucket refuses.  Time passes in ticks; a token is worth Second, so that *)
(* a bucket gains its rate per tick.                                       *)
(***************************************************************************)
EXTENDS Integers, Sequences, FiniteSetsExt

CONSTANTS
  Clients,     \* goroutines that serve requests
  Paths,       \* what perSkill keys its buckets with
  Second,      \* ticks per second
  Configs,     \* RateLimitConfigs: [global, user, path] -> [rate, burst]
  MaxTime,     \* bound on the clock
  MaxAsked,    \* bound on the requests
  MaxPuts      \* bound on the PUTs

VARIABLES
  now,
  limits,      \* kind of bucket: the limits it is created with
  bucket,      \* key: its bucket, or Absent
  toAsk,       \* client: the buckets its request has yet to take a token from
  config,      \* the configuration of the last PUT
  toReplace,   \* the kinds of bucket it has yet to replace
  granted,     \* key: when its present bucket granted a token
  asked, puts

putVars == <<limits, config, toReplace, puts>>
vars == <<now, bucket, toAsk, granted, asked, putVars>>

(* RateLimitConfig: its numbers may be negative, its rates are whole. *)
Kinds == {"global", "user", "path"}
Limits == [Kinds -> [rate : Int, burst : Int]]

(* What the constants are assumed to be; the last line keeps the names of  *)
(* the three kinds of buckets apart.                                       *)
Parameters ==
  /\ Second \in Nat \ {0}
  /\ Configs \subseteq Limits
  /\ "global" \notin Paths /\ "user" \notin Paths

Keys == {"global", "user"} \cup Paths
Kind(k) == IF k \in Paths THEN "path" ELSE k
Absent == [capacity |-> 0, tokens |-> 0, rate |-> 0, last |-> 0]

(* NewTokenBucket *)
NewTokenBucket(l) ==
  LET capacity == Second * Max({l.burst, 1})
  IN  [capacity |-> capacity, tokens |-> capacity, rate |-> Max({l.rate, 1}), last |-> now]

(* LoadRateLimitConfig, NewTripleRateLimiter *)
Init ==
  /\ now = 0
  /\ limits \in Configs
  /\ bucket = [k \in Keys |-> IF k = "global" THEN NewTokenBucket(limits["global"]) ELSE Absent]
  /\ toAsk = [c \in Clients |-> <<>>]
  /\ config = limits
  /\ toReplace = <<>>
  /\ granted = [k \in Keys |-> <<>>]
  /\ asked = 0
  /\ puts = 0

(* rateLimitMiddleware: a request under /v1/ begins. *)
Ask(c) ==
  /\ toAsk[c] = <<>>
  /\ asked < MaxAsked
  /\ asked' = asked + 1
  /\ \E p \in Paths : toAsk' = [toAsk EXCEPT ![c] = <<"global", "user", p>>]
  /\ UNCHANGED <<now, bucket, granted, putVars>>

(* RateLimitMap.Allow creates the bucket of a key it does not know. *)
Found(k) == IF bucket[k] = Absent THEN NewTokenBucket(limits[Kind(k)]) ELSE bucket[k]

(* Variant: what a bucket gains is not capped. *)
RefilledUncapped(b) == [b EXCEPT !.tokens = @ + (now - b.last) * b.rate, !.last = now]

Refilled(b) ==
  [capacity |-> b.capacity, rate |-> b.rate, last |-> now,
   tokens |-> Min({b.capacity, b.tokens + (now - b.last) * b.rate})]

(* TokenBucket.Allow of the next bucket: a token and on to the bucket      *)
(* after it, or 429.                                                       *)
Allow(c) ==
  /\ toAsk[c] # <<>>
  /\ LET k == Head(toAsk[c])
         b == Refilled(Found(k))
     IN  IF b.tokens >= Second
         THEN /\ bucket' = [bucket EXCEPT ![k] = [b EXCEPT !.tokens = @ - Second]]
              /\ granted' = [granted EXCEPT ![k] = Append(@, now)]
              /\ toAsk' = [toAsk EXCEPT ![c] = Tail(@)]
         ELSE /\ bucket' = [bucket EXCEPT ![k] = b]
              /\ toAsk' = [toAsk EXCEPT ![c] = <<>>]
              /\ UNCHANGED granted
  /\ UNCHANGED <<now, asked, putVars>>

(* handleRateLimitPut: the configuration is the file's, with what the      *)
(* request gives.                                                          *)
Put ==
  /\ toReplace = <<>>
  /\ puts < MaxPuts
  /\ puts' = puts + 1
  /\ config' \in Configs
  /\ toReplace' = <<"global", "user", "path">>
  /\ UNCHANGED <<now, bucket, toAsk, granted, asked, limits>>

(* UpdateConfig replaces the three limiters one after the other, while     *)
(* requests go on.                                                         *)
UpdateConfig ==
  /\ toReplace # <<>>
  /\ LET kind == Head(toReplace)
         replaced == {k \in Keys : Kind(k) = kind}
     IN  /\ limits' = [limits EXCEPT ![kind] = config[kind]]
         /\ bucket' = [k \in Keys |->
              CASE k \notin replaced -> bucket[k]
                [] k \in replaced /\ k = "global" -> NewTokenBucket(config[k])
                [] OTHER -> Absent]
         /\ granted' = [k \in Keys |-> IF k \in replaced THEN <<>> ELSE granted[k]]
  /\ toReplace' = Tail(toReplace)
  /\ UNCHANGED <<now, toAsk, asked, config, puts>>

Tick ==
  /\ now < MaxTime
  /\ now' = now + 1
  /\ UNCHANGED <<bucket, toAsk, granted, asked, putVars>>

Next == (\E c \in Clients : Ask(c) \/ Allow(c)) \/ Put \/ UpdateConfig \/ Tick

Spec == Init /\ [][Next]_vars

-----------------------------------------------------------------------------
(* Properties *)

TypeOK ==
  /\ now \in 0..MaxTime
  /\ config \in Configs
  /\ \A k \in Keys : bucket[k].tokens \in 0..bucket[k].capacity /\ bucket[k].last \in 0..now
  /\ \A c \in Clients : toAsk[c] \in Seq(Keys)
  /\ asked \in 0..MaxAsked

(* Whatever a bucket grants, from its i-th to its j-th grant it grants no  *)
(* more than its burst and what it gains in the time between, in whichever *)
(* order requests come (TokenBucket.Allow).                                *)
RateRespected ==
  \A k \in Keys : \A i, j \in DOMAIN granted[k] :
    i <= j => Second * (j - i + 1)
                <= bucket[k].capacity + bucket[k].rate * (granted[k][j] - granted[k][i])
=============================================================================
