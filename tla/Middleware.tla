----------------------------- MODULE Middleware -----------------------------
(***************************************************************************)
(* The chain a request passes (gateway/middleware.go, gateway/gateway.go,  *)
(* gateway/logger.go, gateway/metrics.go) and what it leaves behind.       *)
(*                                                                         *)
(* recover, firewall, rate limit, authentication, action id, ironclaw,     *)
(* access log, metrics and ledger wrap the handler, in this order; some    *)
(* paths take a short cut with recover alone.  A middleware that refuses   *)
(* answers and ends the chain; a panic of the handler passes all of them   *)
(* but recover by.  The verdicts of firewall and rate limiter are choices  *)
(* here (modules Firewall and RateLimit).  A token is the time it was      *)
(* issued at.                                                              *)
(***************************************************************************)
EXTENDS Naturals, Sequences

CONSTANTS
  Serving,         \* goroutines that serve requests
  Expiry,          \* tokenExpiry in ticks
  RefreshWindow,   \* refreshWindow in ticks
  MaxTime,         \* bound on the clock
  MaxServed        \* bound on the requests

VARIABLES
  now,
  authOn,      \* authEnabled()
  shadow,      \* SovereigntyMode = "shadow"
  issued,      \* tokens issued
  req,         \* goroutine: its request and where that is
  ledger,      \* goroutine: types of the gateway's entries that its request left
  logged,      \* goroutine: lines in the access log and the metrics
  served

vars == <<now, authOn, shadow, issued, req, ledger, logged, served>>

NoToken == 100

V1Paths == {"/v1/health", "/v1/governor/sovereignty", "/v1/governor/ratelimit",
            "/v1/token", "/v1/auth/login"}
Paths == V1Paths \cup {"/admin", "/app.js"}
Methods == {"GET", "POST", "PUT"}

V1(p) == p \in V1Paths
IsFastPath(p) == p = "/v1/health"

(* The requests that change something, by method and path. *)
IsTokenPost(q) == q.method = "POST" /\ q.path \in {"/v1/token", "/v1/auth/login"}
IsSovereigntyPost(q) == q.method = "POST" /\ q.path = "/v1/governor/sovereignty"
IsRateLimitPut(q) == q.method = "PUT" /\ q.path = "/v1/governor/ratelimit"

(* configs/ironclaw_rules.json, cut down to these paths.  The first rule   *)
(* that covers the path decides about the method.                          *)
BlockedPaths == {"/admin"}
PathRules == <<[covers |-> {"/v1/health"}, methods |-> {"GET"}],
               [covers |-> {"/v1/governor/sovereignty", "/v1/governor/ratelimit"},
                methods |-> {"GET", "POST", "PUT"}],
               [covers |-> {"/v1/token"}, methods |-> {"POST"}],
               [covers |-> {"/v1/auth/login"}, methods |-> {"POST"}]>>
DefaultAllow == TRUE

CheckPath(path, method) ==
  /\ path \notin BlockedPaths
  /\ LET covering == {i \in DOMAIN PathRules : path \in PathRules[i].covers}
     IN  IF covering = {} THEN DefaultAllow
         ELSE LET rule == PathRules[CHOOSE i \in covering : \A j \in covering : i <= j]
              IN  rule.methods = {} \/ method \in rule.methods

(* ValidateToken: one of ours, and not expired. *)
ValidateToken(t) == t \in issued /\ now <= t + Expiry

NoRequest ==
  [at |-> "idle", path |-> "/app.js", method |-> "GET", token |-> NoToken, valid |-> FALSE]

Init ==
  /\ now = 0
  /\ authOn \in BOOLEAN
  /\ shadow = FALSE
  /\ issued = {}
  /\ req = [s \in Serving |-> NoRequest]
  /\ ledger = [s \in Serving |-> <<>>]
  /\ logged = [s \in Serving |-> 0]
  /\ served = 0

Goto(s, at) == req' = [req EXCEPT ![s].at = at]
KeepRest == UNCHANGED <<now, authOn, shadow, issued, ledger, logged, served>>

(* ListenAndServeTLS: the full chain, or the minimal one. *)
Arrive(s) ==
  /\ req[s].at = "idle"
  /\ served < MaxServed
  /\ served' = served + 1
  /\ \E p \in Paths, m \in Methods, t \in issued \cup {NoToken} :
       req' = [req EXCEPT ![s] = [at |-> IF IsFastPath(p) THEN "handler" ELSE "limits",
                                  path |-> p, method |-> m, token |-> t, valid |-> FALSE]]
  /\ UNCHANGED <<now, authOn, shadow, issued, ledger, logged>>

(* Firewall.Wrap and, under /v1/, rateLimitMiddleware. *)
Limits(s) ==
  /\ req[s].at = "limits"
  /\ Goto(s, "auth") \/ Goto(s, "refused")
  /\ KeepRest

(* Variant: the token of every request is believed. *)
AuthMiddlewareUnchecked(s) ==
  /\ req[s].at = "auth"
  /\ Goto(s, "ironclaw")
  /\ KeepRest

(* authMiddleware: paths outside /v1/, the health check, the login and the *)
(* POST of /v1/token pass without a token.                                 *)
AuthMiddleware(s) ==
  /\ req[s].at = "auth"
  /\ LET q == req[s]
         free == ~authOn \/ ~V1(q.path) \/ q.path = "/v1/health" \/ IsTokenPost(q)
         valid == ValidateToken(q.token)
     IN  req' = [req EXCEPT ![s].at = IF free \/ valid THEN "ironclaw" ELSE "refused",
                            ![s].valid = valid]
  /\ KeepRest

(* ironclawMiddleware *)
Ironclaw(s) ==
  /\ req[s].at = "ironclaw"
  /\ IF (shadow /\ V1(req[s].path)) \/ ~CheckPath(req[s].path, req[s].method)
     THEN Goto(s, "refused") ELSE Goto(s, "handler")
  /\ KeepRest

Wrapped(s) == ~IsFastPath(req[s].path)

Record(s, entry) == ledger' = [ledger EXCEPT ![s] = Append(@, entry)]

(* Variant: the handler's panic is recorded by the ledger middleware too.  *)
PanicRecordedTwice(s) ==
  /\ req[s].at = "handler"
  /\ Goto(s, "answered")
  /\ ledger' = [ledger EXCEPT ![s] = @ \o IF Wrapped(s) /\ V1(req[s].path)
                                          THEN <<"request", "panic_recovered">>
                                          ELSE <<"panic_recovered">>]
  /\ UNCHANGED <<now, authOn, shadow, issued, logged, served>>

(* A handler panics: only recoverMiddleware sees it, and records it with   *)
(* no action id, since the id is in the context of the request inside.     *)
Panic(s) ==
  /\ req[s].at = "handler"
  /\ Goto(s, "answered")
  /\ Record(s, "panic_recovered")
  /\ UNCHANGED <<now, authOn, shadow, issued, logged, served>>

Return(s) == Goto(s, IF Wrapped(s) THEN "ledger" ELSE "answered")

(* handleAuthLogin and handleToken issue a token or refuse. *)
HandleToken(s) ==
  /\ req[s].at = "handler" /\ IsTokenPost(req[s])
  /\ issued' = issued \cup {now} \/ UNCHANGED issued
  /\ Return(s)
  /\ UNCHANGED <<now, authOn, shadow, ledger, logged, served>>

(* handleSovereigntyPost sets the mode, or refuses the body.  The entry of *)
(* the switch is the governor's (module Sovereignty).                      *)
HandleSovereigntyPost(s) ==
  /\ req[s].at = "handler" /\ IsSovereigntyPost(req[s])
  /\ shadow' \in BOOLEAN
  /\ Return(s)
  /\ UNCHANGED <<now, authOn, issued, ledger, logged, served>>

(* handleRateLimitPut replaces the limits and records that in the name of  *)
(* the gateway, or refuses the body.                                       *)
HandleRateLimitPut(s) ==
  /\ req[s].at = "handler" /\ IsRateLimitPut(req[s])
  /\ Record(s, "ratelimit_update") \/ UNCHANGED ledger
  /\ Return(s)
  /\ UNCHANGED <<now, authOn, shadow, issued, logged, served>>

(* Every other handler returns. *)
HandleOther(s) ==
  /\ req[s].at = "handler"
  /\ ~IsTokenPost(req[s]) /\ ~IsSovereigntyPost(req[s]) /\ ~IsRateLimitPut(req[s])
  /\ Return(s)
  /\ KeepRest

(* ledgerMiddleware, metricsMiddleware and loggerMiddleware, on the way    *)
(* back.                                                                   *)
LedgerMiddleware(s) ==
  /\ req[s].at = "ledger"
  /\ Goto(s, "answered")
  /\ IF V1(req[s].path) THEN Record(s, "request") ELSE UNCHANGED ledger
  /\ logged' = [logged EXCEPT ![s] = @ + 1]
  /\ UNCHANGED <<now, authOn, shadow, issued, served>>

Done(s) ==
  /\ req[s].at \in {"answered", "refused"}
  /\ req' = [req EXCEPT ![s] = NoRequest]
  /\ ledger' = [ledger EXCEPT ![s] = <<>>]
  /\ logged' = [logged EXCEPT ![s] = 0]
  /\ UNCHANGED <<now, authOn, shadow, issued, served>>

(* RefreshToken: a valid token issued within the refresh window gives a    *)
(* new one.  A token expires long before the window ends.                  *)
Refresh(t) ==
  /\ ValidateToken(t) /\ now <= t + RefreshWindow
  /\ issued' = issued \cup {now}
  /\ UNCHANGED <<now, authOn, shadow, req, ledger, logged, served>>

Tick ==
  /\ now < MaxTime
  /\ now' = now + 1
  /\ UNCHANGED <<authOn, shadow, issued, req, ledger, logged, served>>

Next ==
  \/ \E s \in Serving : \/ Arrive(s) \/ Limits(s) \/ AuthMiddleware(s) \/ Ironclaw(s)
                        \/ Panic(s) \/ HandleToken(s) \/ HandleSovereigntyPost(s)
                        \/ HandleRateLimitPut(s) \/ HandleOther(s)
                        \/ LedgerMiddleware(s) \/ Done(s)
  \/ \E t \in issued : Refresh(t)
  \/ Tick

Spec == Init /\ [][Next]_vars

-----------------------------------------------------------------------------
(* What a handler may have recorded as the gateway itself. *)
OwnEntries(q) == {<<>>} \cup IF IsRateLimitPut(q) THEN {<<"ratelimit_update">>} ELSE {}

(* What a request has left behind when it was refused, and when it was     *)
(* answered behind the full chain.                                         *)
LeftBehind(q, entries, lines) ==
  /\ q.at = "refused" => entries = <<>> /\ lines = 0
  /\ q.at = "answered" /\ ~IsFastPath(q.path) =>
       \/ entries = <<"panic_recovered">> /\ lines = 0
       \/ \E own \in OwnEntries(q) :
            /\ entries = IF V1(q.path) THEN Append(own, "request") ELSE own
            /\ lines = 1

(* A request that was refused left no entry of the gateway in the ledger.  *)
(* One whose handler panicked left that entry alone and no line in the     *)
(* access log; one whose handler returned left one line and, under /v1/,   *)
(* one entry of the request, behind the one that a change of the limits    *)
(* makes of itself.                                                        *)
RecordedOnce == \A s \in Serving : LeftBehind(req[s], ledger[s], logged[s])

(* Where authentication is on, a handler under /v1/ behind the full chain  *)
(* runs only for a request that showed a token of ours before it expired,  *)
(* or for one of the two POSTs that hand out tokens to whoever asks.       *)
HandlersAuthenticated ==
  \A s \in Serving :
    authOn /\ req[s].at \in {"handler", "ledger"} /\ Wrapped(s) /\ V1(req[s].path)
      => IsTokenPost(req[s]) \/ req[s].valid
=============================================================================
