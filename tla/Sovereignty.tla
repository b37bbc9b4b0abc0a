---------------------------- MODULE Sovereignty ----------------------------
(***************************************************************************)
(* The sovereignty mode of a running process (governor/client.go,          *)
(* gateway/handlers.go, gateway/middleware.go): POSTs that switch it and   *)
(* outbound requests that are checked against it.                          *)
(*                                                                         *)
(* The mode exists twice: clientMode with clientDomains, under a mutex,    *)
(* decides about outbound requests; gateway.SovereigntyMode, a plain       *)
(* variable, decides whether the gateway answers at all.  A POST passes    *)
(* the gateway's check, sets the first copy, records the switch and sets   *)
(* the second copy, in four steps.  An outbound request reads the first    *)
(* copy once and is checked, and sent, later.                              *)
(***************************************************************************)
EXTENDS SovereigntyRules, FiniteSets

CONSTANTS
  Posts,      \* goroutines that serve POST /v1/governor/sovereignty
  Senders,    \* goroutines that send requests through SecureClient
  MaxPosts,   \* bound on the POSTs
  MaxSends    \* bound on the outbound requests

VARIABLES
  rules,        \* sovereigntyRules
  clientMode, clientDomains,
  gatewayMode,  \* gateway.SovereigntyMode
  post,         \* POST: where it is and what it switches to
  send,         \* outbound request: where it is, what it read, and the pairs
                \* of mode and domains in force since it began
  switched,     \* mode: switches of clientMode to it
  recorded,     \* mode: sovereignty_switch entries in the ledger
  overlapped,   \* two POSTs have been past the gateway's check at once
  posts, sends

clientVars == <<rules, clientMode, clientDomains>>
postVars == <<post, gatewayMode, switched, recorded, overlapped, posts>>
sendVars == <<send, sends>>
vars == <<clientVars, postVars, sendVars>>

Rule(type, match, action, when) ==
  [type |-> type, match |-> match, action |-> action, when |-> when]

(* configs/sovereignty.json: the domains of its modes, and its rules with   *)
(* two more, so that every type of rule is there.                           *)
ConfiguredRules == {Rule("mode", "shadow", "deny", ""),
                    Rule("domain", "any", "allow", "opensea"),
                    Rule("domain", "deepseek", "allow", ""),
                    Rule("domain", "suffix", "allow", ""),
                    Rule("port", 8443, "deny", "airlock"),
                    Rule("scheme", "http", "deny", "airlock")}
ConfiguredDomains ==
  [shadow |-> {}, airlock |-> {"deepseek", "suffix"}, opensea |-> {"any"}]

(* LoadSovereigntyConfig: rules and modes, modes alone, or no file. *)
LoadSovereigntyConfig(mode) ==
  {<<ConfiguredRules, ConfiguredDomains[mode]>>, <<{}, ConfiguredDomains[mode]>>, <<{}, {}>>}

IdlePost == [at |-> "idle", mode |-> "airlock", domains |-> {}]

Request(at, dest, mode, domains, inForce) ==
  [at |-> at, dest |-> dest, mode |-> mode, domains |-> domains, inForce |-> inForce]
NoDest == [host |-> "searx", port |-> 0, scheme |-> ""]
IdleSend == Request("idle", NoDest, "airlock", {}, {})

(* main: InitSecureClient and the gateway's copy. *)
Init ==
  /\ clientMode \in Modes
  /\ \E loaded \in LoadSovereigntyConfig(clientMode) :
       rules = loaded[1] /\ clientDomains = loaded[2]
  /\ gatewayMode = clientMode
  /\ post = [p \in Posts |-> IdlePost]
  /\ send = [s \in Senders |-> IdleSend]
  /\ switched = [m \in Modes |-> 0]
  /\ recorded = [m \in Modes |-> 0]
  /\ overlapped = FALSE
  /\ posts = 0
  /\ sends = 0

-----------------------------------------------------------------------------
(* handleSovereigntyPost, behind ironclawMiddleware *)

PastCheck(p) == post[p].at # "idle"

(* The middleware lets no request through while the gateway is in shadow   *)
(* mode, and the handler refuses what is no mode; neither leaves a trace.  *)
PassGateway(p) ==
  /\ post[p].at = "idle"
  /\ posts < MaxPosts
  /\ gatewayMode # "shadow"
  /\ \E m \in Modes, ds \in {{}, {"any"}} :
       post' = [post EXCEPT ![p] = [at |-> "checked", mode |-> m, domains |-> ds]]
  /\ posts' = posts + 1
  /\ overlapped' = (overlapped \/ \E q \in Posts : PastCheck(q))
  /\ UNCHANGED <<clientVars, gatewayMode, switched, recorded, sendVars>>

(* Every outbound request in progress sees the new pair, if it looks. *)
NowInForce(m, ds) ==
  send' = [s \in Senders |-> IF send[s].at \in {"begun", "read"}
             THEN [send[s] EXCEPT !.inForce = @ \cup {<<m, ds>>}] ELSE send[s]]

(* Variant: the old mode is read before the lock is taken, at the check. *)
SetSovereigntyModeUnlocked(p) ==
  /\ post[p].at = "checked"
  /\ clientMode' = post[p].mode
  /\ clientDomains' = post[p].domains
  /\ switched' = [switched EXCEPT ![post[p].mode] =
                    IF clientMode # post[p].mode THEN @ + 1 ELSE @]
  /\ post' = [post EXCEPT ![p].at = IF gatewayMode # post[p].mode THEN "changed" ELSE "set"]
  /\ NowInForce(post[p].mode, post[p].domains)
  /\ UNCHANGED <<rules, gatewayMode, recorded, overlapped, posts, sends>>

(* SetSovereigntyMode, as far as it holds the mutex. *)
SetSovereigntyMode(p) ==
  /\ post[p].at = "checked"
  /\ clientMode' = post[p].mode
  /\ clientDomains' = post[p].domains
  /\ switched' = [switched EXCEPT ![post[p].mode] =
                    IF clientMode # post[p].mode THEN @ + 1 ELSE @]
  /\ post' = [post EXCEPT ![p].at = IF clientMode # post[p].mode THEN "changed" ELSE "set"]
  /\ NowInForce(post[p].mode, post[p].domains)
  /\ UNCHANGED <<rules, gatewayMode, recorded, overlapped, posts, sends>>

RecordSwitch(p) ==
  /\ post[p].at = "changed"
  /\ recorded' = [recorded EXCEPT ![post[p].mode] = @ + 1]
  /\ post' = [post EXCEPT ![p].at = "set"]
  /\ UNCHANGED <<clientVars, gatewayMode, switched, overlapped, posts, sendVars>>

(* Variant: the gateway keeps the mode it had. *)
SetGatewayModeForgotten(p) ==
  /\ post[p].at = "set"
  /\ post' = [post EXCEPT ![p] = IdlePost]
  /\ UNCHANGED <<clientVars, gatewayMode, switched, recorded, overlapped, posts,
                 sendVars>>

SetGatewayMode(p) ==
  /\ post[p].at = "set"
  /\ gatewayMode' = post[p].mode
  /\ post' = [post EXCEPT ![p] = IdlePost]
  /\ UNCHANGED <<clientVars, switched, recorded, overlapped, posts, sendVars>>

-----------------------------------------------------------------------------
(* sovereigntyTransport.RoundTrip *)

BeginSend(s) ==
  /\ send[s].at = "idle"
  /\ sends < MaxSends
  /\ send' = [send EXCEPT ![s] = Request("begun", NoDest, "airlock", {},
                                         {<<clientMode, clientDomains>>})]
  /\ sends' = sends + 1
  /\ UNCHANGED <<clientVars, postVars>>

(* Variant: the mode and the domains are read under two locks. *)
ReadModeTorn(s) ==
  /\ send[s].at = "begun"
  /\ \E pair \in send[s].inForce, d \in Dests :
       send' = [send EXCEPT ![s] = Request("read", d, pair[1], clientDomains, @.inForce)]
  /\ UNCHANGED <<clientVars, postVars, sends>>

(* The destination is chosen where it is first looked at. *)
ReadMode(s) ==
  /\ send[s].at = "begun"
  /\ \E d \in Dests :
       send' = [send EXCEPT ![s] = Request("read", d, clientMode, clientDomains, @.inForce)]
  /\ UNCHANGED <<clientVars, postVars, sends>>

Decision(s) == Allowed(rules, send[s].dest, send[s].mode, send[s].domains)

(* What is allowed is handed to the network. *)
Send(s) ==
  /\ send[s].at = "read"
  /\ Decision(s)
  /\ send' = [send EXCEPT ![s].at = "sent"]
  /\ UNCHANGED <<clientVars, postVars, sends>>

(* What is not is recorded as blocked and answered with an error. *)
Block(s) ==
  /\ send[s].at = "read"
  /\ ~Decision(s)
  /\ send' = [send EXCEPT ![s].at = "blocked"]
  /\ UNCHANGED <<clientVars, postVars, sends>>

Return(s) ==
  /\ send[s].at \in {"sent", "blocked"}
  /\ send' = [send EXCEPT ![s] = IdleSend]
  /\ UNCHANGED <<clientVars, postVars, sends>>

-----------------------------------------------------------------------------
Post(p) ==
  PassGateway(p) \/ SetSovereigntyMode(p) \/ RecordSwitch(p) \/ SetGatewayMode(p)
RoundTrip(s) == BeginSend(s) \/ ReadMode(s) \/ Send(s) \/ Block(s) \/ Return(s)

Next == (\E p \in Posts : Post(p)) \/ (\E s \in Senders : RoundTrip(s))

Spec == Init /\ [][Next]_vars

-----------------------------------------------------------------------------
(* Properties *)

(* An outbound request is sent only if one pair of mode and domains that   *)
(* was in force at some moment since it began allows it, and blocked only  *)
(* if one forbids it: never because of a mixture of two pairs (RoundTrip   *)
(* reads both under one lock).                                             *)
DecidedAsInForce ==
  \A s \in Senders :
    /\ send[s].at = "sent" =>
         \E f \in send[s].inForce : Allowed(rules, send[s].dest, f[1], f[2])
    /\ send[s].at = "blocked" =>
         \E f \in send[s].inForce : ~Allowed(rules, send[s].dest, f[1], f[2])

(* Every change of the client's mode is in the ledger once, or about to be *)
(* recorded by the POST that made it, and nothing else is.                 *)
SwitchesRecorded ==
  \A m \in Modes :
    switched[m] = recorded[m]
                  + Cardinality({p \in Posts : post[p].at = "changed" /\ post[p].mode = m})

(* When no POST is in progress and none ever overlapped another, the       *)
(* gateway and the client are in one mode.  (Overlapping POSTs can leave   *)
(* them in two for good: the hazard at gateway/handlers.go:97.)            *)
ModesAgree ==
  ~overlapped /\ (\A p \in Posts : ~PastCheck(p)) => gatewayMode = clientMode

(* Not a promise but what the code does: README.md:57 and docs/api.md:17   *)
(* offer the POST to switch among the modes, and once the gateway is in    *)
(* shadow mode with no POST past its check, that is for good, since the    *)
(* check refuses the POST that would end it.                               *)
Locked == gatewayMode = "shadow" /\ \A p \in Posts : ~PastCheck(p)

ShadowStays == [][Locked => Locked' /\ UNCHANGED clientMode]_vars
=============================================================================
