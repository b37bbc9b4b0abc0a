----------------------------- MODULE MCGateway -----------------------------
(***************************************************************************)
(* The modules of the gateway and the governor, side by side.  They share  *)
(* no state, so a behavior is one of a single module, the one that `part'  *)
(* names, and the number of states is the sum and not the product of       *)
(* theirs.  Chats are those of the module ChatHandler, which this one      *)
(* extends.                                                                *)
(***************************************************************************)
EXTENDS ChatHandler, TLC

CONSTANTS
  Goroutines,   \* goroutines that serve other requests
  Addresses,    \* addresses requests come from, and goroutines that send
  MaxPosts, MaxSends,                        \* of Sovereignty
  MaxSwitches,                               \* of SovereigntyMachine
  SkillPaths, Configs, RateTime, MaxAsked, MaxPuts,               \* of RateLimit
  MaxRequestsPerIP, BanDuration, WallTime, MaxRequests,      \* of Firewall
  Expiry, RefreshWindow, ChainTime, MaxServed                \* of Middleware

VARIABLES
  part,
  rules, clientMode, clientDomains, gatewayMode, post, send,
  switched, recorded, overlapped, posts, sends,
  state, broadcast, switches,
  rateNow, limits, bucket, toAsk, config, toReplace, granted, asked, puts,
  wallNow, ipCounts, ipBans, conn, passed, bans, refused, requests,
  chainNow, authOn, shadow, issued, req, ledger, logged, served

sovVars == <<rules, clientMode, clientDomains, gatewayMode, post, send,
             switched, recorded, overlapped, posts, sends>>
machineVars == <<state, broadcast, switches>>
rateVars == <<rateNow, limits, bucket, toAsk, config, toReplace, granted, asked, puts>>
wallVars == <<wallNow, ipCounts, ipBans, conn, passed, bans, refused, requests>>
chainVars == <<chainNow, authOn, shadow, issued, req, ledger, logged, served>>
chatVars == vars

Sov == INSTANCE Sovereignty WITH Posts <- Goroutines, Senders <- Addresses
Machine == INSTANCE SovereigntyMachine
Rate == INSTANCE RateLimit WITH
          Clients <- Goroutines, Paths <- SkillPaths, MaxTime <- RateTime, now <- rateNow
Wall == INSTANCE Firewall WITH
          Conns <- Goroutines, Addrs <- Addresses, MaxTime <- WallTime, now <- wallNow
Chain == INSTANCE Middleware WITH
           Serving <- Goroutines, MaxTime <- ChainTime, now <- chainNow

(* The goroutines are finitely many, and limits are numbers.               *)
ASSUME GatewayAssumption ==
  /\ IsFiniteSet(Goroutines) /\ IsFiniteSet(Chatters)
  /\ PerUserConcurrency \in Nat /\ PerSkillQPS \in Nat /\ MaxQPS \in Nat
  /\ MaxRequestsPerIP \in Nat
  /\ Rate!Parameters

-----------------------------------------------------------------------------
(* The process starts in airlock mode, as configs/sovereignty.json says.   *)
(* What the other modules may start with is chosen where they run.         *)
GatewayInit ==
  /\ part \in {"sovereignty", "machine", "rate", "wall", "chain", "chats"}
  /\ Sov!Init /\ clientMode = "airlock"
  /\ part # "sovereignty" => rules = {} /\ clientDomains = {}
  /\ Machine!Init
  /\ Rate!Init
  /\ part # "rate" => limits = CHOOSE l \in Configs : TRUE
  /\ Wall!Init
  /\ Chain!Init
  /\ part # "chain" => authOn
  /\ Init

SovereigntyStep == part = "sovereignty" /\ Sov!Next
  /\ UNCHANGED <<part, machineVars, rateVars, wallVars, chainVars, chatVars>>
MachineStep == part = "machine" /\ Machine!Next
  /\ UNCHANGED <<part, sovVars, rateVars, wallVars, chainVars, chatVars>>
RateStep == part = "rate" /\ Rate!Next
  /\ UNCHANGED <<part, sovVars, machineVars, wallVars, chainVars, chatVars>>
WallStep == part = "wall" /\ Wall!Next
  /\ UNCHANGED <<part, sovVars, machineVars, rateVars, chainVars, chatVars>>
ChainStep == part = "chain" /\ Chain!Next
  /\ UNCHANGED <<part, sovVars, machineVars, rateVars, wallVars, chatVars>>
ChatStep == part = "chats" /\ Next
  /\ UNCHANGED <<part, sovVars, machineVars, rateVars, wallVars, chainVars>>

GatewayNext ==
  SovereigntyStep \/ MachineStep \/ RateStep \/ WallStep \/ ChainStep \/ ChatStep

gatewayVars == <<part, sovVars, machineVars, rateVars, wallVars, chainVars, chatVars>>

GatewaySpec == GatewayInit /\ [][GatewayNext]_gatewayVars

-----------------------------------------------------------------------------
(* Properties, stated in the modules *)

(* No outbound request is decided by a mixture of two modes, and the two   *)
(* checks of outbound requests agree (governor/client.go,                  *)
(* governor/sovereignty.go).                                               *)
OutboundAsChecked ==
  /\ part = "sovereignty" => Sov!DecidedAsInForce
  /\ part = "machine" => Machine!ChecksAgree

(* Every switch of the mode is recorded, and POSTs that do not overlap     *)
(* leave both copies of the mode equal (gateway/handlers.go).              *)
SwitchesKept == part = "sovereignty" => Sov!SwitchesRecorded /\ Sov!ModesAgree

(* Token buckets keep their rate across refills and PUTs, and the firewall *)
(* lets at most two windows through in a second (governor/ratelimit.go,    *)
(* governor/firewall.go).                                                  *)
AdmissionBounded ==
  /\ part = "rate" => Rate!RateRespected
  /\ part = "wall" => Wall!AtMostTwoWindows

(* A request passes authentication before its handler, unless it asks for  *)
(* a token, and is accounted for in ledger and access log once, however    *)
(* the handler ends (gateway/middleware.go, gateway/gateway.go).           *)
RequestsAccounted == part = "chain" => Chain!RecordedOnce /\ Chain!HandlersAuthenticated

(* A chat takes one place of its user and gives it back however it ends,   *)
(* within the windows of quota and policy (gateway/handlers_chat.go,       *)
(* governor/quota.go, governor/ironclaw/ironclaw.go).                      *)
ConversationsBounded == part = "chats" => PlacesTaken /\ WindowsKept
-----------------------------------------------------------------------------
(* A small instance *)

Limit(rate, burst) == [rate |-> rate, burst |-> burst]

(* Limits that differ, and limits of zero, which count as one. *)
MCConfigs == {[global |-> Limit(2, 3), user |-> Limit(1, 2), path |-> Limit(1, 1)],
              [global |-> Limit(1, 1), user |-> Limit(0, 0), path |-> Limit(2, 2)]}

Symmetry == Permutations(Goroutines) \cup Permutations(Chatters)
=============================================================================
