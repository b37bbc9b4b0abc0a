------------------------- MODULE SovereigntyProofs -------------------------
(***************************************************************************)
(* Sovereignty, for any goroutines that serve POSTs or send requests and   *)
(* any number of both: outbound requests are decided by a pair of mode and *)
(* domains that was in force, both copies of the mode agree when POSTs do  *)
(* not overlap, every switch is recorded, and shadow mode stays.           *)
(***************************************************************************)
EXTENDS Sovereignty, FiniteSetTheorems, TLAPS

Domains == SUBSET DOMAIN Covers
Pairs == Modes \X Domains

PostRecords == [at : {"idle", "checked", "changed", "set"}, mode : Modes, domains : Domains]
SendRecords == [at : {"idle", "begun", "read", "sent", "blocked"}, dest : Dests,
                mode : Modes, domains : Domains, inForce : SUBSET Pairs]

(* The types the arguments below rest on.                                  *)
Types ==
  /\ clientMode \in Modes /\ clientDomains \in Domains /\ gatewayMode \in Modes
  /\ post \in [Posts -> PostRecords]
  /\ send \in [Senders -> SendRecords]
  /\ switched \in [Modes -> Nat] /\ recorded \in [Modes -> Nat]
  /\ overlapped \in BOOLEAN

(* What a request in progress has read is among what was in force; before  *)
(* it looks, the present pair is.                                          *)
ReadInForce ==
  \A s \in Senders :
    /\ send[s].at = "begun" => <<clientMode, clientDomains>> \in send[s].inForce
    /\ send[s].at \in {"read", "sent", "blocked"} =>
         <<send[s].mode, send[s].domains>> \in send[s].inForce
    /\ send[s].at = "sent" => Decision(s)
    /\ send[s].at = "blocked" => ~Decision(s)

(* As long as no two POSTs overlapped, at most one is past the check, and  *)
(* how far the two copies have come apart is where that one is.            *)
OnePost ==
  ~overlapped =>
    /\ \A p, q \in Posts : PastCheck(p) /\ PastCheck(q) => p = q
    /\ \A p \in Posts :
         /\ post[p].at = "checked" => gatewayMode = clientMode
         /\ post[p].at \in {"changed", "set"} => clientMode = post[p].mode
    /\ (\A p \in Posts : ~PastCheck(p)) => gatewayMode = clientMode

-----------------------------------------------------------------------------
LEMMA Patterns == DOMAIN Covers = {"any", "deepseek", "suffix"}
BY DEF Covers

LEMMA RequestType ==
  ASSUME NEW a \in {"idle", "begun", "read", "sent", "blocked"}, NEW d \in Dests,
         NEW m \in Modes, NEW ds \in Domains, NEW f \in SUBSET Pairs
  PROVE  Request(a, d, m, ds, f) \in SendRecords
BY DEF Request, SendRecords

LEMMA IdleTypes == /\ IdlePost \in PostRecords /\ IdleSend \in SendRecords
                   /\ NoDest \in Dests /\ "airlock" \in Modes /\ {} \in Domains
<1>1. {} \in Domains /\ {} \in SUBSET Pairs
  BY DEF Domains
<1>2. "airlock" \in Modes
  BY DEF Modes
<1>3. NoDest \in Dests
  BY DEF NoDest, Dests, Hosts
<1>4. IdlePost \in PostRecords
  BY <1>1, <1>2 DEF IdlePost, PostRecords
<1>5. QED
  BY <1>1, <1>2, <1>3, <1>4, RequestType DEF IdleSend

(* A request that moves on stays one. *)
LEMMA SendMoves ==
  ASSUME NEW r \in SendRecords, NEW a \in {"idle", "begun", "read", "sent", "blocked"}
  PROVE  [r EXCEPT !.at = a] \in SendRecords
BY DEF SendRecords

LEMMA TypesInit == Init => Types
<1> SUFFICES ASSUME Init PROVE Types
  OBVIOUS
<1>1. clientMode \in Modes /\ gatewayMode \in Modes
  BY DEF Init
<1>2. clientDomains \in Domains
  <2>1. PICK loaded \in LoadSovereigntyConfig(clientMode) : clientDomains = loaded[2]
    BY DEF Init
  <2>2. clientDomains \in {ConfiguredDomains[clientMode], {}}
    BY <2>1 DEF LoadSovereigntyConfig
  <2>3. ConfiguredDomains[clientMode] \in Domains
    <3>1. ConfiguredDomains["shadow"] \in Domains
      BY Patterns DEF ConfiguredDomains, Domains
    <3>2. ConfiguredDomains["airlock"] \in Domains
      BY Patterns DEF ConfiguredDomains, Domains
    <3>3. ConfiguredDomains["opensea"] \in Domains
      BY Patterns DEF ConfiguredDomains, Domains
    <3>4. QED
      BY <1>1, <3>1, <3>2, <3>3 DEF Modes
  <2>4. QED
    BY <2>2, <2>3 DEF Domains
<1>3. post \in [Posts -> PostRecords] /\ send \in [Senders -> SendRecords]
  BY IdleTypes DEF Init
<1>4. QED
  BY <1>1, <1>2, <1>3 DEF Init, Types

LEMMA TypesStep == Types /\ [Next]_vars => Types'
<1> SUFFICES ASSUME Types, [Next]_vars PROVE Types'
  OBVIOUS
<1>1. ASSUME NEW p \in Posts, PassGateway(p) PROVE Types'
  <2>1. PICK m \in Modes, ds \in {{}, {"any"}} :
          post' = [post EXCEPT ![p] = [at |-> "checked", mode |-> m, domains |-> ds]]
    BY <1>1 DEF PassGateway
  <2>2. ds \in Domains
    <3>1. {"any"} \in Domains /\ {} \in Domains
      BY Patterns DEF Domains
    <3>2. QED
      BY <3>1
  <2>3. [at |-> "checked", mode |-> m, domains |-> ds] \in PostRecords
    BY <2>2 DEF PostRecords
  <2>4. QED
    BY <1>1, <2>1, <2>3 DEF Types, PassGateway, clientVars, sendVars
<1>2. ASSUME NEW p \in Posts, SetSovereigntyMode(p) PROVE Types'
  <2>1. post[p].mode \in Modes /\ post[p].domains \in Domains
    BY DEF Types, PostRecords
  <2>2. <<post[p].mode, post[p].domains>> \in Pairs
    BY <2>1 DEF Pairs
  <2>3. ASSUME NEW s \in Senders
        PROVE  [send[s] EXCEPT !.inForce = @ \cup {<<post[p].mode, post[p].domains>>}] \in SendRecords
    <3>1. send[s] \in SendRecords
      BY DEF Types
    <3>2. QED
      BY <2>2, <3>1 DEF SendRecords
  <2>4. send' \in [Senders -> SendRecords]
    BY <1>2, <2>3 DEF Types, SetSovereigntyMode, NowInForce
  <2>5. post' \in [Posts -> PostRecords]
    BY <1>2 DEF Types, SetSovereigntyMode, PostRecords
  <2>6. QED
    BY <1>2, <2>1, <2>4, <2>5 DEF Types, SetSovereigntyMode
<1>3. ASSUME NEW p \in Posts, RecordSwitch(p) PROVE Types'
  <2>1. post' \in [Posts -> PostRecords]
    BY <1>3 DEF Types, RecordSwitch, PostRecords
  <2>2. post[p].mode \in Modes
    BY DEF Types, PostRecords
  <2>3. recorded[post[p].mode] + 1 \in Nat
    BY <2>2 DEF Types
  <2>4. recorded' \in [Modes -> Nat]
    BY <1>3, <2>2, <2>3 DEF Types, RecordSwitch
  <2>5. QED
    BY <1>3, <2>1, <2>4 DEF Types, RecordSwitch, clientVars, sendVars
<1>4. ASSUME NEW p \in Posts, SetGatewayMode(p) PROVE Types'
  <2>1. post[p].mode \in Modes
    BY DEF Types, PostRecords
  <2>2. QED
    BY <1>4, <2>1, IdleTypes DEF Types, SetGatewayMode, clientVars, sendVars
<1>5. ASSUME NEW s \in Senders, BeginSend(s) PROVE Types'
  <2>1. <<clientMode, clientDomains>> \in Pairs
    BY DEF Types, Pairs
  <2>2. Request("begun", NoDest, "airlock", {}, {<<clientMode, clientDomains>>}) \in SendRecords
    BY <2>1, IdleTypes, RequestType
  <2>3. QED
    BY <1>5, <2>2 DEF Types, BeginSend, clientVars, postVars
<1>6. ASSUME NEW s \in Senders, ReadMode(s) PROVE Types'
  <2>1. PICK d \in Dests :
          send' = [send EXCEPT ![s] =
                     Request("read", d, clientMode, clientDomains, send[s].inForce)]
    BY <1>6 DEF ReadMode
  <2>2. send[s].inForce \in SUBSET Pairs
    BY DEF Types, SendRecords
  <2>3. Request("read", d, clientMode, clientDomains, send[s].inForce) \in SendRecords
    BY <2>2, RequestType DEF Types
  <2>4. QED
    BY <1>6, <2>1, <2>3 DEF Types, ReadMode, clientVars, postVars
<1>7. ASSUME NEW s \in Senders, Send(s) \/ Block(s) PROVE Types'
  <2>1. PICK a \in {"sent", "blocked"} : send' = [send EXCEPT ![s] = [send[s] EXCEPT !.at = a]]
    BY <1>7 DEF Send, Block, Types
  <2>2. [send[s] EXCEPT !.at = a] \in SendRecords
    BY SendMoves DEF Types
  <2>3. QED
    BY <1>7, <2>1, <2>2 DEF Types, Send, Block, clientVars, postVars
<1>8. ASSUME NEW s \in Senders, Return(s) PROVE Types'
  BY <1>8, IdleTypes DEF Types, Return, clientVars, postVars
<1>9. CASE UNCHANGED vars
  BY <1>9 DEF Types, vars, clientVars, postVars, sendVars
<1>10. QED
  BY <1>1, <1>2, <1>3, <1>4, <1>5, <1>6, <1>7, <1>8, <1>9 DEF Next, Post, RoundTrip

-----------------------------------------------------------------------------
(* Outbound requests *)

LEMMA ReadInForceInit == Init => ReadInForce
<1> SUFFICES ASSUME Init, NEW s \in Senders
             PROVE  send[s].at \notin {"begun", "read", "sent", "blocked"}
  BY DEF ReadInForce
<1>1. send[s].at = "idle"
  BY DEF Init, IdleSend, Request
<1>2. QED
  BY <1>1

(* A step that leaves the requests and the client's pair alone. *)
LEMMA RequestsUntouched ==
  ReadInForce /\ UNCHANGED <<send, rules, clientMode, clientDomains>> => ReadInForce'
BY DEF ReadInForce, Decision

LEMMA ReadInForceStep == Types /\ ReadInForce /\ [Next]_vars => ReadInForce'
<1> SUFFICES ASSUME Types, ReadInForce, [Next]_vars PROVE ReadInForce'
  OBVIOUS
<1>1. ASSUME NEW p \in Posts, PassGateway(p) \/ RecordSwitch(p) \/ SetGatewayMode(p)
      PROVE  ReadInForce'
  BY <1>1, RequestsUntouched DEF PassGateway, RecordSwitch, SetGatewayMode, clientVars, sendVars
<1>2. ASSUME NEW p \in Posts, SetSovereigntyMode(p) PROVE ReadInForce'
  <2> SUFFICES ASSUME NEW s \in Senders
               PROVE  /\ send'[s].at = "begun" => <<clientMode', clientDomains'>> \in send'[s].inForce
                      /\ send'[s].at \in {"read", "sent", "blocked"} =>
                           <<send'[s].mode, send'[s].domains>> \in send'[s].inForce
                      /\ send'[s].at = "sent" => Decision(s)'
                      /\ send'[s].at = "blocked" => ~Decision(s)'
    BY DEF ReadInForce
  <2>1. CASE send[s].at \in {"begun", "read"}
    <3>1. send'[s] = [send[s] EXCEPT !.inForce = @ \cup {<<clientMode', clientDomains'>>}]
      BY <1>2, <2>1 DEF SetSovereigntyMode, NowInForce
    <3>2. /\ send'[s].at = send[s].at /\ send'[s].mode = send[s].mode
          /\ send'[s].domains = send[s].domains
          /\ send'[s].inForce = send[s].inForce \cup {<<clientMode', clientDomains'>>}
      BY <3>1 DEF Types, SendRecords
    <3>3. QED
      BY <2>1, <3>2 DEF ReadInForce
  <2>2. CASE send[s].at \notin {"begun", "read"}
    <3>1. send'[s] = send[s] /\ rules' = rules
      BY <1>2, <2>2 DEF SetSovereigntyMode, NowInForce
    <3>2. QED
      BY <2>2, <3>1 DEF ReadInForce, Decision
  <2>3. QED
    BY <2>1, <2>2
<1>3. ASSUME NEW s \in Senders, BeginSend(s) PROVE ReadInForce'
  BY <1>3 DEF Types, ReadInForce, Decision, BeginSend, Request, clientVars
<1>4. ASSUME NEW s \in Senders, ReadMode(s) PROVE ReadInForce'
  BY <1>4 DEF Types, ReadInForce, Decision, ReadMode, Request, clientVars
<1>5. ASSUME NEW s \in Senders, Send(s) PROVE ReadInForce'
  BY <1>5 DEF Types, ReadInForce, Decision, Send, clientVars
<1>6. ASSUME NEW s \in Senders, Block(s) PROVE ReadInForce'
  BY <1>6 DEF Types, ReadInForce, Decision, Block, clientVars
<1>7. ASSUME NEW s \in Senders, Return(s) PROVE ReadInForce'
  BY <1>7 DEF Types, ReadInForce, Decision, Return, IdleSend, Request, clientVars
<1>8. CASE UNCHANGED vars
  BY <1>8, RequestsUntouched DEF vars, clientVars, sendVars
<1>9. QED
  BY <1>1, <1>2, <1>3, <1>4, <1>5, <1>6, <1>7, <1>8 DEF Next, Post, RoundTrip

(* An outbound request is sent or blocked because of one pair of mode and  *)
(* domains that was in force since it began, however many POSTs switch the *)
(* mode meanwhile (governor/client.go, RoundTrip).                         *)
THEOREM OutboundDecided == Spec => []DecidedAsInForce
<1>1. Types /\ ReadInForce => DecidedAsInForce
  <2> SUFFICES ASSUME Types, ReadInForce, NEW s \in Senders
               PROVE  /\ send[s].at = "sent" =>
                           \E f \in send[s].inForce : Allowed(rules, send[s].dest, f[1], f[2])
                      /\ send[s].at = "blocked" =>
                           \E f \in send[s].inForce : ~Allowed(rules, send[s].dest, f[1], f[2])
    BY DEF DecidedAsInForce
  <2> DEFINE pair == <<send[s].mode, send[s].domains>>
  <2>1. pair[1] = send[s].mode /\ pair[2] = send[s].domains
    OBVIOUS
  <2>2. send[s].at \in {"sent", "blocked"} => pair \in send[s].inForce
    BY DEF ReadInForce
  <2>3. Decision(s) <=> Allowed(rules, send[s].dest, pair[1], pair[2])
    BY <2>1 DEF Decision
  <2>4. (send[s].at = "sent" => Decision(s)) /\ (send[s].at = "blocked" => ~Decision(s))
    BY DEF ReadInForce
  <2>5. QED
    BY <2>2, <2>3, <2>4
<1>2. QED
  BY <1>1, TypesInit, TypesStep, ReadInForceInit, ReadInForceStep, PTL DEF Spec

-----------------------------------------------------------------------------
(* The gateway *)

(* Once the gateway is in shadow mode and no POST is past its check, both  *)
(* copies of the mode stay as they are (gateway/middleware.go,             *)
(* ironclawMiddleware, refuses every POST).                                *)
THEOREM ShadowForGood == Spec => ShadowStays
<1>1. ASSUME Locked, [Next]_vars PROVE Locked' /\ UNCHANGED clientMode
  <2>1. ASSUME NEW p \in Posts, Post(p) PROVE FALSE
    BY <1>1, <2>1 DEF Post, PassGateway, SetSovereigntyMode, RecordSwitch, SetGatewayMode,
                      Locked, PastCheck
  <2>2. ASSUME NEW s \in Senders, RoundTrip(s) PROVE UNCHANGED <<clientVars, postVars>>
    BY <2>2 DEF RoundTrip, BeginSend, ReadMode, Send, Block, Return
  <2>3. UNCHANGED <<clientVars, postVars>>
    BY <1>1, <2>1, <2>2 DEF Next, vars
  <2>4. QED
    BY <1>1, <2>3 DEF clientVars, postVars, Locked, PastCheck
<1>2. [Next]_vars => [Locked => Locked' /\ UNCHANGED clientMode]_vars
  BY <1>1
<1>3. QED
  BY <1>2, PTL DEF Spec, ShadowStays

LEMMA OnePostInit == Init => OnePost
<1> SUFFICES ASSUME Init PROVE OnePost
  OBVIOUS
<1>1. \A p \in Posts : post[p].at = "idle"
  BY DEF Init, IdlePost
<1>2. QED
  BY <1>1 DEF Init, OnePost, PastCheck

LEMMA OnePostStep == Types /\ OnePost /\ [Next]_vars => OnePost'
<1> SUFFICES ASSUME Types, OnePost, [Next]_vars PROVE OnePost'
  OBVIOUS
<1> USE DEF OnePost, PastCheck
<1>0. \A q \in Posts : post[q] \in PostRecords
  BY DEF Types
<1>1. ASSUME NEW p \in Posts, PassGateway(p) PROVE OnePost'
  <2>1. /\ post'[p].at = "checked"
        /\ \A q \in Posts : q # p => post'[q] = post[q]
    BY <1>1 DEF PassGateway, Types
  <2>2. overlapped' = (overlapped \/ \E q \in Posts : post[q].at # "idle")
    BY <1>1 DEF PassGateway
  <2>3. UNCHANGED <<clientMode, gatewayMode>>
    BY <1>1 DEF PassGateway, clientVars
  <2>4. QED
    BY <2>1, <2>2, <2>3
<1>2. ASSUME NEW p \in Posts, SetSovereigntyMode(p) PROVE OnePost'
  <2>1. /\ post[p].at = "checked" /\ post'[p].at \in {"changed", "set"}
        /\ post'[p].mode = post[p].mode
        /\ \A q \in Posts : q # p => post'[q] = post[q]
    BY <1>0, <1>2 DEF SetSovereigntyMode, Types, PostRecords
  <2>2. clientMode' = post[p].mode /\ UNCHANGED <<gatewayMode, overlapped>>
    BY <1>2 DEF SetSovereigntyMode
  <2>3. QED
    BY <2>1, <2>2
<1>3. ASSUME NEW p \in Posts, RecordSwitch(p) PROVE OnePost'
  <2>1. /\ post[p].at = "changed" /\ post'[p].at = "set"
        /\ post'[p].mode = post[p].mode
        /\ \A q \in Posts : q # p => post'[q] = post[q]
    BY <1>0, <1>3 DEF RecordSwitch, Types, PostRecords
  <2>2. UNCHANGED <<clientMode, gatewayMode, overlapped>>
    BY <1>3 DEF RecordSwitch, clientVars
  <2>3. QED
    BY <2>1, <2>2
<1>4. ASSUME NEW p \in Posts, SetGatewayMode(p) PROVE OnePost'
  <2>1. /\ post[p].at = "set" /\ post'[p].at = "idle"
        /\ \A q \in Posts : q # p => post'[q] = post[q]
    BY <1>4 DEF SetGatewayMode, Types, IdlePost
  <2>2. gatewayMode' = post[p].mode /\ UNCHANGED <<clientMode, overlapped>>
    BY <1>4 DEF SetGatewayMode, clientVars
  <2>3. QED
    BY <2>1, <2>2
<1>5. ASSUME NEW s \in Senders, RoundTrip(s) PROVE OnePost'
  BY <1>5 DEF RoundTrip, BeginSend, ReadMode, Send, Block, Return, clientVars, postVars
<1>6. CASE UNCHANGED vars
  BY <1>6 DEF vars, clientVars, postVars
<1>7. QED
  BY <1>1, <1>2, <1>3, <1>4, <1>5, <1>6 DEF Next, Post

(* POSTs that never overlap leave the gateway and the client in one mode   *)
(* (gateway/handlers.go, handleSovereigntyPost sets one after the other).  *)
THEOREM ModesAgreeAlone == Spec => []ModesAgree
<1>1. OnePost => ModesAgree
  BY DEF OnePost, ModesAgree
<1>2. QED
  BY <1>1, TypesInit, TypesStep, OnePostInit, OnePostStep, PTL DEF Spec

-----------------------------------------------------------------------------
(* The ledger of switches *)

(* The POSTs that have changed the client's mode to m and not recorded it. *)
ToRecord(m) == {p \in Posts : post[p].at = "changed" /\ post[p].mode = m}

LEMMA ToRecordFinite ==
  ASSUME IsFiniteSet(Posts), NEW m
  PROVE  IsFiniteSet(ToRecord(m)) /\ Cardinality(ToRecord(m)) \in Nat
<1>1. ToRecord(m) \subseteq Posts
  BY DEF ToRecord
<1>2. IsFiniteSet(ToRecord(m))
  BY <1>1, FS_Subset
<1>3. QED
  BY <1>2, FS_CardinalityType

LEMMA SwitchesInit == Init => SwitchesRecorded
<1> SUFFICES ASSUME Init, NEW m \in Modes
             PROVE  switched[m] = recorded[m] + Cardinality(ToRecord(m))
  BY DEF SwitchesRecorded, ToRecord
<1>1. ToRecord(m) = {}
  BY DEF Init, IdlePost, ToRecord
<1>2. Cardinality(ToRecord(m)) = 0
  BY <1>1, FS_EmptySet
<1>3. QED
  BY <1>2 DEF Init

LEMMA SwitchesStep ==
  ASSUME IsFiniteSet(Posts), Types, SwitchesRecorded, [Next]_vars
  PROVE  SwitchesRecorded'
<1> SUFFICES ASSUME NEW m \in Modes
             PROVE  switched'[m] = recorded'[m] + Cardinality(ToRecord(m)')
  BY DEF SwitchesRecorded, ToRecord
<1>0. /\ switched[m] = recorded[m] + Cardinality(ToRecord(m))
      /\ switched[m] \in Nat /\ recorded[m] \in Nat
      /\ \A q \in Posts : post[q] \in PostRecords
  BY DEF SwitchesRecorded, ToRecord, Types
<1>1. ASSUME UNCHANGED <<switched, recorded>>, ToRecord(m)' = ToRecord(m)
      PROVE  switched'[m] = recorded'[m] + Cardinality(ToRecord(m)')
  BY <1>0, <1>1
<1>2. ASSUME NEW p \in Posts, PassGateway(p) PROVE ToRecord(m)' = ToRecord(m)
  BY <1>2 DEF PassGateway, ToRecord, Types
<1>3. ASSUME NEW p \in Posts, SetGatewayMode(p) PROVE ToRecord(m)' = ToRecord(m)
  BY <1>3 DEF SetGatewayMode, ToRecord, Types, IdlePost
<1>4. ASSUME NEW p \in Posts, SetSovereigntyMode(p)
      PROVE  switched'[m] = recorded'[m] + Cardinality(ToRecord(m)')
  <2>1. /\ post[p].at = "checked" /\ post'[p].mode = post[p].mode
        /\ post'[p].at = IF clientMode # post[p].mode THEN "changed" ELSE "set"
        /\ \A q \in Posts : q # p => post'[q] = post[q]
    BY <1>0, <1>4 DEF SetSovereigntyMode, Types, PostRecords
  <2>2. p \notin ToRecord(m)
    BY <2>1 DEF ToRecord
  <2>3. CASE clientMode # post[p].mode /\ post[p].mode = m
    <3>1. ToRecord(m)' = ToRecord(m) \cup {p}
      BY <2>1, <2>3 DEF ToRecord
    <3>2. Cardinality(ToRecord(m)') = Cardinality(ToRecord(m)) + 1
      BY <2>2, <3>1, ToRecordFinite, FS_AddElement
    <3>3. switched'[m] = switched[m] + 1 /\ recorded' = recorded
      BY <1>4, <2>3 DEF SetSovereigntyMode, Types
    <3>4. QED
      BY <1>0, <3>2, <3>3, ToRecordFinite
  <2>4. CASE clientMode = post[p].mode \/ post[p].mode # m
    <3>1. ToRecord(m)' = ToRecord(m)
      BY <2>1, <2>4 DEF ToRecord
    <3>2. switched'[m] = switched[m] /\ recorded' = recorded
      BY <1>4, <2>4 DEF SetSovereigntyMode, Types
    <3>3. QED
      BY <1>0, <3>1, <3>2
  <2>5. QED
    BY <2>3, <2>4
<1>5. ASSUME NEW p \in Posts, RecordSwitch(p)
      PROVE  switched'[m] = recorded'[m] + Cardinality(ToRecord(m)')
  <2>1. /\ post[p].at = "changed" /\ post'[p].at = "set"
        /\ \A q \in Posts : q # p => post'[q] = post[q]
    BY <1>0, <1>5 DEF RecordSwitch, Types, PostRecords
  <2>2. CASE post[p].mode = m
    <3>1. p \in ToRecord(m) /\ ToRecord(m)' = ToRecord(m) \ {p}
      BY <2>1, <2>2 DEF ToRecord
    <3>2. Cardinality(ToRecord(m)') = Cardinality(ToRecord(m)) - 1
      BY <3>1, ToRecordFinite, FS_RemoveElement
    <3>3. recorded'[m] = recorded[m] + 1 /\ switched' = switched
      BY <1>5, <2>2 DEF RecordSwitch, Types
    <3>4. QED
      BY <1>0, <3>2, <3>3, ToRecordFinite
  <2>3. CASE post[p].mode # m
    <3>1. ToRecord(m)' = ToRecord(m)
      BY <2>1, <2>3 DEF ToRecord
    <3>2. recorded'[m] = recorded[m] /\ switched' = switched
      BY <1>5, <2>3 DEF RecordSwitch, Types
    <3>3. QED
      BY <1>0, <3>1, <3>2
  <2>4. QED
    BY <2>2, <2>3
<1>6. ASSUME NEW p \in Posts, PassGateway(p) \/ SetGatewayMode(p)
      PROVE  UNCHANGED <<switched, recorded>>
  BY <1>6 DEF PassGateway, SetGatewayMode
<1>7. ASSUME (\E s \in Senders : RoundTrip(s)) \/ UNCHANGED vars
      PROVE  UNCHANGED <<post, switched, recorded>>
  BY <1>7 DEF RoundTrip, BeginSend, ReadMode, Send, Block, Return, vars, postVars
<1>8. UNCHANGED post => ToRecord(m)' = ToRecord(m)
  BY DEF ToRecord
<1>9. QED
  BY <1>1, <1>2, <1>3, <1>4, <1>5, <1>6, <1>7, <1>8 DEF Next, Post

(* However many POSTs interleave, each change of the mode is recorded once *)
(* or about to be by the POST that made it (governor/client.go:42).        *)
THEOREM SwitchesAllRecorded ==
  ASSUME IsFiniteSet(Posts)
  PROVE  Spec => []SwitchesRecorded
<1>1. Types /\ SwitchesRecorded /\ [Next]_vars => SwitchesRecorded'
  BY SwitchesStep
<1>2. QED
  BY <1>1, SwitchesInit, TypesInit, TypesStep, PTL DEF Spec
=============================================================================
