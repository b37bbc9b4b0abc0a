------------------------- MODULE SovereigntyMachine -------------------------
(***************************************************************************)
(* SovereigntyMachine (governor/sovereignty.go): a mode with domains,      *)
(* ports and schemes of its own, switched and asked by its callers.        *)
(***************************************************************************)
EXTENDS SovereigntyRules

CONSTANT MaxSwitches    \* bound on the switches

VARIABLES
  state,       \* SovereigntyState
  broadcast,   \* mode: sovereignty_switch messages sent to the bus with it
  switches

vars == <<state, broadcast, switches>>

(* NewSovereigntyMachine *)
Init ==
  /\ state = [mode |-> "airlock", domains |-> {}, ports |-> {80, 443},
              schemes |-> {"http", "https"}]
  /\ broadcast = [m \in Modes |-> 0]
  /\ switches = 0

(* What is no mode is airlock; a change is broadcast. *)
Switch ==
  /\ switches < MaxSwitches
  /\ switches' = switches + 1
  /\ \E given \in Modes \cup {"unknown"}, ds \in SUBSET DOMAIN Covers :
       LET m == IF given \in Modes THEN given ELSE "airlock"
       IN  /\ state' = [state EXCEPT !.mode = m, !.domains = ds]
           /\ broadcast' = IF m = state.mode THEN broadcast
                           ELSE [broadcast EXCEPT ![m] = @ + 1]

SetPorts ==
  /\ \E ports \in {{}, {80, 443}, {8443}} : state' = [state EXCEPT !.ports = ports]
  /\ UNCHANGED <<broadcast, switches>>

SetSchemes ==
  /\ \E schemes \in {{}, {"https"}} : state' = [state EXCEPT !.schemes = schemes]
  /\ UNCHANGED <<broadcast, switches>>

Next == Switch \/ SetPorts \/ SetSchemes

Spec == Init /\ [][Next]_vars

-----------------------------------------------------------------------------
(* TripleCheck never allows what the check of the outbound client forbids  *)
(* in the same mode with the same domains; where ports and schemes are not *)
(* restricted the two agree.                                               *)
ChecksAgree ==
  \A d \in Dests :
    LET client == DomainAllowed(d.host, state.mode, state.domains)
    IN  /\ TripleCheck(state, d) => client
        /\ state.ports = {} /\ state.schemes = {} /\ client => TripleCheck(state, d)
=============================================================================
