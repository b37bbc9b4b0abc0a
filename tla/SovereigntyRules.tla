-------------------------- MODULE SovereigntyRules --------------------------
(***************************************************************************)
(* What may leave the machine: the decisions of governor/client.go,        *)
(* governor/sovereignty_rules.go and governor/sovereignty.go about one     *)
(* outbound request, as operators.                                         *)
(*                                                                         *)
(* A destination has a host, a port (0 when the URL names none) and a      *)
(* scheme ("" when it names none).  A pattern in a list of domains is a    *)
(* host, a suffix "*.<domain>", or "*"; Covers says which hosts it         *)
(* matches.  Ports and schemes are kept to the few that matter.            *)
(***************************************************************************)
EXTENDS Naturals

Modes == {"shadow", "airlock", "opensea"}

Hosts == {"deepseek", "searx", "elsewhere"}
Covers == [any |-> Hosts, deepseek |-> {"deepseek"}, suffix |-> {"searx"}]

Dests == [host : Hosts, port : {0}, scheme : {""}]
         \cup {[host |-> "deepseek", port |-> 80, scheme |-> ""],
               [host |-> "deepseek", port |-> 8443, scheme |-> "https"]}

InDomains(host, domains) == \E p \in domains : host \in Covers[p]

(* Variant: an open domain list opens every mode. *)
DomainAllowedByAny(host, mode, domains) ==
  \/ "any" \in domains
  \/ mode # "shadow" /\ InDomains(host, domains)

(* domainAllowedLocked *)
DomainAllowed(host, mode, domains) ==
  \/ mode = "opensea" /\ "any" \in domains
  \/ mode # "shadow" /\ InDomains(host, domains)

(* The scheme RoundTrip takes when the URL names none. *)
Schemed(d) ==
  IF d.scheme # "" THEN d
  ELSE [d EXCEPT !.scheme = IF d.port = 80 THEN "http" ELSE "https"]

(* The port EvaluateRules and TripleCheck take when there is none. *)
PortOf(d) ==
  CASE d.port # 0 -> d.port
    [] d.port = 0 /\ d.scheme = "https" -> 443
    [] d.port = 0 /\ d.scheme = "http" -> 80
    [] OTHER -> 0

(* ruleMatches *)
RuleMatches(r, d, mode) ==
  \/ r.type = "mode" /\ r.match = mode
  \/ r.type = "domain" /\ d.host \in Covers[r.match]
  \/ r.type = "port" /\ r.match = PortOf(d)
  \/ r.type = "scheme" /\ r.match = d.scheme

(* EvaluateRules: a rule that denies beats every rule that allows, and what *)
(* no rule allows is denied.                                                *)
RulesAllow(rules, d, mode) ==
  LET Hit(action) == \E r \in rules :
        r.when \in {"", mode} /\ r.action = action /\ RuleMatches(r, d, mode)
  IN  ~Hit("deny") /\ Hit("allow")

(* RoundTrip: the rules decide when there are any, the domains otherwise. *)
Allowed(rules, d, mode, domains) ==
  IF rules # {} THEN RulesAllow(rules, Schemed(d), mode)
                ELSE DomainAllowed(d.host, mode, domains)

(* Variant: the mode is looked at after the domains. *)
TripleCheckModeLast(m, d) ==
  \/ "any" \in m.domains
  \/ m.mode # "shadow" /\ InDomains(d.host, m.domains)

(* TripleCheck of a SovereigntyMachine: domain, port and scheme.  A mode   *)
(* that is open to every domain looks at nothing else.                     *)
TripleCheck(m, d) ==
  /\ m.mode # "shadow"
  /\ \/ m.mode = "opensea" /\ "any" \in m.domains
     \/ /\ InDomains(d.host, m.domains)
        /\ m.ports = {} \/ PortOf(d) \in m.ports \cup {0}
        /\ m.schemes = {} \/ d.scheme \in m.schemes
=============================================================================
