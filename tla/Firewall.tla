------------------------------ MODULE Firewall ------------------------------
(***************************************************************************)
(* Firewall.Wrap (governor/firewall.go): a request is looked at before     *)
(* anything else.  An address that is banned is refused; a request that    *)
(* looks hostile is refused and recorded; an address that sends more than  *)
(* MaxRequestsPerIP requests in a window of a second is banned.  Looking   *)
(* for a ban, counting and banning are three uses of the mutex, and a      *)
(* clean-up forgets old bans and windows in between.                       *)
(***************************************************************************)
EXTENDS Naturals, Sequences

CONSTANTS
  Conns,               \* goroutines that serve requests
  Addrs,               \* addresses requests come from (clientIP)
  Second,              \* ticks per second
  MaxRequestsPerIP, BanDuration,
  MaxTime,             \* bound on the clock
  MaxRequests          \* bound on the requests

VARIABLES
  now,
  ipCounts,    \* address: requests counted in its window and the window's start
  ipBans,      \* address: until when it is banned, 0 if not
  conn,        \* connection: where its request is, its address
  passed,      \* address: when its requests went on to the next handler
  bans,        \* firewall_ban entries recorded
  refused,     \* requests answered 400, 403 or 429
  requests

vars == <<now, ipCounts, ipBans, conn, passed, bans, refused, requests>>

NoWindow == [count |-> 0, at |-> 0]
Idle(c) == conn' = [conn EXCEPT ![c].at = "idle"]
RecordBan == bans' = bans + 1 /\ refused' = refused + 1

Init ==
  /\ now = 0
  /\ ipCounts = [a \in Addrs |-> NoWindow]
  /\ ipBans = [a \in Addrs |-> 0]
  /\ \E a \in Addrs : conn = [c \in Conns |-> [at |-> "idle", addr |-> a]]
  /\ passed = [a \in Addrs |-> <<>>]
  /\ bans = 0 /\ refused = 0 /\ requests = 0

Arrive(c) ==
  /\ conn[c].at = "idle"
  /\ requests < MaxRequests
  /\ requests' = requests + 1
  /\ \E a \in Addrs : conn' = [conn EXCEPT ![c] = [at |-> "arrived", addr |-> a]]
  /\ UNCHANGED <<now, ipCounts, ipBans, passed, bans, refused>>

IsBanned(a) == now < ipBans[a]

RefuseBanned(c) ==
  /\ conn[c].at = "arrived"
  /\ IsBanned(conn[c].addr)
  /\ RecordBan /\ Idle(c)
  /\ UNCHANGED <<now, ipCounts, ipBans, passed, requests>>

(* A path or query with a traversal, or a suspicious header. *)
RefuseHostile(c) ==
  /\ conn[c].at = "arrived"
  /\ ~IsBanned(conn[c].addr)
  /\ RecordBan /\ Idle(c)
  /\ UNCHANGED <<now, ipCounts, ipBans, passed, requests>>

(* A body of a type that is not accepted is refused without a record. *)
RefuseType(c) ==
  /\ conn[c].at = "arrived"
  /\ ~IsBanned(conn[c].addr)
  /\ Idle(c)
  /\ UNCHANGED <<now, ipCounts, ipBans, passed, bans, refused, requests>>

Admit(c) ==
  /\ conn[c].at = "arrived"
  /\ ~IsBanned(conn[c].addr)
  /\ conn' = [conn EXCEPT ![c].at = "admitted"]
  /\ UNCHANGED <<now, ipCounts, ipBans, passed, bans, refused, requests>>

(* recordRequest: a window that is over a second old starts again. *)
Counted(w) ==
  IF w = NoWindow \/ now - w.at > Second THEN [count |-> 1, at |-> now]
                                         ELSE [w EXCEPT !.count = @ + 1]

Count(c) ==
  /\ conn[c].at = "admitted"
  /\ LET a == conn[c].addr
         w == Counted(ipCounts[a])
     IN  /\ ipCounts' = [ipCounts EXCEPT ![a] = w]
         /\ IF w.count <= MaxRequestsPerIP
            THEN passed' = [passed EXCEPT ![a] = Append(@, now)] /\ Idle(c)
            ELSE conn' = [conn EXCEPT ![c].at = "over"] /\ UNCHANGED passed
  /\ UNCHANGED <<now, ipBans, bans, refused, requests>>

Ban(c) ==
  /\ conn[c].at = "over"
  /\ ipBans' = [ipBans EXCEPT ![conn[c].addr] = now + BanDuration]
  /\ RecordBan /\ Idle(c)
  /\ UNCHANGED <<now, ipCounts, passed, requests>>

(* Variant: the clean-up forgets every window. *)
CleanupAll ==
  /\ ipBans' = [a \in Addrs |-> IF now > ipBans[a] THEN 0 ELSE ipBans[a]]
  /\ ipCounts' = [a \in Addrs |-> NoWindow]
  /\ UNCHANGED <<now, conn, passed, bans, refused, requests>>

(* cleanupLoop *)
Cleanup ==
  /\ ipBans' = [a \in Addrs |-> IF now > ipBans[a] THEN 0 ELSE ipBans[a]]
  /\ ipCounts' = [a \in Addrs |-> IF now - ipCounts[a].at > Second THEN NoWindow ELSE ipCounts[a]]
  /\ UNCHANGED <<now, conn, passed, bans, refused, requests>>

Tick ==
  /\ now < MaxTime
  /\ now' = now + 1
  /\ UNCHANGED <<ipCounts, ipBans, conn, passed, bans, refused, requests>>

Next ==
  \/ \E c \in Conns : \/ Arrive(c) \/ RefuseBanned(c) \/ RefuseHostile(c) \/ RefuseType(c)
                      \/ Admit(c) \/ Count(c) \/ Ban(c)
  \/ Cleanup \/ Tick

Spec == Init /\ [][Next]_vars

-----------------------------------------------------------------------------
(* Of one address no more requests go on than two windows hold within any  *)
(* second, wherever the windows begin, whatever is cleaned up between two  *)
(* requests and however requests overlap.                                  *)
AtMostTwoWindows ==
  \A a \in Addrs : \A i, j \in DOMAIN passed[a] :
    j - i >= 2 * MaxRequestsPerIP => passed[a][j] - passed[a][i] > Second
=============================================================================
