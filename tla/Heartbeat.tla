----------------------------- MODULE Heartbeat -----------------------------
(***************************************************************************)
(* The pulses of the cores (governor/governor.go, butler/butler.go,        *)
(* architect/architect.go: Pulse, SetOK, SetDegraded) and the monitor of   *)
(* cmd/harmonclaw/main.go, over the one channel of bus/bus.go (Send,       *)
(* Subscribe), which the mode switches of the governor use as well.        *)
(*                                                                         *)
(* A unit of time is the five seconds between two pulses; the monitor      *)
(* checks every third.  Pulses and checks have a place of their own within *)
(* the unit, which does not change.                                        *)
(***************************************************************************)
EXTENDS Integers, Sequences

CONSTANTS
  Cores,
  Other,        \* a message that is not a pulse
  BusCap,       \* messages the channel holds
  CheckEvery,   \* three
  MaxTime, MaxOther

VARIABLES
  time,         \* the present unit
  bus,          \* the channel: Other, or a core and the time of its pulse
  pulsed,       \* core: the unit of its latest pulse
  received,     \* core: the unit of the latest pulse of it the monitor read
  lastPulse,    \* core: when it read it
  status,       \* core: "ok" or "degraded"
  checked,      \* the unit of the monitor's latest check
  others

vars == <<time, bus, pulsed, received, lastPulse, status, checked, others>>

Init ==
  /\ time = 0 /\ bus = <<>> /\ checked = 0 /\ others = 0
  /\ pulsed = [c \in Cores |-> 0] /\ received = [c \in Cores |-> 0]
  /\ lastPulse = [c \in Cores |-> 0] /\ status = [c \in Cores |-> "ok"]

(* Send: a full channel loses the message. *)
Send(m) == bus' = IF Len(bus) < BusCap THEN Append(bus, m) ELSE bus

Pulse(c) ==
  /\ pulsed[c] < time
  /\ pulsed' = [pulsed EXCEPT ![c] = time]
  /\ Send(<<c, time>>)
  /\ UNCHANGED <<time, received, lastPulse, status, checked, others>>

SendOther ==
  /\ others < MaxOther
  /\ others' = others + 1
  /\ Send(<<Other, time>>)
  /\ UNCHANGED <<time, pulsed, received, lastPulse, status, checked>>

(* Variant: a pulse does not count as a sign of life again. *)
ReadStatusOnly ==
  /\ bus # <<>>
  /\ bus' = Tail(bus)
  /\ LET c == Head(bus)[1]
     IN  IF c \in Cores
         THEN /\ received' = [received EXCEPT ![c] = Head(bus)[2]]
              /\ status' = [status EXCEPT ![c] = "ok"]
              /\ UNCHANGED lastPulse
         ELSE UNCHANGED <<received, lastPulse, status>>
  /\ UNCHANGED <<time, pulsed, checked, others>>

Read ==
  /\ bus # <<>>
  /\ bus' = Tail(bus)
  /\ LET c == Head(bus)[1]
     IN  IF c \in Cores
         THEN /\ received' = [received EXCEPT ![c] = Head(bus)[2]]
              /\ lastPulse' = [lastPulse EXCEPT ![c] = time]
              /\ status' = [status EXCEPT ![c] = "ok"]
         ELSE UNCHANGED <<received, lastPulse, status>>
  /\ UNCHANGED <<time, pulsed, checked, others>>

(* More than fifteen seconds ago.  A pulse read three units ago is that    *)
(* old only if the check has its place in the unit behind the pulse's.     *)
Late(c) ==
  \/ time - lastPulse[c] > CheckEvery
  \/ time - lastPulse[c] = CheckEvery /\ pulsed[c] = time

MaybeInTime(c) == time - lastPulse[c] <= CheckEvery

CheckDue == time % CheckEvery = 0 /\ checked < time

Check ==
  /\ CheckDue
  /\ \E late \in SUBSET {c \in Cores : Late(c)} :
       /\ \A c \in Cores \ late : MaybeInTime(c)
       /\ status' = [c \in Cores |-> IF c \in late THEN "degraded" ELSE status[c]]
  /\ checked' = time
  /\ UNCHANGED <<time, bus, pulsed, received, lastPulse, others>>

(* The tickers of the cores and of the monitor are served within the unit. *)
Tick ==
  /\ time < MaxTime
  /\ \A c \in Cores : pulsed[c] = time
  /\ ~CheckDue
  /\ time' = time + 1
  /\ UNCHANGED <<bus, pulsed, received, lastPulse, status, checked, others>>

Next == (\E c \in Cores : Pulse(c)) \/ SendOther \/ Read \/ Check \/ Tick

Spec == Init /\ [][Next]_vars

-----------------------------------------------------------------------------
(* Properties *)

(* A core is degraded only while three of its pulses in a row are lost or  *)
(* wait in the channel, and a core whose last pulse was read more than six *)
(* units ago is degraded.                                                  *)
DegradedWhenSilent ==
  \A c \in Cores :
    /\ status[c] = "degraded" => pulsed[c] - received[c] >= CheckEvery
    /\ time - lastPulse[c] > 2 * CheckEvery => status[c] = "degraded"
=============================================================================
