--------------------------- MODULE RuntimeProofs ---------------------------
(***************************************************************************)
(* What runs beside the requests, for every value of the constants: the    *)
(* invariants JudgedByTheirOwn and NothingOutOfOrder of MCRuntime, and     *)
(* that the tokens of the Butler's queue add up, so that no Dequeue ever   *)
(* blocks on the token it gives back.  Each module has an invariant of its *)
(* own, which the steps of the others leave alone.                         *)
(***************************************************************************)
EXTENDS MCRuntime, FiniteSetTheorems, SequenceTheorems, WellFoundedInduction, TLAPS
-----------------------------------------------------------------------------
(* The queue *)

(* TokensAccounted alone is inductive once the types are known:            *)
(* DequeueNeverBlocks follows from it, since a caller that owes a token is *)
(* counted among those that hold one.                                      *)
QInv == TypeOK /\ TokensAccounted

(* The callers in the middle of a call are finitely many. *)
LEMMA HoldingFinite ==
  IsFiniteSet(Holding) /\ Cardinality(Holding) \in Nat
BY QueueAssumption, FS_Subset, FS_CardinalityType DEF Holding

(* A caller that begins a call is one more that holds a token. *)
LEMMA HoldingGrows ==
  ASSUME TypeOK, NEW c \in Callers, NEW s \in {"append", "return"},
         at[c] = "idle", at' = [at EXCEPT ![c] = s]
  PROVE  Cardinality(Holding') = Cardinality(Holding) + 1
<1>1. Holding' = Holding \cup {c}
  BY DEF Holding, TypeOK
<1>2. c \notin Holding
  BY DEF Holding
<1>3. QED
  BY <1>1, <1>2, HoldingFinite, FS_AddElement

(* A caller whose call ends is one less. *)
LEMMA HoldingShrinks ==
  ASSUME TypeOK, NEW c \in Callers,
         at[c] # "idle", at' = [at EXCEPT ![c] = "idle"]
  PROVE  Cardinality(Holding') = Cardinality(Holding) - 1
<1>1. Holding' = Holding \ {c}
  BY DEF Holding, TypeOK
<1>2. c \in Holding
  BY DEF Holding
<1>3. QED
  BY <1>1, <1>2, HoldingFinite, FS_RemoveElement

LEMMA QInit == Init => QInv
<1> SUFFICES ASSUME Init PROVE QInv
  OBVIOUS
<1>1. TypeOK
  BY QueueAssumption DEF Init, TypeOK
<1>2. Holding = {}
  BY DEF Init, Holding
<1>3. Cardinality(Holding) = 0
  BY <1>2, FS_EmptySet
<1>4. TokensAccounted
  BY <1>3, QueueAssumption DEF Init, TokensAccounted
<1>5. QED
  BY <1>1, <1>4 DEF QInv

LEMMA QTaken ==
  ASSUME QInv, NEW c \in Callers, TakeToken(c)
  PROVE  QInv'
<1>1. TypeOK'
  BY DEF QInv, TypeOK, TakeToken
<1>2. Cardinality(Holding') = Cardinality(Holding) + 1
  BY HoldingGrows DEF QInv, TakeToken
<1>3. TokensAccounted'
  BY <1>2, HoldingFinite, QueueAssumption DEF QInv, TypeOK, TokensAccounted, TakeToken
<1>4. QED
  BY <1>1, <1>3 DEF QInv

LEMMA QAppended ==
  ASSUME QInv, NEW c \in Callers, NEW priority \in BOOLEAN, AppendItem(c, priority)
  PROVE  QInv'
<1>1. TypeOK'
  BY DEF QInv, TypeOK, AppendItem
<1>2. Cardinality(Holding') = Cardinality(Holding) - 1
  BY HoldingShrinks DEF QInv, AppendItem
<1>3. TokensAccounted'
  BY <1>2, HoldingFinite, QueueAssumption DEF QInv, TypeOK, TokensAccounted, AppendItem
<1>4. QED
  BY <1>1, <1>3 DEF QInv

LEMMA QRemoved ==
  ASSUME QInv, NEW c \in Callers, Remove(c)
  PROVE  QInv'
<1>1. TypeOK'
  BY DEF QInv, TypeOK, Remove
<1>2. Cardinality(Holding') = Cardinality(Holding) + 1
  BY HoldingGrows DEF QInv, Remove
<1>3. prio' + norm' = prio + norm - 1
  BY DEF QInv, TypeOK, Remove
<1>4. TokensAccounted'
  BY <1>1, <1>2, <1>3, HoldingFinite, QueueAssumption
     DEF QInv, TypeOK, TokensAccounted, Remove
<1>5. QED
  BY <1>1, <1>4 DEF QInv

LEMMA QReturned ==
  ASSUME QInv, NEW c \in Callers, ReturnToken(c)
  PROVE  QInv'
<1>1. TypeOK'
  BY DEF QInv, TypeOK, ReturnToken
<1>2. Cardinality(Holding') = Cardinality(Holding) - 1
  BY HoldingShrinks DEF QInv, ReturnToken
<1>3. TokensAccounted'
  BY <1>2, HoldingFinite, QueueAssumption DEF QInv, TypeOK, TokensAccounted, ReturnToken
<1>4. QED
  BY <1>1, <1>3 DEF QInv

LEMMA QNext == QInv /\ [Next]_vars => QInv'
<1> SUFFICES ASSUME QInv, [Next]_vars PROVE QInv'
  OBVIOUS
<1>1. CASE UNCHANGED vars
  <2>1. Holding' = Holding
    BY <1>1 DEF vars, Holding
  <2>2. QED
    BY <1>1, <2>1 DEF QInv, vars, TypeOK, TokensAccounted
<1>2. ASSUME NEW c \in Callers, TakeToken(c) PROVE QInv'
  BY <1>2, QTaken
<1>3. ASSUME NEW c \in Callers, NEW priority \in BOOLEAN, AppendItem(c, priority) PROVE QInv'
  BY <1>3, QAppended
<1>4. ASSUME NEW c \in Callers, Remove(c) PROVE QInv'
  BY <1>4, QRemoved
<1>5. ASSUME NEW c \in Callers, ReturnToken(c) PROVE QInv'
  BY <1>5, QReturned
<1>6. QED
  BY <1>1, <1>2, <1>3, <1>4, <1>5 DEF Next

LEMMA QBlocks == QInv => DequeueNeverBlocks
<1> SUFFICES ASSUME QInv PROVE DequeueNeverBlocks
  OBVIOUS
<1>1. avail + (prio + norm) + Cardinality(Holding) = QueueCap
  BY HoldingFinite DEF QInv, TypeOK, TokensAccounted
<1>2. prio + norm <= QueueCap
  BY <1>1, HoldingFinite, QueueAssumption DEF QInv, TypeOK
<1>3. ASSUME NEW c \in Callers, at[c] = "return" PROVE avail < QueueCap
  <2>1. Cardinality(Holding) # 0
    BY <1>3, HoldingFinite, FS_EmptySet DEF Holding
  <2>2. QED
    BY <1>1, <2>1, HoldingFinite, QueueAssumption DEF QInv, TypeOK
<1>4. QED
  BY <1>2, <1>3 DEF DequeueNeverBlocks

(* In every state of the queue the tokens in the channel, the items and    *)
(* the callers in the middle of a call are together QueueCap               *)
(* (butler/queue.go).                                                      *)
THEOREM QueueTokens == Spec => [](TypeOK /\ TokensAccounted)
<1>1. QED
  BY QInit, QNext, PTL DEF Spec, QInv
-----------------------------------------------------------------------------
(* The heartbeats *)

(* No message is of the future, pulses come in every unit, and the monitor *)
(* checks no later than CheckEvery units after its latest check, when it   *)
(* degraded who had been silent for longer.                                *)
Heard(c) ==
  /\ pulsed[c] <= time /\ time <= pulsed[c] + 1
  /\ received[c] <= lastPulse[c] /\ lastPulse[c] <= time
  /\ status[c] = "degraded" => pulsed[c] >= received[c] + CheckEvery
  /\ status[c] = "ok" => lastPulse[c] + CheckEvery >= checked

BeatInv ==
  /\ time \in Nat /\ checked \in Nat
  /\ pulsed \in [Cores -> Nat] /\ received \in [Cores -> Nat] /\ lastPulse \in [Cores -> Nat]
  /\ status \in [Cores -> {"ok", "degraded"}]
  /\ bus \in Seq((Cores \cup {Other}) \X Nat)
  /\ \A i \in DOMAIN bus : bus[i][2] <= time
  /\ checked % CheckEvery = 0 /\ checked <= time /\ time <= checked + CheckEvery
  /\ \A c \in Cores : Heard(c)

(* One step behind a multiple is a multiple. *)
LEMMA MultipleAfter ==
  ASSUME NEW n \in Nat \ {0}, NEW a \in Nat, a % n = 0
  PROVE  (a + n) % n = 0
<1>1. PICK k \in Int : k = a \div n
  OBVIOUS
<1>2. a = n * k
  BY <1>1
<1>3. a + n = (k + 1) * n /\ k + 1 \in Int
  BY <1>1, <1>2
<1>4. \A m \in Int : (m * n) % n = 0
  OBVIOUS
<1>5. QED
  BY <1>3, <1>4

LEMMA BeatInit == Beat!Init => BeatInv
<1> SUFFICES ASSUME Beat!Init PROVE BeatInv
  OBVIOUS
<1>1. 0 % CheckEvery = 0
  BY RunAssumption
<1>2. bus = <<>> /\ bus \in Seq((Cores \cup {Other}) \X Nat) /\ DOMAIN bus = {}
  BY EmptySeq DEF Beat!Init
<1>3. QED
  BY <1>1, <1>2, RunAssumption DEF Beat!Init, BeatInv, Heard

(* What Send leaves in the channel. *)
LEMMA BeatSent ==
  ASSUME BeatInv, NEW m \in (Cores \cup {Other}) \X Nat, m[2] <= time, Beat!Send(m)
  PROVE  /\ bus' \in Seq((Cores \cup {Other}) \X Nat)
         /\ \A i \in DOMAIN bus' : bus'[i][2] <= time
<1>1. CASE bus' = bus
  BY <1>1 DEF BeatInv
<1>2. CASE bus' = Append(bus, m)
  <2>1. /\ bus' \in Seq((Cores \cup {Other}) \X Nat) /\ Len(bus') = Len(bus) + 1
        /\ DOMAIN bus = 1..Len(bus) /\ DOMAIN bus' = 1..Len(bus') /\ Len(bus) \in Nat
        /\ \A i \in 1..Len(bus) : bus'[i] = bus[i]
        /\ bus'[Len(bus) + 1] = m
    BY <1>2, AppendProperties, LenProperties DEF BeatInv
  <2>2. \A i \in 1..Len(bus) : bus[i][2] <= time
    BY <2>1 DEF BeatInv
  <2>3. ASSUME NEW i \in 1..(Len(bus) + 1) PROVE bus'[i][2] <= time
    <3>1. CASE i \in 1..Len(bus)
      BY <2>1, <2>2, <3>1
    <3>2. CASE i = Len(bus) + 1
      BY <2>1, <3>2
    <3>3. QED
      BY <2>1, <3>1, <3>2
  <2>4. QED
    BY <2>1, <2>3
<1>3. QED
  BY <1>1, <1>2 DEF Beat!Send

LEMMA BeatPulse ==
  ASSUME BeatInv, NEW c \in Cores, Beat!Pulse(c)
  PROVE  BeatInv'
<1>1. <<c, time>> \in (Cores \cup {Other}) \X Nat /\ <<c, time>>[2] <= time
  BY DEF BeatInv
<1>2. /\ bus' \in Seq((Cores \cup {Other}) \X Nat)
      /\ \A i \in DOMAIN bus' : bus'[i][2] <= time
  BY <1>1, BeatSent DEF Beat!Pulse
<1>3. /\ pulsed' \in [Cores -> Nat] /\ pulsed'[c] = time
      /\ \A d \in Cores : d # c => pulsed'[d] = pulsed[d]
      /\ pulsed[c] < time
      /\ UNCHANGED <<time, received, lastPulse, status, checked>>
  BY DEF BeatInv, Beat!Pulse
<1>4. PICK every \in Nat \ {0} : every = CheckEvery
  BY RunAssumption
<1>5. ASSUME NEW d \in Cores PROVE Heard(d)'
  <2>1. PICK p \in Nat, q \in Nat : p = pulsed[d] /\ q = received[d] /\ p <= time
    BY DEF BeatInv, Heard
  <2>2. CASE d = c
    BY <1>3, <1>4, <2>1, <2>2 DEF BeatInv, Heard
  <2>3. CASE d # c
    BY <1>3, <2>3 DEF BeatInv, Heard
  <2>4. QED
    BY <2>2, <2>3
<1>6. QED
  BY <1>2, <1>3, <1>5 DEF BeatInv

LEMMA BeatSendOther ==
  ASSUME BeatInv, Beat!SendOther
  PROVE  BeatInv'
<1>1. <<Other, time>> \in (Cores \cup {Other}) \X Nat /\ <<Other, time>>[2] <= time
  BY DEF BeatInv
<1>2. /\ bus' \in Seq((Cores \cup {Other}) \X Nat)
      /\ \A i \in DOMAIN bus' : bus'[i][2] <= time
  BY <1>1, BeatSent DEF Beat!SendOther
<1>3. QED
  BY <1>2 DEF BeatInv, Heard, Beat!SendOther

LEMMA BeatRead ==
  ASSUME BeatInv, Beat!Read
  PROVE  BeatInv'
<1>1. /\ bus' \in Seq((Cores \cup {Other}) \X Nat) /\ Len(bus') = Len(bus) - 1
      /\ Len(bus) \in Nat /\ Len(bus) > 0
      /\ DOMAIN bus = 1..Len(bus) /\ DOMAIN bus' = 1..Len(bus')
      /\ \A i \in 1..Len(bus') : bus'[i] = bus[i + 1]
      /\ Head(bus) = bus[1]
  BY HeadTailProperties, LenProperties, EmptySeq DEF BeatInv, Beat!Read
<1>2. ASSUME NEW i \in DOMAIN bus' PROVE bus'[i][2] <= time
  <2>1. i + 1 \in DOMAIN bus /\ bus'[i] = bus[i + 1]
    BY <1>1
  <2>2. QED
    BY <2>1 DEF BeatInv
<1>3. bus[1] \in (Cores \cup {Other}) \X Nat /\ 1 \in DOMAIN bus
  BY <1>1, ElementOfSeq DEF BeatInv
<1>4. PICK t \in Nat : t = Head(bus)[2] /\ t <= time
  BY <1>1, <1>3 DEF BeatInv
<1>5. UNCHANGED <<time, pulsed, checked>>
  BY DEF Beat!Read
<1>6. CASE Head(bus)[1] \in Cores
  <2>1. PICK c \in Cores : c = Head(bus)[1]
    BY <1>6
  <2>2. /\ received' = [received EXCEPT ![c] = t]
        /\ lastPulse' = [lastPulse EXCEPT ![c] = time]
        /\ status' = [status EXCEPT ![c] = "ok"]
    BY <1>4, <1>6, <2>1 DEF Beat!Read
  <2>3. PICK every \in Nat \ {0} : every = CheckEvery
    BY RunAssumption
  <2>4. /\ received' \in [Cores -> Nat] /\ lastPulse' \in [Cores -> Nat]
        /\ status' \in [Cores -> {"ok", "degraded"}]
        /\ received'[c] = t /\ lastPulse'[c] = time /\ status'[c] = "ok"
        /\ \A d \in Cores : d # c => /\ received'[d] = received[d]
                                     /\ lastPulse'[d] = lastPulse[d]
                                     /\ status'[d] = status[d]
    BY <2>2 DEF BeatInv
  <2>5. ASSUME NEW d \in Cores PROVE Heard(d)'
    <3>1. CASE d = c
      BY <1>4, <1>5, <2>3, <2>4, <3>1 DEF BeatInv, Heard
    <3>2. CASE d # c
      BY <1>5, <2>4, <3>2 DEF BeatInv, Heard
    <3>3. QED
      BY <3>1, <3>2
  <2>6. QED
    BY <1>1, <1>2, <1>5, <2>4, <2>5 DEF BeatInv
<1>7. CASE Head(bus)[1] \notin Cores
  <2>1. UNCHANGED <<received, lastPulse, status>>
    BY <1>7 DEF Beat!Read
  <2>2. QED
    BY <1>1, <1>2, <1>5, <2>1 DEF BeatInv, Heard
<1>8. QED
  BY <1>6, <1>7

LEMMA BeatCheck ==
  ASSUME BeatInv, Beat!Check
  PROVE  BeatInv'
<1>1. PICK late \in SUBSET {c \in Cores : Beat!Late(c)} :
        /\ \A c \in Cores \ late : Beat!MaybeInTime(c)
        /\ status' = [c \in Cores |-> IF c \in late THEN "degraded" ELSE status[c]]
  BY DEF Beat!Check
<1>2. time' = time /\ checked' = time /\ time % CheckEvery = 0
  BY DEF Beat!Check, Beat!CheckDue
<1>3. UNCHANGED <<bus, pulsed, received, lastPulse>>
  BY DEF Beat!Check
<1>4. PICK every \in Nat \ {0} : every = CheckEvery
  BY RunAssumption
<1>5. ASSUME NEW c \in Cores
      PROVE  Heard(c)'
  <2>1. PICK p \in Nat, l \in Nat, d \in Nat :
          p = pulsed[c] /\ l = lastPulse[c] /\ d = received[c]
    BY DEF BeatInv
  <2>2. CASE c \in late
    <3>1. Beat!Late(c)
      BY <1>1, <2>2
    <3>2. status'[c] = "degraded"
      BY <1>1, <2>2
    <3>3. QED
      BY <1>4, <2>1, <3>1, <3>2, <1>2, <1>3 DEF BeatInv, Heard, Beat!Late
  <2>3. CASE c \notin late
    <3>1. Beat!MaybeInTime(c)
      BY <1>1, <2>3
    <3>2. status'[c] = status[c]
      BY <1>1, <2>3
    <3>3. QED
      BY <1>4, <2>1, <3>1, <3>2, <1>2, <1>3 DEF BeatInv, Heard, Beat!MaybeInTime
  <2>4. QED
    BY <2>2, <2>3
<1>6. status' \in [Cores -> {"ok", "degraded"}]
  BY <1>1 DEF BeatInv
<1>7. QED
  BY <1>2, <1>3, <1>4, <1>5, <1>6 DEF BeatInv

(* The check is due again CheckEvery units after the latest.               *)
LEMMA BeatTick ==
  ASSUME BeatInv, Beat!Tick
  PROVE  BeatInv'
<1>1. PICK every \in Nat \ {0} : every = CheckEvery
  BY RunAssumption
<1>2. (checked + every) % every = 0
  BY <1>1, MultipleAfter DEF BeatInv
<1>3. time # checked + CheckEvery
  <2>1. CASE time = checked + CheckEvery
    <3>1. time % CheckEvery = 0 /\ checked < time
      BY <1>1, <1>2, <2>1 DEF BeatInv
    <3>2. QED
      BY <3>1 DEF Beat!Tick, Beat!CheckDue
  <2>2. QED
    BY <2>1
<1>4. time' = time + 1 /\ UNCHANGED <<bus, pulsed, received, lastPulse, status, checked>>
  BY DEF Beat!Tick
<1>5. \A c \in Cores : pulsed[c] = time
  BY DEF Beat!Tick
<1>6. QED
  BY <1>1, <1>3, <1>4, <1>5 DEF BeatInv, Heard

LEMMA BeatNext == BeatInv /\ [Beat!Next]_beatVars => BeatInv'
<1> SUFFICES ASSUME BeatInv, [Beat!Next]_beatVars PROVE BeatInv'
  OBVIOUS
<1>1. CASE UNCHANGED beatVars
  BY <1>1 DEF BeatInv, Heard, beatVars
<1>2. CASE Beat!Next
  BY <1>2, BeatPulse, BeatSendOther, BeatRead, BeatCheck, BeatTick DEF Beat!Next
<1>3. QED
  BY <1>1, <1>2

(* Whoever is not degraded was heard of at the check before last or later. *)
LEMMA BeatSilent == BeatInv => Beat!DegradedWhenSilent
<1> SUFFICES ASSUME BeatInv, NEW c \in Cores
             PROVE  /\ status[c] = "degraded" => pulsed[c] - received[c] >= CheckEvery
                    /\ time - lastPulse[c] > 2 * CheckEvery => status[c] = "degraded"
  BY DEF Beat!DegradedWhenSilent
<1>1. PICK p \in Nat, l \in Nat, d \in Nat, every \in Nat :
        /\ p = pulsed[c] /\ l = lastPulse[c] /\ d = received[c] /\ every = CheckEvery
        /\ Heard(c)
  BY RunAssumption DEF BeatInv
<1>2. status[c] = "degraded" \/ status[c] = "ok"
  BY DEF BeatInv
<1>3. QED
  BY <1>1, <1>2 DEF BeatInv, Heard
-----------------------------------------------------------------------------
(* The registry *)

Metadata == [registered : BOOLEAN, healthy : BOOLEAN, fails : Nat, checked : BOOLEAN]
Answers == [held : BOOLEAN, healthy : BOOLEAN, stale : BOOLEAN]

(* While an answer about an earlier registration is held, the record has   *)
(* no failure yet that is not the registration's own.                      *)
OwnFailures(k) ==
  /\ meta[k].registered => (meta[k].healthy <=> meta[k].fails < DegradedFailCount)
  /\ ~meta[k].registered => ~meta[k].checked
  /\ ~meta[k].checked => meta[k].fails = 0
  /\ meta[k].fails <= failures[k] + 1
  /\ loop.answer[k].held /\ loop.answer[k].stale => meta[k].fails <= failures[k]

RegInv ==
  /\ meta \in [SkillIds -> Metadata]
  /\ loop \in [ids : SUBSET SkillIds, answer : [SkillIds -> Answers]]
  /\ failures \in [SkillIds -> Nat]
  /\ \A k \in SkillIds : OwnFailures(k)

LEMMA RegInit == Reg!Init => RegInv
BY RunAssumption
   DEF Reg!Init, Reg!Unregistered, Reg!NoAnswer, RegInv, OwnFailures, Metadata, Answers

(* The records of the skills that are registered anew. *)
LEMMA RegRenewed ==
  ASSUME RegInv, NEW ids \in SUBSET SkillIds, Reg!Renewed(ids)
  PROVE  /\ loop' \in [ids : SUBSET SkillIds, answer : [SkillIds -> Answers]]
         /\ failures' \in [SkillIds -> Nat]
         /\ \A k \in ids : failures'[k] = 0
         /\ \A k \in SkillIds \ ids :
              failures'[k] = failures[k] /\ loop'.answer[k] = loop.answer[k]
<1>1. \A k \in SkillIds : [loop.answer[k] EXCEPT !.stale = TRUE] \in Answers
  BY DEF RegInv, Answers
<1>2. [k \in SkillIds |-> IF k \in ids THEN [loop.answer[k] EXCEPT !.stale = TRUE]
                                      ELSE loop.answer[k]] \in [SkillIds -> Answers]
  BY <1>1 DEF RegInv
<1>3. QED
  BY <1>2 DEF RegInv, Reg!Renewed

LEMMA RegRegister ==
  ASSUME RegInv, NEW k \in SkillIds, Reg!Register(k)
  PROVE  RegInv'
<1>1. /\ loop' \in [ids : SUBSET SkillIds, answer : [SkillIds -> Answers]]
      /\ failures' \in [SkillIds -> Nat]
      /\ failures'[k] = 0
      /\ \A j \in SkillIds \ {k} : failures'[j] = failures[j] /\ loop'.answer[j] = loop.answer[j]
  BY RegRenewed DEF Reg!Register
<1>2. PICK fresh \in Metadata :
        /\ fresh.registered /\ fresh.healthy /\ fresh.fails = 0 /\ ~fresh.checked
        /\ meta' = [meta EXCEPT ![k] = fresh]
  BY DEF Reg!Register, Reg!Fresh, Reg!Unregistered, Metadata
<1>3. /\ meta' \in [SkillIds -> Metadata] /\ meta'[k] = fresh
      /\ \A j \in SkillIds \ {k} : meta'[j] = meta[j]
  BY <1>2 DEF RegInv
<1>4. ASSUME NEW j \in SkillIds PROVE OwnFailures(j)'
  <2>1. CASE j = k
    BY <1>1, <1>2, <1>3, <2>1, RunAssumption DEF OwnFailures
  <2>2. CASE j # k
    BY <1>1, <1>3, <2>2 DEF RegInv, OwnFailures
  <2>3. QED
    BY <2>1, <2>2
<1>5. QED
  BY <1>1, <1>3, <1>4 DEF RegInv

LEMMA RegUnregister ==
  ASSUME RegInv, NEW k \in SkillIds, Reg!Unregister(k)
  PROVE  RegInv'
<1>1. PICK gone \in Metadata :
        ~gone.registered /\ gone.fails = 0 /\ ~gone.checked /\ meta' = [meta EXCEPT ![k] = gone]
  BY DEF Reg!Unregister, Reg!Unregistered, Metadata
<1>2. /\ meta' \in [SkillIds -> Metadata] /\ meta'[k] = gone
      /\ \A j \in SkillIds \ {k} : meta'[j] = meta[j]
  BY <1>1 DEF RegInv
<1>3. loop' = loop /\ failures' = failures
  BY DEF Reg!Unregister
<1>4. ASSUME NEW j \in SkillIds PROVE OwnFailures(j)'
  <2>1. CASE j = k
    BY <1>1, <1>2, <1>3, <2>1 DEF RegInv, OwnFailures
  <2>2. CASE j # k
    BY <1>2, <1>3, <2>2 DEF RegInv, OwnFailures
  <2>3. QED
    BY <2>1, <2>2
<1>5. QED
  BY <1>2, <1>3, <1>4 DEF RegInv

LEMMA RegSync ==
  ASSUME RegInv, Reg!SyncFromGlobal
  PROVE  RegInv'
<1> DEFINE anew == {k \in Global : ~meta[k].registered} \cap SkillIds
<1>1. /\ loop' \in [ids : SUBSET SkillIds, answer : [SkillIds -> Answers]]
      /\ failures' \in [SkillIds -> Nat]
      /\ \A k \in anew : failures'[k] = 0
      /\ \A k \in SkillIds \ anew : failures'[k] = failures[k] /\ loop'.answer[k] = loop.answer[k]
  <2>1. Reg!Renewed(anew)
    BY DEF Reg!SyncFromGlobal, Reg!Renewed
  <2>2. QED
    BY <2>1, RegRenewed
<1>2. ASSUME NEW k \in SkillIds
      PROVE  /\ meta'[k] \in Metadata /\ meta'[k].fails = meta[k].fails
             /\ meta'[k].checked = meta[k].checked
             /\ k \notin Global => meta'[k] = meta[k]
             /\ k \in Global => /\ meta'[k].registered
                                /\ meta'[k].healthy = (meta[k].healthy \/ ~meta[k].checked)
  <2>1. meta[k] \in Metadata
    BY DEF RegInv
  <2>2. meta'[k] = IF k \notin Global THEN meta[k]
                   ELSE [meta[k] EXCEPT !.registered = TRUE, !.healthy = @ \/ ~meta[k].checked]
    BY DEF Reg!SyncFromGlobal
  <2>3. QED
    BY <2>1, <2>2 DEF Metadata
<1>3. meta' \in [SkillIds -> Metadata]
  BY <1>2 DEF Reg!SyncFromGlobal
<1>4. ASSUME NEW k \in SkillIds PROVE OwnFailures(k)'
  <2>1. meta[k] \in Metadata /\ failures[k] \in Nat /\ OwnFailures(k)
    BY DEF RegInv
  <2>2. CASE k \in anew
    BY <1>1, <1>2, <2>1, <2>2, RunAssumption DEF OwnFailures, Metadata
  <2>3. CASE k \notin anew
    <3>1. failures'[k] = failures[k] /\ loop'.answer[k] = loop.answer[k]
      BY <1>1, <2>3
    <3>2. k \in Global => meta[k].registered
      BY <2>3
    <3>3. QED
      BY <1>2, <2>1, <3>1, <3>2, RunAssumption DEF OwnFailures, Metadata
  <2>4. QED
    BY <2>2, <2>3
<1>5. QED
  BY <1>1, <1>3, <1>4 DEF RegInv

LEMMA RegStart ==
  ASSUME RegInv, Reg!StartHealthCheck
  PROVE  RegInv'
<1>1. /\ loop' \in [ids : SUBSET SkillIds, answer : [SkillIds -> Answers]]
      /\ loop'.answer = loop.answer
  BY DEF RegInv, Reg!StartHealthCheck
<1>2. meta' = meta /\ failures' = failures
  BY DEF Reg!StartHealthCheck
<1>3. QED
  BY <1>1, <1>2 DEF RegInv, OwnFailures

LEMMA RegCheck ==
  ASSUME RegInv, NEW k \in SkillIds, NEW healthy \in BOOLEAN, Reg!CheckFn(k, healthy)
  PROVE  RegInv'
<1>1. PICK answer \in Answers :
        /\ answer.stale => ~meta[k].registered
        /\ loop' = [ids |-> loop.ids \ {k}, answer |-> [loop.answer EXCEPT ![k] = answer]]
  <2>1. PICK stale \in BOOLEAN : stale = ~meta[k].registered
    OBVIOUS
  <2>2. [held |-> TRUE, healthy |-> healthy, stale |-> stale] \in Answers
    BY DEF Answers
  <2>3. loop' = [ids |-> loop.ids \ {k},
                 answer |-> [loop.answer EXCEPT ![k] =
                               [held |-> TRUE, healthy |-> healthy, stale |-> stale]]]
    BY <2>1 DEF Reg!CheckFn
  <2>4. stale => ~meta[k].registered
    BY <2>1
  <2>5. QED
    BY <2>2, <2>3, <2>4
<1>2. /\ loop' \in [ids : SUBSET SkillIds, answer : [SkillIds -> Answers]]
      /\ loop'.answer[k] = answer
      /\ \A j \in SkillIds \ {k} : loop'.answer[j] = loop.answer[j]
  BY <1>1 DEF RegInv
<1>3. meta' = meta /\ failures' = failures
  BY DEF Reg!CheckFn
<1>4. ASSUME NEW j \in SkillIds PROVE OwnFailures(j)'
  <2>1. meta[j] \in Metadata /\ failures[j] \in Nat /\ OwnFailures(j)
    BY DEF RegInv
  <2>2. CASE j = k
    <3>1. meta'[j] = meta[j] /\ failures'[j] = failures[j]
      BY <1>3
    <3>2. loop'.answer[j].stale => ~meta[j].registered
      BY <1>1, <1>2, <2>2
    <3>3. PICK x \in Nat, y \in Nat : x = meta[j].fails /\ y = failures[j]
      BY <2>1 DEF Metadata
    <3>4. ~meta[j].registered => x = 0
      BY <2>1, <3>3 DEF OwnFailures
    <3>5. QED
      BY <2>1, <3>1, <3>2, <3>3, <3>4 DEF OwnFailures
  <2>3. CASE j # k
    BY <1>2, <1>3, <2>1, <2>3 DEF OwnFailures
  <2>4. QED
    BY <2>2, <2>3
<1>5. QED
  BY <1>2, <1>3, <1>4 DEF RegInv

LEMMA RegRecorded ==
  ASSUME RegInv, NEW k \in SkillIds, Reg!HealthCheck(k)
  PROVE  RegInv'
<1>1. PICK none \in Answers : ~none.held /\ loop' = [loop EXCEPT !.answer[k] = none]
  BY DEF Reg!HealthCheck, Reg!NoAnswer, Answers
<1>2. /\ loop' \in [ids : SUBSET SkillIds, answer : [SkillIds -> Answers]]
      /\ loop'.answer[k] = none
      /\ \A j \in SkillIds \ {k} : loop'.answer[j] = loop.answer[j]
  BY <1>1 DEF RegInv
<1>3. PICK m \in Metadata, a \in Answers, n \in Nat :
        /\ m = meta[k] /\ a = loop.answer[k] /\ n = failures[k] /\ a.held /\ OwnFailures(k)
  BY DEF RegInv, Reg!HealthCheck
<1>4. /\ failures' \in [SkillIds -> Nat]
      /\ failures'[k] = IF ~m.registered \/ a.stale THEN n ELSE IF a.healthy THEN 0 ELSE n + 1
      /\ \A j \in SkillIds \ {k} : failures'[j] = failures[j]
  BY <1>3 DEF RegInv, Reg!HealthCheck
<1>5. PICK r \in Metadata :
        /\ r.registered = m.registered
        /\ ~m.registered => r = m
        /\ m.registered =>
             /\ r.checked
             /\ r.fails = (IF a.healthy THEN 0 ELSE m.fails + 1)
             /\ r.healthy <=> a.healthy \/ (m.healthy /\ m.fails + 1 < DegradedFailCount)
        /\ meta' = [meta EXCEPT ![k] = r]
  <2>1. CASE ~m.registered
    <3>1. meta' = [meta EXCEPT ![k] = m]
      BY <1>3, <2>1 DEF RegInv, Reg!HealthCheck
    <3>2. QED
      BY <2>1, <3>1
  <2>2. CASE m.registered
    <3>1. meta' = [meta EXCEPT ![k] = Reg!Checked(m, a.healthy)]
      BY <1>3, <2>2 DEF Reg!HealthCheck
    <3>2. CASE a.healthy
      <4>1. Reg!Checked(m, a.healthy) = [m EXCEPT !.checked = TRUE, !.fails = 0, !.healthy = TRUE]
        BY <3>2 DEF Reg!Checked
      <4>2. QED
        BY <1>3, <2>2, <3>1, <3>2, <4>1 DEF Metadata
    <3>3. CASE ~a.healthy
      <4>1. PICK h \in BOOLEAN : h = (m.healthy /\ m.fails + 1 < DegradedFailCount)
        OBVIOUS
      <4>2. Reg!Checked(m, a.healthy) =
              [m EXCEPT !.checked = TRUE, !.fails = m.fails + 1, !.healthy = h]
        BY <3>3, <4>1 DEF Reg!Checked
      <4>3. PICK r \in Metadata :
              /\ r = Reg!Checked(m, a.healthy) /\ r.registered = m.registered
              /\ r.checked /\ r.fails = m.fails + 1 /\ r.healthy = h
        <5>1. m \in Metadata /\ m.fails + 1 \in Nat /\ h \in BOOLEAN
          BY <1>3, <4>1 DEF Metadata
        <5>2. Reg!Checked(m, a.healthy) \in Metadata
          BY <4>2, <5>1 DEF Metadata
        <5>3. /\ Reg!Checked(m, a.healthy).registered = m.registered
              /\ Reg!Checked(m, a.healthy).checked
              /\ Reg!Checked(m, a.healthy).fails = m.fails + 1
              /\ Reg!Checked(m, a.healthy).healthy = h
          BY <4>2, <5>1 DEF Metadata
        <5>4. QED
          BY <5>2, <5>3
      <4>4. r.healthy <=> m.healthy /\ m.fails + 1 < DegradedFailCount
        BY <4>1, <4>3
      <4>5. meta' = [meta EXCEPT ![k] = r]
        BY <3>1, <4>3
      <4>6. r.healthy <=> \/ a.healthy
                          \/ m.healthy /\ m.fails + 1 < DegradedFailCount
        BY <3>3, <4>4
      <4>7. r.fails = IF a.healthy THEN 0 ELSE m.fails + 1
        BY <3>3, <4>3
      <4>8. r \in Metadata /\ r.registered = m.registered /\ r.checked
        BY <4>3
      <4>9. QED
        BY <2>2, <4>5, <4>6, <4>7, <4>8
    <3>4. QED
      BY <3>2, <3>3
  <2>3. QED
    BY <2>1, <2>2
<1>6. /\ meta' \in [SkillIds -> Metadata] /\ meta'[k] = r
      /\ \A j \in SkillIds \ {k} : meta'[j] = meta[j]
  BY <1>5 DEF RegInv
<1>7. ASSUME NEW j \in SkillIds PROVE OwnFailures(j)'
  <2>1. CASE j = k
    <3>1. PICK few \in Nat : few = DegradedFailCount /\ few > 0
      BY RunAssumption
    <3>2. PICK x \in Nat, y \in Nat : x = m.fails /\ y = r.fails
      BY DEF Metadata
    <3>3. /\ m.registered => (m.healthy <=> x < few)
          /\ ~m.registered => ~m.checked
          /\ ~m.checked => x = 0
          /\ x <= n + 1
          /\ a.stale => x <= n
      BY <1>3, <3>1, <3>2 DEF OwnFailures
    <3>4. meta'[j] = r /\ ~loop'.answer[j].held /\ failures'[j] = failures'[k]
      BY <1>1, <1>2, <1>6, <2>1
    <3>5. CASE ~m.registered
      <4>1. r = m /\ failures'[k] = n
        BY <1>4, <1>5, <3>5
      <4>2. QED
        BY <3>1, <3>2, <3>3, <3>4, <3>5, <4>1 DEF OwnFailures
    <3>6. CASE m.registered
      <4>0. r.healthy <=> a.healthy \/ (m.healthy /\ m.fails + 1 < DegradedFailCount)
        BY <1>5, <3>6
      <4>1. /\ r.registered /\ r.checked
            /\ y = IF a.healthy THEN 0 ELSE x + 1
            /\ r.healthy <=> a.healthy \/ (m.healthy /\ x + 1 < few)
        <5>1. r.registered /\ r.checked
          BY <1>5, <3>6
        <5>2. r.fails = IF a.healthy THEN 0 ELSE m.fails + 1
          BY <1>5, <3>6
        <5>3. QED
          BY <3>1, <3>2, <4>0, <5>1, <5>2
      <4>2. failures'[k] = IF a.stale THEN n ELSE IF a.healthy THEN 0 ELSE n + 1
        BY <1>4, <3>6
      <4>3. r.healthy <=> y < few
        BY <3>1, <3>3, <3>6, <4>1
      <4>4. y <= failures'[k] + 1
        BY <3>3, <4>1, <4>2
      <4>5. QED
        BY <3>1, <3>2, <3>4, <4>1, <4>3, <4>4 DEF OwnFailures
    <3>7. QED
      BY <3>5, <3>6
  <2>2. CASE j # k
    BY <1>2, <1>4, <1>6, <2>2 DEF RegInv, OwnFailures
  <2>3. QED
    BY <2>1, <2>2
<1>8. QED
  BY <1>2, <1>4, <1>6, <1>7 DEF RegInv

LEMMA RegNext == RegInv /\ [Reg!Next]_regVars => RegInv'
<1> SUFFICES ASSUME RegInv, [Reg!Next]_regVars PROVE RegInv'
  OBVIOUS
<1>1. CASE UNCHANGED regVars
  BY <1>1 DEF RegInv, OwnFailures, regVars
<1>2. CASE Reg!Next
  BY <1>2, RegRegister, RegUnregister, RegSync, RegStart, RegCheck, RegRecorded DEF Reg!Next
<1>3. QED
  BY <1>1, <1>2

LEMMA RegOwn == RegInv => Reg!FailuresItsOwn
BY DEF RegInv, OwnFailures, Reg!FailuresItsOwn
-----------------------------------------------------------------------------
(* The spawning of cores *)

SpawnedBy(c) == {d \in CoreIds : c \in parents[d]}

SpawnInv ==
  /\ depths \in [CoreIds -> 0..MaxSpawnDepth]
  /\ children \in [CoreIds -> 0..MaxChildrenPerCore]
  /\ parents \in [CoreIds -> SUBSET CoreIds]
  /\ \A c \in CoreIds : Cardinality(SpawnedBy(c)) <= children[c]

(* Induction over the numbers, as a fact about the set of those that have  *)
(* a property: the first number outside of it cannot exist.                *)
LEMMA LessIsWellFounded ==
  IsWellFoundedOn({ss \in Nat \X Nat : ss[1] < ss[2]}, Nat)
<1>1. {ss \in Nat \X Nat : ss[1] < ss[2]} = OpToRel(<, Nat)
  BY Zenon DEF OpToRel
<1>2. QED
  BY <1>1, NatLessThanWellFounded, Zenon

LEMMA NumbersIncluded ==
  ASSUME NEW T, 0 \in T, \A n \in Nat : n \in T => n + 1 \in T
  PROVE  Nat \subseteq T
<1> DEFINE less == {ss \in Nat \X Nat : ss[1] < ss[2]}
           out == Nat \ T
<1>1. SUFFICES ASSUME out # {} PROVE FALSE
  OBVIOUS
<1>2. PICK n \in out : \A m \in out : ~(<<m, n>> \in less)
  <2>1. IsWellFoundedOn(less, Nat) /\ out \subseteq Nat
    BY LessIsWellFounded
  <2> HIDE DEF less, out
  <2>2. QED
    BY <1>1, <2>1, WFMin
<1>3. n # 0 /\ n - 1 \in Nat /\ n - 1 \notin T
  BY <1>2
<1>4. <<n - 1, n>> \in less
  BY <1>2, <1>3
<1>5. QED
  BY <1>2, <1>3, <1>4

LEMMA SpawnInit == Tree!Init => SpawnInv
<1> SUFFICES ASSUME Tree!Init PROVE SpawnInv
  OBVIOUS
<1>1. ASSUME NEW c \in CoreIds PROVE Cardinality(SpawnedBy(c)) <= children[c]
  <2>1. SpawnedBy(c) = {}
    BY DEF Tree!Init, SpawnedBy
  <2>2. QED
    BY <2>1, FS_EmptySet DEF Tree!Init
<1>2. QED
  BY <1>1, RunAssumption DEF Tree!Init, SpawnInv

LEMMA SpawnRecorded ==
  ASSUME SpawnInv, NEW parent \in CoreIds, NEW child \in CoreIds, Tree!Spawn(parent, child)
  PROVE  SpawnInv'
<1>1. CASE depths[parent] >= MaxSpawnDepth \/ children[parent] >= MaxChildrenPerCore
  BY <1>1 DEF Tree!Spawn, SpawnInv, SpawnedBy
<1>2. CASE ~(depths[parent] >= MaxSpawnDepth \/ children[parent] >= MaxChildrenPerCore)
  <2>1. /\ ~(depths[parent] >= MaxSpawnDepth) /\ ~(children[parent] >= MaxChildrenPerCore)
        /\ depths' = [depths EXCEPT ![child] = depths[parent] + 1]
        /\ children' = [children EXCEPT ![parent] = @ + 1]
        /\ parents' = [parents EXCEPT ![child] = @ \cup {parent}]
    BY <1>2 DEF Tree!Spawn
  <2>2. PICK deep \in Nat, many \in Nat : deep = MaxSpawnDepth /\ many = MaxChildrenPerCore
    BY RunAssumption
  <2>3. /\ depths' \in [CoreIds -> 0..MaxSpawnDepth]
        /\ children' \in [CoreIds -> 0..MaxChildrenPerCore]
        /\ parents' \in [CoreIds -> SUBSET CoreIds]
    BY <2>1, <2>2 DEF SpawnInv
  <2>4. ASSUME NEW c \in CoreIds PROVE Cardinality(SpawnedBy(c)') <= children'[c]
    <3>1. IsFiniteSet(SpawnedBy(c)) /\ Cardinality(SpawnedBy(c)) \in Nat
      BY RunAssumption, FS_Subset, FS_CardinalityType DEF SpawnedBy
    <3>2. Cardinality(SpawnedBy(c)) <= children[c] /\ children[c] \in Nat
      BY DEF SpawnInv
    <3>3. CASE c = parent
      <4>1. SpawnedBy(c)' = SpawnedBy(c) \cup {child}
        BY <2>1, <3>3 DEF SpawnInv, SpawnedBy
      <4>2. Cardinality(SpawnedBy(c)') <= Cardinality(SpawnedBy(c)) + 1
        BY <3>1, <4>1, FS_AddElement
      <4>3. Cardinality(SpawnedBy(c)') \in Nat
        BY <3>1, <4>1, FS_AddElement, FS_CardinalityType
      <4>4. children'[c] = children[c] + 1
        BY <2>1, <3>3 DEF SpawnInv
      <4>5. QED
        BY <3>1, <3>2, <4>2, <4>3, <4>4
    <3>4. CASE c # parent
      <4>1. SpawnedBy(c)' = SpawnedBy(c)
        BY <2>1, <3>4 DEF SpawnInv, SpawnedBy
      <4>2. children'[c] = children[c]
        BY <2>1, <3>4 DEF SpawnInv
      <4>3. QED
        BY <3>2, <4>1, <4>2
    <3>5. QED
      BY <3>3, <3>4
  <2>5. QED
    BY <2>3, <2>4 DEF SpawnInv
<1>3. QED
  BY <1>1, <1>2

LEMMA SpawnNext == SpawnInv /\ [Tree!Next]_spawnVars => SpawnInv'
<1> SUFFICES ASSUME SpawnInv, [Tree!Next]_spawnVars PROVE SpawnInv'
  OBVIOUS
<1>1. CASE UNCHANGED spawnVars
  BY <1>1 DEF SpawnInv, SpawnedBy, spawnVars
<1>2. ASSUME NEW c \in CoreIds, Tree!CanSpawn(c) PROVE SpawnInv'
  BY <1>2 DEF Tree!CanSpawn, SpawnInv, SpawnedBy
<1>3. ASSUME NEW c \in CoreIds, NEW d \in CoreIds, Tree!Spawn(c, d) PROVE SpawnInv'
  BY <1>3, SpawnRecorded
<1>4. QED
  BY <1>1, <1>2, <1>3 DEF Tree!Next

(* Along a line of descent the depths fall by one, so that its first core  *)
(* is as deep as the line is long.                                         *)
LEMMA DepthFalls ==
  ASSUME SpawnInv, Tree!InOrder, NEW line \in [0..(MaxSpawnDepth + 1) -> CoreIds],
         Tree!Descent(line)
  PROVE  depths[line[0]] = depths[line[MaxSpawnDepth + 1]] + MaxSpawnDepth + 1
<1> DEFINE fallen == {n \in Nat : n <= MaxSpawnDepth + 1 => depths[line[0]] = depths[line[n]] + n}
<1>1. PICK deep \in Nat : deep = MaxSpawnDepth
  BY RunAssumption
<1>2. 0 \in fallen
  BY <1>1 DEF SpawnInv
<1>3. ASSUME NEW n \in Nat, n \in fallen PROVE n + 1 \in fallen
  <2>1. CASE n > deep
    BY <1>1, <2>1
  <2>2. CASE n <= deep
    <3>1. n \in 0..MaxSpawnDepth /\ n \in 0..(MaxSpawnDepth + 1)
          /\ n + 1 \in 0..(MaxSpawnDepth + 1)
      BY <1>1, <2>2
    <3>2. line[n + 1] \in parents[line[n]] /\ line[n] \in CoreIds /\ line[n + 1] \in CoreIds
      BY <3>1 DEF Tree!Descent
    <3>3. depths[line[n]] = depths[line[n + 1]] + 1
      BY <3>2 DEF Tree!InOrder
    <3>4. depths[line[0]] = depths[line[n]] + n
      BY <1>1, <1>3, <2>2
    <3>5. depths[line[n + 1]] \in Nat
      BY <1>1, <3>2 DEF SpawnInv
    <3>6. QED
      BY <3>3, <3>4, <3>5
  <2>3. QED
    BY <1>1, <2>1, <2>2
<1>4. Nat \subseteq fallen
  <2> HIDE DEF fallen
  <2>1. QED
    BY <1>2, <1>3, NumbersIncluded
<1>5. deep + 1 \in fallen /\ deep + 1 \in 0..(MaxSpawnDepth + 1)
  BY <1>1, <1>4
<1>6. depths[line[0]] = depths[line[deep + 1]] + (deep + 1)
  BY <1>1, <1>5
<1>7. depths[line[deep + 1]] \in Nat
  BY <1>1, <1>5 DEF SpawnInv
<1>8. QED
  BY <1>1, <1>6, <1>7

LEMMA SpawnNesting == SpawnInv => Tree!NestingBounded
<1> SUFFICES ASSUME SpawnInv PROVE Tree!NestingBounded
  OBVIOUS
<1>1. ASSUME NEW c \in CoreIds
      PROVE  Tree!Cardinality({d \in CoreIds : c \in parents[d]}) <= MaxChildrenPerCore
  <2>1. IsFiniteSet(SpawnedBy(c)) /\ Cardinality(SpawnedBy(c)) \in Nat
    BY RunAssumption, FS_Subset, FS_CardinalityType DEF SpawnedBy
  <2>2. Cardinality(SpawnedBy(c)) <= children[c] /\ children[c] \in 0..MaxChildrenPerCore
    BY DEF SpawnInv
  <2>3. Cardinality(SpawnedBy(c)) <= MaxChildrenPerCore
    BY <2>1, <2>2, RunAssumption
  <2>4. QED
    BY <2>3 DEF SpawnedBy, Tree!Cardinality, Cardinality
<1>2. ASSUME Tree!InOrder, NEW line \in [0..(MaxSpawnDepth + 1) -> CoreIds], Tree!Descent(line)
      PROVE  FALSE
  <2>1. PICK deep \in Nat : deep = MaxSpawnDepth
    BY RunAssumption
  <2>2. depths[line[0]] = depths[line[deep + 1]] + deep + 1
    BY <1>2, <2>1, DepthFalls
  <2>3. line[0] \in CoreIds /\ line[deep + 1] \in CoreIds
    BY <2>1
  <2>4. depths[line[0]] \in 0..deep /\ depths[line[deep + 1]] \in 0..deep
    BY <2>1, <2>3 DEF SpawnInv
  <2>5. QED
    BY <2>2, <2>4
<1>3. QED
  BY <1>1, <1>2 DEF Tree!NestingBounded
-----------------------------------------------------------------------------
(* The end of the process *)

(* The drain ends only behind whoever closed the ledger first, who goes on *)
(* only behind the drain.                                                  *)
DownInv ==
  /\ main \in {"boot", "serve", "close", "wait", "return"}
  /\ signal \in {"none", "shutdown", "snapshot", "record", "close", "wait", "exit"}
  /\ closer \in {"none", "main", "signal"} /\ exit \in {"no", "main", "signal", "fatal"}
  /\ ~draining => closer # "none" /\ ledgerPending = 0
  /\ closer = "main" => main \in {"wait", "return"} /\ (main = "return" => ~draining)
  /\ closer = "signal" => signal \in {"wait", "exit"} /\ (signal = "exit" => ~draining)
  /\ exit = "main" => main = "return"
  /\ exit = "signal" => signal = "exit"

LEMMA DownInit == Down!Init => DownInv
BY DEF Down!Init, DownInv

LEMMA DownRequests ==
  ASSUME DownInv, NEW r \in Connections, Down!Accept(r) \/ Down!Finish(r)
  PROVE  DownInv'
BY DEF DownInv, Down!Alive, Down!Record, Down!Accept, Down!Finish, Down!ledgerVars

LEMMA DownDrain ==
  ASSUME DownInv, Down!Drain
  PROVE  DownInv'
BY DEF DownInv, Down!Alive, Down!Drain

LEMMA DownClose ==
  ASSUME DownInv, Down!MainClose \/ Down!SignalClose
  PROVE  DownInv'
<1>1. CASE Down!MainClose
  <2>1. CASE closer = "none"
    BY <1>1, <2>1 DEF DownInv, Down!Alive, Down!MainClose, Down!Close
  <2>2. CASE closer # "none"
    BY <1>1, <2>2 DEF DownInv, Down!Alive, Down!MainClose, Down!Close
  <2>3. QED
    BY <2>1, <2>2
<1>2. CASE Down!SignalClose
  <2>1. CASE closer = "none"
    BY <1>2, <2>1 DEF DownInv, Down!Alive, Down!SignalClose, Down!Close
  <2>2. CASE closer # "none"
    BY <1>2, <2>2 DEF DownInv, Down!Alive, Down!SignalClose, Down!Close
  <2>3. QED
    BY <2>1, <2>2
<1>3. QED
  BY <1>1, <1>2

LEMMA DownMain ==
  ASSUME DownInv,
         Down!NewServer \/ Down!Listen \/ Down!ListenFails \/ Down!ServerClosed
           \/ Down!MainDrained \/ Down!Return
  PROVE  DownInv'
BY DEF DownInv, Down!Alive, Down!NewServer, Down!Listen, Down!ListenFails, Down!ServerClosed,
       Down!MainDrained, Down!Return, Down!ledgerVars

LEMMA DownSignal ==
  ASSUME DownInv,
         Down!Signal \/ Down!ShutdownEnds \/ Down!Snapshot \/ Down!RecordShutdown
           \/ Down!SignalDrained \/ Down!Exit
  PROVE  DownInv'
BY DEF DownInv, Down!Alive, Down!Record, Down!Signal, Down!ShutdownEnds, Down!Snapshot,
       Down!RecordShutdown, Down!SignalDrained, Down!Exit, Down!ledgerVars

LEMMA DownNext == DownInv /\ [Down!Next]_downVars => DownInv'
<1> SUFFICES ASSUME DownInv, [Down!Next]_downVars PROVE DownInv'
  OBVIOUS
<1>1. CASE UNCHANGED downVars
  BY <1>1 DEF DownInv, downVars
<1>2. CASE Down!Next
  BY <1>2, DownRequests, DownDrain, DownClose, DownMain, DownSignal
     DEF Down!Next, Down!MainStep, Down!SignalStep
<1>3. QED
  BY <1>1, <1>2

LEMMA DownFlushed == DownInv => Down!FirstCloserFlushes
BY DEF DownInv, Down!FirstCloserFlushes
-----------------------------------------------------------------------------
(* The stream of events *)

Events == [id : Nat, late : BOOLEAN]

SseInv ==
  /\ closed \in BOOLEAN
  /\ wire \in Seq(Events)
  /\ stopper \in [{"beat", "owner"} -> {"run", "stop", "close", "writer", "left"}]
  /\ Sse!EventsCounted

LEMMA SseInit == Sse!Init => SseInv
<1> SUFFICES ASSUME Sse!Init PROVE SseInv
  OBVIOUS
<1>1. wire = <<>> /\ wire \in Seq(Events) /\ DOMAIN wire = {}
  BY EmptySeq DEF Sse!Init
<1>2. /\ closed \in BOOLEAN
      /\ stopper \in [{"beat", "owner"} -> {"run", "stop", "close", "writer", "left"}]
      /\ stopper["owner"] # "left"
  BY DEF Sse!Init
<1>3. QED
  BY <1>1, <1>2 DEF SseInv, Sse!EventsCounted

(* An event is written under the next id, or not at all. *)
LEMMA SseWritten ==
  ASSUME SseInv, Sse!WriteEvent
  PROVE  /\ wire' \in Seq(Events)
         /\ \A i \in DOMAIN wire' : wire'[i].id = i /\ ~wire'[i].late
<1>1. CASE closed
  BY <1>1 DEF SseInv, Sse!WriteEvent, Sse!EventsCounted
<1>2. CASE ~closed
  <2>1. PICK e \in Events : e.id = Len(wire) + 1 /\ ~e.late /\ wire' = Append(wire, e)
    <3>1. Len(wire) + 1 \in Nat
      BY LenProperties DEF SseInv
    <3>2. [id |-> Len(wire) + 1, late |-> closed] \in Events
      BY <3>1 DEF SseInv, Events
    <3>3. QED
      BY <1>2, <3>2 DEF Sse!WriteEvent, Sse!NextId
  <2>2. /\ wire' \in Seq(Events)
        /\ Len(wire) \in Nat /\ DOMAIN wire = 1..Len(wire) /\ DOMAIN wire' = 1..(Len(wire) + 1)
        /\ \A i \in 1..Len(wire) : wire'[i] = wire[i]
        /\ wire'[Len(wire) + 1] = e
    BY <2>1, AppendProperties, LenProperties DEF SseInv
  <2>3. ASSUME NEW i \in 1..(Len(wire) + 1) PROVE wire'[i].id = i /\ ~wire'[i].late
    <3>1. CASE i \in 1..Len(wire)
      BY <2>2, <3>1 DEF SseInv, Sse!EventsCounted
    <3>2. CASE i = Len(wire) + 1
      BY <2>1, <2>2, <3>2
    <3>3. QED
      BY <2>2, <3>1, <3>2
  <2>4. QED
    BY <2>2, <2>3
<1>3. QED
  BY <1>1, <1>2

LEMMA SseWrites ==
  ASSUME SseInv, Sse!Heartbeat \/ \E s \in Senders : Sse!SendWrites(s)
  PROVE  SseInv'
<1>1. Sse!WriteEvent /\ UNCHANGED <<closed, stopper>>
  BY DEF Sse!Heartbeat, Sse!SendWrites
<1>2. QED
  BY <1>1, SseWritten DEF SseInv, Sse!EventsCounted

LEMMA SseStops ==
  ASSUME SseInv, NEW p \in {"beat", "owner"}, Sse!Stop(p)
  PROVE  SseInv'
<1>1. wire' = wire
  BY DEF Sse!Stop
<1>2. CASE stopper[p] = "writer" /\ closed' = TRUE /\ stopper' = [stopper EXCEPT ![p] = "left"]
  BY <1>1, <1>2 DEF SseInv, Sse!EventsCounted
<1>3. CASE /\ closed' = closed
           /\ \E s \in {"close", "writer"} : stopper' = [stopper EXCEPT ![p] = s]
  BY <1>1, <1>3 DEF SseInv, Sse!EventsCounted
<1>4. QED
  BY <1>2, <1>3 DEF Sse!Stop

LEMMA SseLeaves ==
  ASSUME SseInv, Sse!HeartbeatEnds \/ Sse!OwnerStops
  PROVE  SseInv'
<1>1. /\ closed' = closed /\ wire' = wire
      /\ \/ stopper' = [stopper EXCEPT !["owner"] = "stop"]
         \/ \E s \in {"stop", "left"} : stopper' = [stopper EXCEPT !["beat"] = s]
  BY DEF Sse!HeartbeatEnds, Sse!OwnerStops, Sse!Leave
<1>2. QED
  BY <1>1 DEF SseInv, Sse!EventsCounted

LEMMA SseNext == SseInv /\ [Sse!Next]_sseVars => SseInv'
<1> SUFFICES ASSUME SseInv, [Sse!Next]_sseVars PROVE SseInv'
  OBVIOUS
<1>1. CASE UNCHANGED <<closed, wire, stopper>>
  BY <1>1 DEF SseInv, Sse!EventsCounted
<1>2. CASE UNCHANGED sseVars
  BY <1>1, <1>2 DEF sseVars
<1>3. ASSUME NEW s \in Senders, Sse!SendNotes(s) PROVE SseInv'
  BY <1>1, <1>3 DEF Sse!SendNotes
<1>4. CASE Sse!Cancel
  BY <1>1, <1>4 DEF Sse!Cancel
<1>5. QED
  BY <1>2, <1>3, <1>4, SseWrites, SseStops, SseLeaves DEF Sse!Next
-----------------------------------------------------------------------------
(* The router of the models *)

Places == DOMAIN Backends
Mode(r) == IF request[r].mode = "" THEN "airlock" ELSE request[r].mode

Routes == [at : {"idle", "try", "read", "answered", "failed", "gone"},
           mode : Modes \cup {""}, streamed : BOOLEAN, left : SUBSET Places]
Attempts == [backend : Places, ok : BOOLEAN]
Streams == [state : {"none", "open", "closed"}, produced : Nat, buffered : Nat, read : Nat]

(* The backends left are behind those called; while any is tried, none has *)
(* answered.                                                               *)
Admitted(r, p) == Mode(r) \in Sovereignty[Backends[p]]

Routed(r) ==
  /\ request[r].at = "idle" => called[r] = <<>>
  /\ \A i \in DOMAIN called[r] :
       Admitted(r, called[r][i].backend) /\ HasKey[Backends[called[r][i].backend]]
  /\ \A i, j \in DOMAIN called[r] :
       i < j => called[r][i].backend < called[r][j].backend /\ ~called[r][i].ok
  /\ \A p \in request[r].left :
       Admitted(r, p) /\ \A i \in DOMAIN called[r] : called[r][i].backend < p
  /\ request[r].at = "try" => \A i \in DOMAIN called[r] : ~called[r][i].ok

Counted(r) == stream[r].produced = stream[r].buffered + stream[r].read

LlmInv ==
  /\ request \in [Requests -> Routes]
  /\ called \in [Requests -> Seq(Attempts)]
  /\ stream \in [Requests -> Streams]
  /\ \A r \in Requests : Routed(r) /\ Counted(r)

LEMMA NoAttempts == <<>> \in Seq(Attempts) /\ DOMAIN <<>> = {}
BY EmptySeq

LEMMA LlmInit == Llm!Init => LlmInv
<1> SUFFICES ASSUME Llm!Init PROVE LlmInv
  OBVIOUS
<1>1. <<>> \in Seq(Attempts) /\ DOMAIN <<>> = {}
  BY NoAttempts
<1>2. request \in [Requests -> Routes] /\ stream \in [Requests -> Streams]
  BY DEF Llm!Init, Llm!NoStream, Routes, Streams
<1>3. called \in [Requests -> Seq(Attempts)]
  BY <1>1 DEF Llm!Init
<1>4. ASSUME NEW r \in Requests PROVE Routed(r) /\ Counted(r)
  <2>1. called[r] = <<>> /\ request[r].left = {}
    BY DEF Llm!Init
  <2>2. Routed(r)
    BY <1>1, <2>1 DEF Routed
  <2>3. Counted(r)
    <3>1. stream[r] = [state |-> "none", produced |-> 0, buffered |-> 0, read |-> 0]
      BY DEF Llm!Init, Llm!NoStream
    <3>2. QED
      BY <3>1 DEF Counted
  <2>4. QED
    BY <2>2, <2>3
<1>5. QED
  BY <1>2, <1>3, <1>4 DEF LlmInv

(* A request that goes somewhere else with a part of the backends left.    *)
LEMMA LlmMoved ==
  ASSUME LlmInv, NEW r \in Requests, NEW m \in Routes, called' = called,
         request' = [request EXCEPT ![r] = m],
         m.mode = request[r].mode, m.left \subseteq request[r].left,
         m.at # "idle", m.at = "try" => request[r].at = "try"
  PROVE  request' \in [Requests -> Routes] /\ \A q \in Requests : Routed(q)'
<1>1. /\ request' \in [Requests -> Routes] /\ request'[r] = m
      /\ \A q \in Requests \ {r} : request'[q] = request[q]
  BY DEF LlmInv
<1>2. ASSUME NEW q \in Requests PROVE Routed(q)'
  <2>1. Routed(q)
    BY DEF LlmInv
  <2>2. CASE q = r
    <3>1. Mode(q)' = Mode(q)
      BY <1>1, <2>2 DEF Mode
    <3>2. QED
      BY <1>1, <2>1, <2>2, <3>1 DEF Routed, Admitted
  <2>3. CASE q # r
    BY <1>1, <2>1, <2>3 DEF Routed, Admitted, Mode
  <2>4. QED
    BY <2>2, <2>3
<1>3. QED
  BY <1>1, <1>2

(* A stream whose numbers add up.                                          *)
LEMMA LlmStreamed ==
  ASSUME LlmInv, NEW r \in Requests, NEW s \in Streams, s.produced = s.buffered + s.read,
         stream' = [stream EXCEPT ![r] = s]
  PROVE  stream' \in [Requests -> Streams] /\ \A q \in Requests : Counted(q)'
BY DEF LlmInv, Counted

LEMMA LlmBegin ==
  ASSUME LlmInv, NEW r \in Requests, NEW mode \in Modes \cup {""}, NEW streamed \in BOOLEAN,
         Llm!Begin(r, mode, streamed)
  PROVE  LlmInv'
<1> DEFINE admitted == Llm!FilterBySovereignty(IF mode = "" THEN "airlock" ELSE mode)
<1>1. PICK m \in Routes :
        m.at = "try" /\ m.mode = mode /\ m.left = admitted /\ request' = [request EXCEPT ![r] = m]
  <2>1. admitted \subseteq Places
    BY DEF Llm!FilterBySovereignty, Places
  <2>2. [at |-> "try", mode |-> mode, streamed |-> streamed, left |-> admitted] \in Routes
    BY <2>1 DEF Routes
  <2>3. QED
    BY <2>2 DEF Llm!Begin
<1>2. /\ request' \in [Requests -> Routes] /\ request'[r] = m
      /\ \A q \in Requests \ {r} : request'[q] = request[q]
  BY <1>1 DEF LlmInv
<1>3. called' = called /\ stream' = stream /\ request[r].at = "idle"
  BY DEF Llm!Begin
<1>4. ASSUME NEW q \in Requests PROVE Routed(q)'
  <2>1. Routed(q)
    BY DEF LlmInv
  <2>2. CASE q = r
    <3>1. called'[q] = <<>>
      BY <1>3, <2>1, <2>2 DEF Routed
    <3>2. Mode(q)' = IF mode = "" THEN "airlock" ELSE mode
      BY <1>1, <1>2, <2>2 DEF Mode
    <3>3. \A p \in request'[q].left : Admitted(q, p)'
      BY <1>1, <1>2, <2>2, <3>2 DEF Llm!FilterBySovereignty, Admitted
    <3>4. QED
      <4>1. DOMAIN called'[q] = {}
        BY <3>1, NoAttempts
      <4>2. DOMAIN called'[q] = {} /\ request'[q].at = "try"
        BY <1>1, <1>2, <2>2, <4>1
      <4>3. QED
        BY <3>3, <4>2 DEF Routed
  <2>3. CASE q # r
    BY <1>2, <1>3, <2>1, <2>3 DEF Routed, Admitted, Mode
  <2>4. QED
    BY <2>2, <2>3
<1>5. QED
  BY <1>2, <1>3, <1>4 DEF LlmInv, Counted

LEMMA LlmSkip ==
  ASSUME LlmInv, NEW r \in Requests, Llm!SkipBackend(r)
  PROVE  LlmInv'
<1>1. PICK i : request' = [request EXCEPT ![r].left = @ \ {i}]
  BY DEF Llm!SkipBackend
<1>2. PICK m \in Routes :
        /\ m.at = request[r].at /\ m.mode = request[r].mode /\ m.left \subseteq request[r].left
        /\ request' = [request EXCEPT ![r] = m]
  <2>1. request[r] \in Routes
    BY DEF LlmInv
  <2>2. [request[r] EXCEPT !.left = @ \ {i}] \in Routes
    BY <2>1 DEF Routes
  <2>3. QED
    BY <1>1, <2>1, <2>2 DEF Routes
<1>3. called' = called /\ stream' = stream /\ request[r].at = "try"
  BY DEF Llm!SkipBackend
<1>4. request' \in [Requests -> Routes] /\ \A q \in Requests : Routed(q)'
  BY <1>2, <1>3, LlmMoved
<1>5. QED
  BY <1>3, <1>4 DEF LlmInv, Counted

LEMMA LlmCall ==
  ASSUME LlmInv, NEW r \in Requests, NEW ok \in BOOLEAN, Llm!CallBackend(r, ok)
  PROVE  LlmInv'
<1>1. PICK p \in request[r].left :
        /\ \A j \in request[r].left : p <= j
        /\ HasKey[Backends[p]]
        /\ called' = [called EXCEPT ![r] = Append(@, [backend |-> p, ok |-> ok])]
        /\ request' = [request EXCEPT ![r].left = @ \ {p},
                         ![r].at = IF ~ok THEN @
                                   ELSE IF request[r].streamed THEN "read" ELSE "answered"]
  BY DEF Llm!CallBackend, Llm!Foremost
<1>2. request[r].at = "try" /\ request[r] \in Routes /\ Routed(r)
  BY DEF LlmInv, Llm!CallBackend
<1>3. PICK next \in {"try", "read", "answered"} :
        /\ next = IF ~ok THEN "try" ELSE IF request[r].streamed THEN "read" ELSE "answered"
  OBVIOUS
<1>4. PICK m \in Routes :
        /\ m.mode = request[r].mode /\ m.left = request[r].left \ {p}
        /\ m.at = next /\ request' = [request EXCEPT ![r] = m]
  <2>1. request' = [request EXCEPT ![r] = [request[r] EXCEPT !.left = @ \ {p}, !.at = next]]
    BY <1>1, <1>2, <1>3 DEF LlmInv
  <2>2. [request[r] EXCEPT !.left = @ \ {p}, !.at = next] \in Routes
    BY <1>2, <1>3 DEF Routes
  <2>3. QED
    BY <1>2, <2>1, <2>2 DEF Routes
<1>5. /\ request' \in [Requests -> Routes] /\ request'[r] = m
      /\ \A q \in Requests \ {r} : request'[q] = request[q]
  BY <1>4 DEF LlmInv
<1>6. PICK a \in Attempts, n \in Nat :
        /\ a.backend = p /\ a.ok = ok
        /\ called[r] \in Seq(Attempts) /\ n = Len(called[r]) /\ DOMAIN called[r] = 1..n
        /\ called' = [called EXCEPT ![r] = Append(called[r], a)]
  <2>1. p \in Places /\ [backend |-> p, ok |-> ok] \in Attempts
    BY <1>2 DEF Routes, Attempts
  <2>2. /\ called[r] \in Seq(Attempts)
        /\ Len(called[r]) \in Nat /\ DOMAIN called[r] = 1..Len(called[r])
    BY LenProperties DEF LlmInv
  <2>3. QED
    BY <1>1, <2>1, <2>2
<1>7. /\ called' \in [Requests -> Seq(Attempts)]
      /\ \A q \in Requests \ {r} : called'[q] = called[q]
      /\ DOMAIN called'[r] = 1..(n + 1)
      /\ called'[r][n + 1] = a
      /\ \A i \in 1..n : called'[r][i] = called[r][i]
  <2>1. Append(called[r], a) \in Seq(Attempts)
    BY <1>6, AppendProperties
  <2>2. /\ DOMAIN Append(called[r], a) = 1..(n + 1) /\ Append(called[r], a)[n + 1] = a
        /\ \A i \in 1..n : Append(called[r], a)[i] = called[r][i]
    BY <1>6, <2>1, AppendProperties, LenProperties
  <2>3. QED
    BY <1>6, <2>1, <2>2 DEF LlmInv
<1>8. Mode(r)' = Mode(r)
  BY <1>4, <1>5 DEF Mode
<1>9. Routed(r)'
  <2>1. ASSUME NEW i \in 1..(n + 1)
        PROVE  /\ Mode(r) \in Sovereignty[Backends[called'[r][i].backend]]
               /\ HasKey[Backends[called'[r][i].backend]]
               /\ \A j \in 1..(n + 1) :
                    i < j => called'[r][i].backend < called'[r][j].backend /\ ~called'[r][i].ok
               /\ \A left \in request'[r].left : called'[r][i].backend < left
               /\ request'[r].at = "try" => ~called'[r][i].ok
    <3>1. CASE i = n + 1
      <4>1. called'[r][i] = a
        BY <1>7, <3>1
      <4>2. Mode(r) \in Sovereignty[Backends[p]] /\ HasKey[Backends[p]]
        BY <1>1, <1>2 DEF Routed, Admitted
      <4>3. ASSUME NEW left \in request'[r].left PROVE p < left
        <5>1. left \in request[r].left /\ left # p
          BY <1>4, <1>5
        <5>2. left \in Nat /\ p \in Nat
          <6>1. Places \subseteq Nat
            BY RunAssumption DEF Places
          <6>2. request[r].left \subseteq Places
            BY <1>2 DEF Routes
          <6>3. QED
            BY <1>1, <5>1, <6>1, <6>2
        <5>3. QED
          BY <1>1, <5>1, <5>2
      <4>4. request'[r].at = "try" => ~ok
        BY <1>3, <1>4, <1>5
      <4>5. called'[r][i].backend = p /\ called'[r][i].ok = ok
        BY <1>6, <4>1
      <4>6. \A j \in 1..(n + 1) : ~(i < j)
        BY <1>6, <3>1
      <4>7. QED
        BY <4>2, <4>3, <4>4, <4>5, <4>6
    <3>2. CASE i \in 1..n
      <4>1. called'[r][i] = called[r][i] /\ i \in DOMAIN called[r]
        BY <1>6, <1>7, <3>2
      <4>2. /\ Mode(r) \in Sovereignty[Backends[called[r][i].backend]]
            /\ HasKey[Backends[called[r][i].backend]]
        BY <1>2, <4>1 DEF Routed, Admitted
      <4>3. \A left \in request[r].left : called[r][i].backend < left
        BY <1>2, <4>1 DEF Routed
      <4>4. ~called[r][i].ok
        BY <1>2, <4>1 DEF Routed
      <4>5. ASSUME NEW j \in 1..(n + 1), i < j
            PROVE  called'[r][i].backend < called'[r][j].backend
        <5>1. CASE j = n + 1
          BY <1>1, <1>6, <1>7, <4>1, <4>3, <5>1
        <5>2. CASE j \in 1..n
          BY <1>2, <1>6, <1>7, <4>1, <4>5, <5>2 DEF Routed
        <5>3. QED
          BY <5>1, <5>2
      <4>6. request'[r].left \subseteq request[r].left
        BY <1>4, <1>5
      <4>7. QED
        BY <4>1, <4>2, <4>3, <4>4, <4>5, <4>6
    <3>3. QED
      BY <3>1, <3>2
  <2>2. \A left \in request'[r].left : Admitted(r, left)'
    BY <1>2, <1>4, <1>5, <1>8 DEF Routed, Admitted
  <2>3. request'[r].at # "idle"
    BY <1>4, <1>5
  <2>4. QED
    BY <1>7, <1>8, <2>1, <2>2, <2>3 DEF Routed, Admitted
<1>10. ASSUME NEW q \in Requests PROVE Routed(q)'
  <2>1. CASE q # r
    BY <1>5, <1>7, <2>1 DEF LlmInv, Routed, Admitted, Mode
  <2>2. QED
    BY <1>9, <2>1
<1>11. stream' \in [Requests -> Streams] /\ \A q \in Requests : Counted(q)'
  <2>1. CASE stream' = stream
    BY <2>1 DEF LlmInv, Counted
  <2>2. CASE stream' = [stream EXCEPT ![r].state = "open"]
    BY <2>2 DEF LlmInv, Streams, Counted
  <2>3. QED
    BY <2>1, <2>2 DEF Llm!CallBackend
<1>12. QED
  BY <1>5, <1>7, <1>10, <1>11 DEF LlmInv

LEMMA LlmExhausted ==
  ASSUME LlmInv, NEW r \in Requests, Llm!Exhausted(r)
  PROVE  LlmInv'
<1>1. PICK next \in {"read", "failed"} :
        request' = [request EXCEPT ![r].at = next] /\ called' = called
  BY DEF Llm!Exhausted
<1>2. request' \in [Requests -> Routes] /\ \A q \in Requests : Routed(q)'
  <2>1. request[r] \in Routes
    BY DEF LlmInv
  <2>2. [request[r] EXCEPT !.at = next] \in Routes
    BY <2>1 DEF Routes
  <2>3. request' = [request EXCEPT ![r] = [request[r] EXCEPT !.at = next]]
    BY <1>1
  <2>4. QED
    BY <1>1, <2>1, <2>2, <2>3, LlmMoved DEF Routes
<1>3. stream' \in [Requests -> Streams] /\ \A q \in Requests : Counted(q)'
  <2>1. CASE stream' = stream
    BY <2>1 DEF LlmInv, Counted
  <2>2. CASE stream' = [stream EXCEPT ![r] = [Llm!NoStream EXCEPT !.state = "closed",
                                                !.produced = 1, !.buffered = 1]]
    <3>1. PICK s \in Streams : /\ s.produced = s.buffered + s.read
                              /\ stream' = [stream EXCEPT ![r] = s]
      <4>1. PICK s : s = [Llm!NoStream EXCEPT !.state = "closed", !.produced = 1, !.buffered = 1]
        OBVIOUS
      <4>2. Llm!NoStream \in Streams /\ Llm!NoStream.read = 0
        BY DEF Llm!NoStream, Streams
      <4>3. s \in Streams
        BY <4>1, <4>2 DEF Streams
      <4>4. s.produced = 1 /\ s.buffered = 1 /\ s.read = 0
        BY <4>1, <4>2 DEF Streams
      <4>5. QED
        <5>1. stream' = [stream EXCEPT ![r] = s]
          BY <2>2, <4>1
        <5>2. s.produced = s.buffered + s.read
          BY <4>4
        <5>3. QED
          BY <4>3, <5>1, <5>2
    <3>2. QED
      BY <3>1, LlmStreamed
  <2>3. QED
    BY <2>1, <2>2 DEF Llm!Exhausted
<1>4. QED
  BY <1>1, <1>2, <1>3 DEF LlmInv

LEMMA LlmStream ==
  ASSUME LlmInv, NEW r \in Requests,
         Llm!Produce(r) \/ Llm!ProducerEnds(r) \/ Llm!ReadToken(r) \/ Llm!ReaderLeaves(r)
  PROVE  LlmInv'
<1>1. called' = called /\ stream[r] \in Streams /\ request[r] \in Routes /\ Counted(r)
  BY DEF LlmInv, Llm!Produce, Llm!ProducerEnds, Llm!ReadToken, Llm!ReaderLeaves
<1>2. stream' \in [Requests -> Streams] /\ \A q \in Requests : Counted(q)'
  <2>1. CASE stream' = stream
    BY <2>1 DEF LlmInv, Counted
  <2>2. CASE Llm!Produce(r)
    BY <2>2 DEF LlmInv, Llm!Produce, Streams, Counted
  <2>3. CASE Llm!ProducerEnds(r)
    BY <2>3 DEF LlmInv, Llm!ProducerEnds, Streams, Counted
  <2>4. CASE Llm!ReadToken(r)
    <3>1. CASE stream[r].buffered > 0
      <4>1. stream' = [stream EXCEPT ![r] = [stream[r] EXCEPT !.buffered = @ - 1, !.read = @ + 1]]
        BY <2>4, <3>1 DEF LlmInv, Llm!ReadToken
      <4>2. PICK s \in Streams :
              /\ s = [stream[r] EXCEPT !.buffered = @ - 1, !.read = @ + 1]
              /\ s.produced = stream[r].produced /\ s.buffered = stream[r].buffered - 1
              /\ s.read = stream[r].read + 1
        <5>1. stream[r].buffered - 1 \in Nat /\ stream[r].read + 1 \in Nat
          BY <1>1, <3>1 DEF Streams
        <5>2. [stream[r] EXCEPT !.buffered = @ - 1, !.read = @ + 1] \in Streams
          BY <1>1, <5>1 DEF Streams
        <5>3. QED
          BY <1>1, <5>2 DEF Streams
      <4>3. s.produced = s.buffered + s.read
        BY <1>1, <4>2 DEF Streams, Counted
      <4>4. QED
        BY <4>1, <4>2, <4>3, LlmStreamed
    <3>2. CASE ~(stream[r].buffered > 0)
      BY <2>1, <2>4, <3>2 DEF Llm!ReadToken
    <3>3. QED
      BY <3>1, <3>2
  <2>5. QED
    BY <2>1, <2>2, <2>3, <2>4 DEF Llm!ReaderLeaves
<1>3. request' \in [Requests -> Routes] /\ \A q \in Requests : Routed(q)'
  <2>1. CASE request' = request
    BY <1>1, <2>1 DEF LlmInv, Routed, Admitted, Mode
  <2>2. CASE \E next \in {"answered", "gone"} : request' = [request EXCEPT ![r].at = next]
    <3>1. PICK next \in {"answered", "gone"} : request' = [request EXCEPT ![r].at = next]
      BY <2>2
    <3>2. [request[r] EXCEPT !.at = next] \in Routes
      BY <1>1 DEF Routes
    <3>3. request' = [request EXCEPT ![r] = [request[r] EXCEPT !.at = next]]
      BY <3>1
    <3>4. QED
      BY <1>1, <3>2, <3>3, LlmMoved DEF Routes
  <2>3. QED
    BY <2>1, <2>2 DEF Llm!Produce, Llm!ProducerEnds, Llm!ReadToken, Llm!ReaderLeaves
<1>4. QED
  BY <1>1, <1>2, <1>3 DEF LlmInv

LEMMA LlmNext == LlmInv /\ [Llm!Next]_llmVars => LlmInv'
<1> SUFFICES ASSUME LlmInv, [Llm!Next]_llmVars PROVE LlmInv'
  OBVIOUS
<1>1. CASE UNCHANGED llmVars
  BY <1>1 DEF llmVars, LlmInv, Routed, Admitted, Mode, Counted
<1>2. CASE Llm!Next
  BY <1>2, LlmBegin, LlmSkip, LlmCall, LlmExhausted, LlmStream DEF Llm!Next
<1>3. QED
  BY <1>1, <1>2

LEMMA LlmOrdered == LlmInv => Llm!BackendsInOrder
BY DEF LlmInv, Routed, Admitted, Mode, Counted, Llm!BackendsInOrder
-----------------------------------------------------------------------------
(* The edge *)

EdgeInv ==
  /\ answers \in Nat
  /\ kept \in Seq(Nat) /\ edgePending \in Seq(Nat) /\ syncing \in Seq(Nat)
  /\ Net!LatestKept

LEMMA EdgeInit == Net!Init => EdgeInv
<1> SUFFICES ASSUME Net!Init PROVE EdgeInv
  OBVIOUS
<1>1. <<>> \in Seq(Nat) /\ Len(<<>>) = 0 /\ DOMAIN <<>> = {}
  BY EmptySeq
<1>2. QED
  BY <1>1, RunAssumption DEF Net!Init, EdgeInv, Net!LatestKept, Net!ToSet

(* Beside an answer, a step sends what is kept, or what is sent already.   *)
LEMMA EdgeOther ==
  ASSUME EdgeInv, UNCHANGED <<answers, kept>>,
         edgePending' \in {edgePending, kept, <<>>}, syncing' \in {syncing, edgePending, <<>>},
         sent' \in {sent, sent \cup Net!ToSet(syncing)}
  PROVE  EdgeInv'
<1>1. <<>> \in Seq(Nat) /\ Net!ToSet(<<>>) = {}
  BY EmptySeq DEF Net!ToSet
<1>2. Net!ToSet(kept) \subseteq 1..answers
  <2>1. PICK n \in Nat, size \in Nat : n = Len(kept) /\ DOMAIN kept = 1..n /\ size = CacheSize
    BY RunAssumption, LenProperties DEF EdgeInv
  <2>2. n <= answers
    BY <2>1 DEF EdgeInv, Net!LatestKept
  <2>3. ASSUME NEW i \in 1..n PROVE kept[i] \in 1..answers
    <3>1. kept[i] = answers - n + i
      BY <2>1 DEF EdgeInv, Net!LatestKept
    <3>2. QED
      BY <2>2, <3>1 DEF EdgeInv
  <2>4. QED
    BY <2>1, <2>3 DEF Net!ToSet
<1>3. edgePending' \in Seq(Nat) /\ syncing' \in Seq(Nat)
  BY <1>1 DEF EdgeInv
<1>4. /\ Net!ToSet(edgePending) \subseteq 1..answers
      /\ Net!ToSet(syncing) \subseteq 1..answers /\ sent \subseteq 1..answers
  BY DEF EdgeInv, Net!LatestKept
<1>5. Net!ToSet(edgePending') \subseteq 1..answers /\ Net!ToSet(syncing') \subseteq 1..answers
  BY <1>1, <1>2, <1>4
<1>6. sent' \subseteq 1..answers
  BY <1>4
<1>7. QED
  BY <1>3, <1>5, <1>6 DEF EdgeInv, Net!LatestKept

LEMMA EdgeAnswer ==
  ASSUME EdgeInv, NEW c \in Chats, Net!Answer(c)
  PROVE  EdgeInv'
<1>1. CASE UNCHANGED <<answers, kept>>
  BY <1>1, EdgeOther DEF Net!Answer
<1>2. CASE answers' = answers + 1 /\ kept' = Net!Record(answers')
  <2>1. PICK n \in Nat, size \in Nat, a \in Nat :
          n = Len(kept) /\ DOMAIN kept = 1..n /\ size = CacheSize /\ a = answers
    BY RunAssumption, LenProperties DEF EdgeInv
  <2>2. \A i \in 1..n : kept[i] = a - n + i
    BY <2>1 DEF EdgeInv, Net!LatestKept
  <2>3. n = (IF a < size THEN a ELSE size)
    BY <2>1 DEF EdgeInv, Net!LatestKept
  <2>4. PICK all \in Seq(Nat) :
          /\ all = Append(kept, a + 1) /\ Len(all) = n + 1 /\ DOMAIN all = 1..(n + 1)
          /\ \A i \in 1..n : all[i] = kept[i]
          /\ all[n + 1] = a + 1
    <3>1. a + 1 \in Nat
      BY <2>1
    <3>2. Append(kept, a + 1) \in Seq(Nat)
      BY <3>1, AppendProperties DEF EdgeInv
    <3>3. /\ Len(Append(kept, a + 1)) = n + 1 /\ DOMAIN Append(kept, a + 1) = 1..(n + 1)
          /\ \A i \in 1..n : Append(kept, a + 1)[i] = kept[i]
          /\ Append(kept, a + 1)[n + 1] = a + 1
      BY <2>1, <3>1, <3>2, AppendProperties, LenProperties DEF EdgeInv
    <3>4. QED
      BY <3>2, <3>3
  <2>5. \A i \in 1..(n + 1) : all[i] = a - n + i
    <3>1. TAKE i \in 1..(n + 1)
    <3>2. CASE i \in 1..n
      BY <2>2, <2>4, <3>2
    <3>3. CASE i = n + 1
      BY <2>1, <2>4, <3>3
    <3>4. QED
      BY <2>1, <3>2, <3>3
  <2>6. /\ kept' \in Seq(Nat)
        /\ kept' = [i \in DOMAIN kept' |-> answers' - Len(kept') + i]
        /\ Len(kept') = (IF answers' < CacheSize THEN answers' ELSE CacheSize)
    <3>1. CASE n + 1 > size
      <4>1. kept' = Tail(all)
        BY <1>2, <2>1, <2>4, <3>1 DEF Net!Record
      <4>2. /\ kept' \in Seq(Nat) /\ Len(kept') = n /\ DOMAIN kept' = 1..n
            /\ \A i \in 1..n : kept'[i] = all[i + 1]
        <5>1. all # <<>>
          BY <2>1, <2>4, EmptySeq
        <5>2. QED
          BY <2>1, <2>4, <4>1, <5>1, HeadTailProperties, LenProperties
      <4>3. \A i \in 1..n : kept'[i] = a + 1 - n + i
        BY <2>1, <2>5, <4>2
      <4>4. \A i \in DOMAIN kept' : kept'[i] = answers' - Len(kept') + i
        <5>1. answers' = a + 1 /\ Len(kept') = n
          BY <1>2, <2>1, <4>2
        <5>2. QED
          BY <4>2, <4>3, <5>1
      <4>5. kept' = [i \in DOMAIN kept' |-> kept'[i]]
        BY <4>2
      <4>6. n = (IF a + 1 < size THEN a + 1 ELSE size)
        BY <2>1, <2>3, <3>1
      <4>7. QED
        BY <1>2, <2>1, <4>2, <4>4, <4>5, <4>6
    <3>2. CASE n + 1 <= size
      <4>1. kept' = all
        BY <1>2, <2>1, <2>4, <3>2 DEF Net!Record
      <4>2. \A i \in DOMAIN kept' : kept'[i] = answers' - Len(kept') + i
        <5>1. answers' = a + 1 /\ Len(kept') = n + 1 /\ DOMAIN kept' = 1..(n + 1)
          BY <1>2, <2>1, <2>4, <4>1
        <5>2. \A i \in 1..(n + 1) : kept'[i] = (a + 1) - (n + 1) + i
          BY <2>1, <2>5, <4>1
        <5>3. QED
          BY <5>1, <5>2
      <4>3. kept' = [i \in DOMAIN kept' |-> kept'[i]]
        BY <2>4, <4>1
      <4>4. n + 1 = (IF a + 1 < size THEN a + 1 ELSE size)
        BY <2>1, <2>3, <3>2
      <4>5. QED
        BY <1>2, <2>1, <2>4, <4>1, <4>2, <4>3, <4>4
    <3>3. QED
      BY <2>1, <3>1, <3>2
  <2>7. UNCHANGED <<edgePending, syncing, sent>>
    BY DEF Net!Answer
  <2>8. Net!ToSet(edgePending) \cup Net!ToSet(syncing) \cup sent \subseteq 1..answers'
    BY <1>2, <2>1 DEF EdgeInv, Net!LatestKept
  <2>9. answers' \in Nat /\ edgePending' \in Seq(Nat) /\ syncing' \in Seq(Nat)
    BY <1>2, <2>7 DEF EdgeInv
  <2>10. QED
    BY <2>6, <2>7, <2>8, <2>9 DEF EdgeInv, Net!LatestKept
<1>3. QED
  BY <1>1, <1>2 DEF Net!Answer

LEMMA EdgeNext == EdgeInv /\ [Net!Next]_edgeVars => EdgeInv'
<1> SUFFICES ASSUME EdgeInv, [Net!Next]_edgeVars PROVE EdgeInv'
  OBVIOUS
<1>1. CASE UNCHANGED edgeVars
  BY <1>1, EdgeOther DEF edgeVars
<1>2. CASE Net!BackendFails \/ Net!BackendRecovers \/ Net!CheckAsks \/ Net!SetConnected
  BY <1>2, EdgeOther
     DEF Net!BackendFails, Net!BackendRecovers, Net!CheckAsks, Net!SetConnected
<1>3. CASE Net!CheckTold
  BY <1>3, EdgeOther DEF Net!CheckTold
<1>4. ASSUME NEW c \in Chats, Net!Proxy(c) PROVE EdgeInv'
  BY <1>4, EdgeOther DEF Net!Proxy
<1>5. CASE Net!GetPendingSync \/ Net!ClearPending
  BY <1>5, EdgeOther DEF Net!GetPendingSync, Net!ClearPending
<1>6. QED
  BY <1>1, <1>2, <1>3, <1>4, <1>5, EdgeAnswer DEF Net!Next
-----------------------------------------------------------------------------
(* The crons *)

(* Of the minutes since the tick polled last, all but the one in the       *)
(* channel were dropped.                                                   *)
CronInv ==
  /\ minute \in Nat /\ polled \in Nat /\ polled <= minute
  /\ tick \in Nat \cup {None}
  /\ dropped \subseteq 1..minute
  /\ begun \in [Jobs -> Seq(Nat)]
  /\ tick # None => polled < tick /\ tick <= minute /\ tick \notin dropped
  /\ \A m \in Nat : polled < m /\ m <= minute => m = tick \/ m \in dropped
  /\ Crons!OncePerDueMinute


LEMMA CronInit == Crons!Init => CronInv
<1> SUFFICES ASSUME Crons!Init PROVE CronInv
  OBVIOUS
<1>1. <<>> \in Seq(Nat) /\ DOMAIN <<>> = {}
  BY EmptySeq
<1>2. Crons!OncePerDueMinute
  <2>1. ASSUME NEW j \in Jobs PROVE begun[j] = <<>>
    BY DEF Crons!Init
  <2>2. (1..polled) \ dropped = {}
    BY DEF Crons!Init
  <2>3. QED
    BY <1>1, <2>1, <2>2 DEF Crons!OncePerDueMinute, Crons!ToSet
<1>3. QED
  BY <1>1, <1>2 DEF Crons!Init, CronInv

LEMMA CronTick ==
  ASSUME CronInv, Crons!Tick
  PROVE  CronInv'
<1>1. /\ minute \in Nat /\ polled \in Nat /\ polled <= minute /\ minute' = minute + 1
      /\ UNCHANGED <<polled, begun>> /\ minute + 1 \notin dropped
  BY DEF CronInv, Crons!Tick
<1>2. CASE tick = None
  <2>1. tick' = minute + 1 /\ dropped' = dropped
    BY <1>2 DEF Crons!Tick
  <2>2. \A m \in Nat : polled < m /\ m <= minute => m \in dropped
    BY <1>1, <1>2, RunAssumption DEF CronInv
  <2>3. \A m \in Nat : polled < m /\ m <= minute + 1 => m = minute + 1 \/ m \in dropped
    BY <1>1, <2>2
  <2>4. Crons!OncePerDueMinute'
    BY <1>1, <2>1 DEF CronInv, Crons!OncePerDueMinute
  <2>5. QED
    BY <1>1, <2>1, <2>3, <2>4 DEF CronInv
<1>3. CASE tick # None
  <2>1. tick' = tick /\ dropped' = dropped \cup {minute + 1}
    BY <1>3 DEF Crons!Tick
  <2>2. \A m \in Nat : polled < m /\ m <= minute + 1 => m = tick \/ m \in dropped'
    BY <1>1, <2>1 DEF CronInv
  <2>3. (1..polled) \ dropped' = (1..polled) \ dropped
    BY <1>1, <2>1
  <2>4. Crons!OncePerDueMinute'
    BY <1>1, <2>3 DEF CronInv, Crons!OncePerDueMinute
  <2>5. tick \in Nat /\ polled < tick /\ tick <= minute /\ tick \notin dropped
    BY <1>3 DEF CronInv
  <2>6. QED
    BY <1>1, <1>3, <2>1, <2>2, <2>4, <2>5 DEF CronInv
<1>4. QED
  BY <1>2, <1>3

(* A job that is due has one more beginning, behind all others.            *)
LEMMA CronBegun ==
  ASSUME NEW p \in Seq(Nat), NEW now \in Nat, NEW upTo \in Nat, upTo < now,
         \A m \in Crons!ToSet(p) : m <= upTo,
         \A h, i \in DOMAIN p : h < i => p[h] < p[i]
  PROVE  /\ Append(p, now) \in Seq(Nat)
         /\ Crons!ToSet(Append(p, now)) = Crons!ToSet(p) \cup {now}
         /\ \A h, i \in DOMAIN Append(p, now) : h < i => Append(p, now)[h] < Append(p, now)[i]
<1>1. Append(p, now) \in Seq(Nat)
  BY AppendProperties
<1>2. PICK q \in Seq(Nat), n \in Nat :
        /\ q = Append(p, now) /\ n = Len(p) /\ DOMAIN p = 1..n /\ DOMAIN q = 1..(n + 1)
        /\ q[n + 1] = now
        /\ \A i \in 1..n : q[i] = p[i]
  <2>1. PICK n \in Nat : n = Len(p) /\ DOMAIN p = 1..n
    BY LenProperties
  <2>2. /\ DOMAIN Append(p, now) = 1..(n + 1) /\ Append(p, now)[n + 1] = now
        /\ \A i \in 1..n : Append(p, now)[i] = p[i]
    BY <1>1, <2>1, AppendProperties, LenProperties
  <2>3. QED
    BY <1>1, <2>1, <2>2
<1>3. Crons!ToSet(q) = Crons!ToSet(p) \cup {now}
  <2>1. ASSUME NEW i \in 1..(n + 1) PROVE q[i] \in Crons!ToSet(p) \cup {now}
    <3>1. CASE i \in 1..n
      BY <1>2, <3>1 DEF Crons!ToSet
    <3>2. CASE i = n + 1
      BY <1>2, <3>2
    <3>3. QED
      BY <1>2, <3>1, <3>2
  <2>2. ASSUME NEW i \in 1..n PROVE p[i] \in Crons!ToSet(q)
    BY <1>2 DEF Crons!ToSet
  <2>3. n + 1 \in DOMAIN q /\ now \in Crons!ToSet(q)
    BY <1>2 DEF Crons!ToSet
  <2>4. Crons!ToSet(q) \subseteq Crons!ToSet(p) \cup {now}
    BY <1>2, <2>1 DEF Crons!ToSet
  <2>5. Crons!ToSet(p) \subseteq Crons!ToSet(q)
    BY <1>2, <2>2 DEF Crons!ToSet
  <2>6. QED
    BY <2>3, <2>4, <2>5
<1>4. ASSUME NEW h \in 1..(n + 1), NEW i \in 1..(n + 1), h < i PROVE q[h] < q[i]
  <2>1. h \in 1..n
    BY <1>2, <1>4
  <2>2. q[h] = p[h]
    BY <1>2, <2>1
  <2>3. CASE i \in 1..n
    BY <1>2, <1>4, <2>1, <2>3
  <2>4. CASE i = n + 1
    <3>1. p[h] \in Crons!ToSet(p) /\ p[h] \in Nat
      BY <1>2, <2>1, ElementOfSeq DEF Crons!ToSet
    <3>2. QED
      BY <1>2, <2>2, <2>4, <3>1
  <2>5. QED
    BY <1>2, <2>3, <2>4
<1>5. QED
  BY <1>1, <1>2, <1>3, <1>4

LEMMA CronPoll ==
  ASSUME CronInv, Crons!Poll
  PROVE  CronInv'
<1>1. /\ minute \in Nat /\ polled \in Nat /\ tick \in Nat
      /\ polled < tick /\ tick <= minute /\ tick \notin dropped
      /\ tick' = None /\ polled' = tick /\ UNCHANGED <<minute, dropped>>
  BY DEF CronInv, Crons!Poll
<1>2. \A m \in Nat : polled < m /\ m <= minute => m = tick \/ m \in dropped
  BY DEF CronInv
<1>3. (1..tick) \ dropped = ((1..polled) \ dropped) \cup {tick}
  BY <1>1, <1>2
<1>4. ASSUME NEW j \in Jobs
      PROVE  /\ begun'[j] \in Seq(Nat)
             /\ Crons!ToSet(begun'[j]) = {m \in (1..tick) \ dropped : Crons!MatchCron(Expr[j], m)}
             /\ \A h, i \in DOMAIN begun'[j] : h < i => begun'[j][h] < begun'[j][i]
  <2>1. /\ begun[j] \in Seq(Nat)
        /\ Crons!ToSet(begun[j]) = {m \in (1..polled) \ dropped : Crons!MatchCron(Expr[j], m)}
        /\ \A h, i \in DOMAIN begun[j] : h < i => begun[j][h] < begun[j][i]
    BY DEF CronInv, Crons!OncePerDueMinute
  <2>2. CASE Crons!MatchCron(Expr[j], tick)
    <3>1. begun'[j] = Append(begun[j], tick)
      BY <2>2 DEF Crons!Poll, Crons!Begin
    <3>2. \A m \in Crons!ToSet(begun[j]) : m <= polled
      BY <1>1, <2>1
    <3>3. /\ begun'[j] \in Seq(Nat)
          /\ Crons!ToSet(begun'[j]) = Crons!ToSet(begun[j]) \cup {tick}
          /\ \A h, i \in DOMAIN begun'[j] : h < i => begun'[j][h] < begun'[j][i]
      <4>1. PICK p \in Seq(Nat) : p = begun[j]
        BY <2>1
      <4>2. /\ \A m \in Crons!ToSet(p) : m <= polled
            /\ \A h, i \in DOMAIN p : h < i => p[h] < p[i]
        BY <2>1, <3>2, <4>1
      <4>3. /\ Append(p, tick) \in Seq(Nat)
            /\ Crons!ToSet(Append(p, tick)) = Crons!ToSet(p) \cup {tick}
            /\ \A h, i \in DOMAIN Append(p, tick) :
                 h < i => Append(p, tick)[h] < Append(p, tick)[i]
        BY <1>1, <4>2, CronBegun
      <4>4. QED
        BY <3>1, <4>1, <4>3
    <3>4. QED
      BY <1>3, <2>1, <2>2, <3>3
  <2>3. CASE ~Crons!MatchCron(Expr[j], tick)
    <3>1. begun'[j] = begun[j]
      BY <2>3 DEF Crons!Poll, Crons!Begin
    <3>2. QED
      BY <1>3, <2>1, <2>3, <3>1
  <2>4. QED
    BY <2>2, <2>3
<1>5. begun' \in [Jobs -> Seq(Nat)]
  BY <1>4 DEF Crons!Poll, Crons!Begin
<1>6. Crons!OncePerDueMinute'
  BY <1>1, <1>4 DEF Crons!OncePerDueMinute
<1>7. \A m \in Nat : tick < m /\ m <= minute => m \in dropped
  BY <1>1, <1>2
<1>8. QED
  BY <1>1, <1>5, <1>6, <1>7 DEF CronInv

LEMMA CronNext == CronInv /\ [Crons!Next]_cronVars => CronInv'
<1> SUFFICES ASSUME CronInv, [Crons!Next]_cronVars PROVE CronInv'
  OBVIOUS
<1>1. CASE UNCHANGED <<minute, tick, begun, dropped, polled>>
  BY <1>1 DEF CronInv, Crons!OncePerDueMinute
<1>2. CASE UNCHANGED cronVars
  BY <1>1, <1>2 DEF cronVars
<1>3. CASE Crons!LoopEnds \/ Crons!Stop \/ \E x \in jobsRunning : Crons!ExecuteSkill(x)
  BY <1>1, <1>3 DEF Crons!LoopEnds, Crons!Stop, Crons!ExecuteSkill
<1>4. QED
  BY <1>2, <1>3, CronTick, CronPoll DEF Crons!Next
-----------------------------------------------------------------------------
(* All of them side by side *)

(* Each module has its invariant in every state, also while another one is *)
(* the one that runs.                                                      *)
RunInv ==
  BeatInv /\ RegInv /\ SpawnInv /\ QInv /\ DownInv /\ SseInv /\ LlmInv /\ EdgeInv /\ CronInv

LEMMA RunInvInit == RunInit => RunInv
BY BeatInit, RegInit, SpawnInit, QInit, DownInit, SseInit, LlmInit, EdgeInit, CronInit
   DEF RunInit, RunInv

(* A step is one of a module, and of every other one none. *)
LEMMA RunIsModules ==
  [RunNext]_runVars =>
    /\ [Beat!Next]_beatVars /\ [Reg!Next]_regVars /\ [Tree!Next]_spawnVars /\ [Next]_vars
    /\ [Down!Next]_downVars /\ [Sse!Next]_sseVars /\ [Llm!Next]_llmVars /\ [Net!Next]_edgeVars
    /\ [Crons!Next]_cronVars
BY DEF RunNext, runVars, queueVars, DownStep, SchedStep, BeatStep, RegStep, SpawnStep, QueueStep,
       SseStep, LlmStep, EdgeStep, WatchStep, CronStep

LEMMA RunInvNext == RunInv /\ [RunNext]_runVars => RunInv'
BY RunIsModules, BeatNext, RegNext, SpawnNext, QNext, DownNext, SseNext, LlmNext, EdgeNext,
   CronNext
   DEF RunInv

LEMMA RunInvAlways == RunSpec => []RunInv
<1>1. QED
  BY RunInvInit, RunInvNext, PTL DEF RunSpec

(* However many callers interleave their calls, a Dequeue finds room for   *)
(* the token it gives back, and the queue never holds more items than its  *)
(* capacity (butler/queue.go:77).                                          *)
THEOREM RuntimeQueueNeverBlocks == RunSpec => []DequeueNeverBlocks
<1>1. RunInv => DequeueNeverBlocks
  BY QBlocks DEF RunInv
<1>2. QED
  BY <1>1, RunInvAlways, PTL

(* However many pulses are lost on however small a channel, a core is      *)
(* degraded only for CheckEvery pulses in a row that were not read, and is *)
(* degraded when none was for twice as long (cmd/harmonclaw/main.go);      *)
(* whatever is registered while the health of a skill is asked for, its    *)
(* record has at most one failure that is not its own                      *)
(* (architect/registry.go); and callers of CanSpawn and Spawn that act on  *)
(* old answers spawn neither more children nor deeper than allowed         *)
(* (bus/depth_controller.go).                                              *)
THEOREM RuntimeJudgedByTheirOwn == RunSpec => []JudgedByTheirOwn
<1>1. RunInv => JudgedByTheirOwn
  BY BeatSilent, RegOwn, SpawnNesting DEF RunInv, JudgedByTheirOwn
<1>2. QED
  BY <1>1, RunInvAlways, PTL

(* In whatever order main and the goroutine of the signal close the        *)
(* ledger, who is first leaves nothing unwritten (cmd/harmonclaw/main.go); *)
(* the ids of a stream have no gap and nothing follows its end             *)
(* (butler/sse.go); backends are called in order, among those the mode     *)
(* admits, until one answers (llm/router.go); the edge keeps the latest    *)
(* answers (internal/edge/offline.go); and a job begins once in every      *)
(* minute it is due in whose tick was not dropped (architect/cron.go).     *)
THEOREM RuntimeNothingOutOfOrder == RunSpec => []NothingOutOfOrder
<1>1. RunInv => NothingOutOfOrder
  BY DownFlushed, LlmOrdered
     DEF RunInv, NothingOutOfOrder, SseInv, EdgeInv, CronInv
<1>2. QED
  BY <1>1, RunInvAlways, PTL
=============================================================================
