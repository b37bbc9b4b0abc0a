------------------------------ MODULE Dialogue ------------------------------
(***************************************************************************)
(* The dialogue engine (internal/engine): ResponsePipeline.Run with the    *)
(* IntentRecognizer, the ContextManager, the router of skills and the      *)
(* MemoryEngine over a MemStore.  Goroutines run requests; every component *)
(* has a lock of its own, which a request takes and leaves several times.  *)
(*                                                                         *)
(* A text is a member of a small set, with the score each rule gives it    *)
(* and the parts a chain ("A, then B") splits it into; every content has   *)
(* its keywords, a text is contained in what has all of its keywords.  A   *)
(* summary has the place of its first turn among all its session was told, *)
(* which the program does not note.                                        *)
(***************************************************************************)
EXTENDS Naturals, Sequences, FiniteSets, SequencesExt

CONSTANTS
  Runners, Sessions, Texts,
  Scores,            \* text: intent to what the rules give it, in tenths
  ContinueTexts,     \* "continue" and its like
  Skills, Priority,
  Parts,             \* text: its parts, each the score of every skill
  Answer, Fallback,  \* contents of an answer
  Words,             \* content: its keywords
  None,
  WindowSize, SummaryThreshold, InjectRounds, Limit,
  SessionTimeout, DecayAfter,      \* in ticks
  MaxTicks, MaxRuns

VARIABLES
  tick,
  lastIntent,      \* IntentRecognizer.last
  sessions,        \* session: its turns and the time of the last access, or None
  memories,        \* MemStore.engrams, in the order of their ids
  run,             \* goroutine: its request and how far it is
  appended,        \* session: all turns it was ever told
  deleted,        \* session: places in appended of turns deleted in a window
  runs

vars == <<tick, lastIntent, sessions, memories, run, appended, deleted, runs>>

Intents == {"skill", "search", "memory", "system", "chat"}
Order == <<"skill", "search", "memory", "system", "chat">>

NotRunning == [at |-> "idle", n |-> 0, session |-> None, text |-> None, last |-> None,
               intent |-> None, ids |-> <<>>, out |-> None, prompt |-> <<>>, found |-> <<>>]

Init ==
  /\ tick = 0
  /\ lastIntent = [s \in Sessions |-> None]
  /\ sessions = [s \in Sessions |-> None]
  /\ memories = <<>>
  /\ run = [r \in Runners |-> NotRunning]
  /\ appended = [s \in Sessions |-> <<>>]
  /\ deleted = [s \in Sessions |-> {}]
  /\ runs = 0

Turns(s) == IF sessions[s] = None THEN <<>> ELSE sessions[s].turns
Gone(s) == Len(appended[s]) - Len(Turns(s))      \* turns that have left the window
Goto(r, at) == run' = [run EXCEPT ![r].at = at]

-----------------------------------------------------------------------------
(* IntentRecognizer *)

(* The score of a continuing text is added to the last intent; the first   *)
(* of the best wins, and "chat" when nothing matches.                      *)
Intent(text, last) ==
  LET score(i) == Scores[text][i] + (IF text \in ContinueTexts /\ i = last THEN 4 ELSE 0)
      best == {i \in Intents : \A j \in Intents : score(i) >= score(j)}
  IN  IF \A i \in Intents : score(i) = 0 THEN "chat"
      ELSE Order[CHOOSE k \in 1..5 :
                   Order[k] \in best /\ \A m \in 1..(k - 1) : Order[m] \notin best]

(* The last intent is read under one lock and written under another. *)
Begin(r, s, text) ==
  /\ run[r].at = "idle" /\ runs < MaxRuns
  /\ runs' = runs + 1
  /\ run' = [run EXCEPT ![r] = [NotRunning EXCEPT !.at = "recognize", !.n = runs', !.session = s,
                                  !.text = text, !.last = lastIntent[s]]]
  /\ UNCHANGED <<tick, lastIntent, sessions, memories, appended, deleted>>

Recognize(r) ==
  /\ run[r].at = "recognize"
  /\ LET intent == Intent(run[r].text, run[r].last)
     IN  /\ lastIntent' = [lastIntent EXCEPT ![run[r].session] = intent]
         /\ run' = [run EXCEPT ![r].at = "append", ![r].intent = intent]
  /\ UNCHANGED <<tick, sessions, memories, appended, deleted, runs>>

-----------------------------------------------------------------------------
(* SkillRouter: the skills each part matches, best first, each once. *)
RouteOne(part) ==
  LET matching == {k \in Skills : part[k] > 0}
      before(a, b) == part[a] > part[b] \/ (part[a] = part[b] /\ Priority[a] > Priority[b])
  IN  SetToSortSeq(matching, before)

Route(text) ==
  FoldLeft(LAMBDA all, part : all \o SelectSeq(RouteOne(part), LAMBDA k : ~Contains(all, k)),
           <<>>, Parts[text])

-----------------------------------------------------------------------------
(* ContextManager.Append, which writes what leaves the window to memory    *)
(* (MemoryEngine.WriteEngram).                                             *)

Summary(s, turns) == [session |-> s, from |-> Gone(s) + 1, turns |-> turns,
                      keywords |-> UNION {Words[turns[i].content] : i \in DOMAIN turns},
                      accessed |-> tick]

(* Variant: one more turn leaves the window than is summarised. *)
AppendTurnSkipping(s, turn) ==
  LET turns == Append(Turns(s), turn)
      excess == Len(turns) - WindowSize
  IN  IF excess > 0
      THEN /\ sessions' = [sessions EXCEPT ![s] = [turns |-> SubSeq(turns, excess + 2, Len(turns)),
                                                   accessed |-> tick]]
           /\ memories' = Append(memories, Summary(s, SubSeq(turns, 1, excess)))
      ELSE /\ sessions' = [sessions EXCEPT ![s] = [turns |-> turns, accessed |-> tick]]
           /\ UNCHANGED memories

AppendTurn(s, turn) ==
  LET turns == Append(Turns(s), turn)
      excess == Len(turns) - WindowSize
      remove == IF excess > SummaryThreshold THEN SummaryThreshold ELSE excess
  IN  IF excess > 0
      THEN /\ sessions' = [sessions EXCEPT ![s] = [turns |-> SubSeq(turns, remove + 1, Len(turns)),
                                                   accessed |-> tick]]
           /\ memories' = Append(memories, Summary(s, SubSeq(turns, 1, remove)))
      ELSE /\ sessions' = [sessions EXCEPT ![s] = [turns |-> turns, accessed |-> tick]]
           /\ UNCHANGED memories

AppendOf(r, role, content) ==
  LET turn == [n |-> run[r].n, role |-> role, content |-> content]
  IN  /\ AppendTurn(run[r].session, turn)
      /\ appended' = [appended EXCEPT ![run[r].session] = Append(@, turn)]

(* The user's turn; then the way of the intent.  A skill intent that       *)
(* routes to no skill goes the way of a chat.                              *)
AppendUser(r) ==
  /\ run[r].at = "append"
  /\ AppendOf(r, "user", run[r].text)
  /\ LET ids == Route(run[r].text)
     IN  run' = [run EXCEPT ![r].at = IF run[r].intent = "skill" /\ ids # <<>> THEN "skill"
                                      ELSE IF run[r].intent = "system" THEN "done" ELSE "context",
                            ![r].ids = IF run[r].intent = "skill" THEN ids ELSE <<>>]
  /\ UNCHANGED <<tick, lastIntent, deleted, runs>>

(* Each skill of the chain gets the last output that was not empty; one    *)
(* that fails is passed over.                                              *)
ExecuteSkill(r) ==
  /\ run[r].at = "skill" /\ run[r].ids # <<>>
  /\ \E out \in {Answer, None, run[r].out} :      \* output, empty output, error
       run' = [run EXCEPT ![r].ids = Tail(@), ![r].out = out]
  /\ UNCHANGED <<tick, lastIntent, sessions, memories, appended, deleted, runs>>

RecordAnswer(r, content) == AppendOf(r, "assistant", content) /\ Goto(r, "done")

EndSkills(r) ==
  /\ run[r].at = "skill" /\ run[r].ids = <<>>
  /\ RecordAnswer(r, IF run[r].out = None THEN Fallback ELSE run[r].out)
  /\ UNCHANGED <<tick, lastIntent, deleted, runs>>

-----------------------------------------------------------------------------
(* MemoryEngine.Search over MemStore *)

(* computeImportance of a summary with these keywords and no entities. *)
Importance(keywords) ==
  LET n == Cardinality(keywords)
  IN  IF n >= 10 THEN 5 ELSE IF n >= 6 THEN 4 ELSE IF n >= 3 THEN 3 ELSE IF n >= 1 THEN 2 ELSE 1

(* In tenths, never below two; what was not accessed for long counts half. *)
Relevance(m) ==
  LET full == 2 * Importance(memories[m].keywords)
      score == IF memories[m].accessed + DecayAfter < tick THEN full \div 2 ELSE full
  IN  IF score < 2 THEN 2 ELSE score

(* jaccard >= 0.4; it is 0 when neither has a keyword. *)
Similar(a, b) ==
  LET x == memories[a].keywords
      y == memories[b].keywords
  IN  x \cup y # {} /\ 10 * Cardinality(x \cap y) >= 4 * Cardinality(x \cup y)

(* MemStore.Search: some of the memories with the text, at most limit*2. *)
Found(text) ==
  LET matching == {m \in DOMAIN memories : Words[text] \subseteq memories[m].keywords}
      most == IF Cardinality(matching) > 2 * Limit THEN 2 * Limit ELSE Cardinality(matching)
  IN  {S \in SUBSET matching : Cardinality(S) = most}

(* Sorted by relevance; ties in any order. *)
Ranked(S) ==
  {q \in [1..Cardinality(S) -> S] :
     \A i, j \in DOMAIN q : i < j => q[i] # q[j] /\ Relevance(q[i]) >= Relevance(q[j])}

(* mergeSimilar: one that is like one kept before it is left out. *)
MergeSimilar(ranked) ==
  LET kept[n \in 0..Len(ranked)] ==
        IF n = 0 THEN <<>>
        ELSE IF \E i \in DOMAIN kept[n - 1] : Similar(ranked[n], kept[n - 1][i])
             THEN kept[n - 1] ELSE Append(kept[n - 1], ranked[n])
  IN  kept[Len(ranked)]

Cut(q, n) == SubSeq(q, 1, IF Len(q) < n THEN Len(q) ELSE n)
LastOf(q, n) == SubSeq(q, IF Len(q) > n THEN Len(q) - n + 1 ELSE 1, Len(q))

(* GetContextForLLM: the last turns of the session and the memories, whose *)
(* access is noted.                                                        *)
GetContext(r) ==
  /\ run[r].at = "context"
  /\ LET s == run[r].session
     IN  \E S \in Found(run[r].text) : \E ranked \in Ranked(S) :
           LET found == Cut(MergeSimilar(ranked), Limit)
           IN  /\ memories' = [m \in DOMAIN memories |->
                                 IF Contains(found, m) THEN [memories[m] EXCEPT !.accessed = tick]
                                                       ELSE memories[m]]
               /\ run' = [run EXCEPT ![r].at = "llm", ![r].found = found,
                                     ![r].prompt = LastOf(Turns(s), InjectRounds)]
               /\ sessions' = IF sessions[s] = None THEN sessions
                              ELSE [sessions EXCEPT ![s].accessed = tick]
  /\ UNCHANGED <<tick, lastIntent, appended, deleted, runs>>

(* The LLM answers or fails; the stream RunStream asks for is handed out   *)
(* and not recorded.                                                       *)
CallLLM(r) ==
  /\ run[r].at = "llm"
  /\ \/ \E content \in {Answer, Fallback} : RecordAnswer(r, content)
     \/ /\ run[r].intent # "memory"
        /\ Goto(r, "streamed")
        /\ UNCHANGED <<sessions, memories, appended>>
  /\ UNCHANGED <<tick, lastIntent, deleted, runs>>

Return(r) ==
  /\ run[r].at \in {"done", "streamed"}
  /\ run' = [run EXCEPT ![r] = NotRunning]
  /\ UNCHANGED <<tick, lastIntent, sessions, memories, appended, deleted, runs>>

(* ArchiveStale: sessions not accessed for the timeout are deleted; their  *)
(* turns are written nowhere.                                              *)
ArchiveStale ==
  LET stale == {s \in Sessions : sessions[s] # None /\ sessions[s].accessed + SessionTimeout < tick}
  IN  /\ sessions' = [s \in Sessions |-> IF s \in stale THEN None ELSE sessions[s]]
      /\ deleted' = [s \in Sessions |-> IF s \in stale
                                         THEN deleted[s] \cup ((Gone(s) + 1)..Len(appended[s]))
                                         ELSE deleted[s]]
      /\ UNCHANGED <<tick, lastIntent, memories, run, appended, runs>>

Tick ==
  /\ tick < MaxTicks /\ tick' = tick + 1
  /\ UNCHANGED <<lastIntent, sessions, memories, run, appended, deleted, runs>>

Next ==
  \/ \E r \in Runners :
       \/ \E s \in Sessions, t \in Texts : Begin(r, s, t)
       \/ Recognize(r) \/ AppendUser(r) \/ ExecuteSkill(r) \/ EndSkills(r)
       \/ GetContext(r) \/ CallLLM(r) \/ Return(r)
  \/ ArchiveStale \/ Tick

Spec == Init /\ [][Next]_vars

-----------------------------------------------------------------------------
(* Properties *)

(* The places of a summary's turns. *)
TurnPlaces(m) == memories[m].from..(memories[m].from + Len(memories[m].turns) - 1)

(* No turn is lost or doubled when it is summarised: the window is the     *)
(* end of what its session was told and has its size; every turn before it *)
(* is in one summary, at its place, and the summaries of a session are in  *)
(* the order of their turns; but the turns in the window of a session that *)
(* was idle for too long are deleted and in no summary.                    *)
TurnsKept ==
  \A s \in Sessions :
    LET mine == {m \in DOMAIN memories : memories[m].session = s}
    IN  /\ Len(Turns(s)) <= WindowSize
        /\ \A i \in DOMAIN Turns(s) : Turns(s)[i] = appended[s][Gone(s) + i]
        /\ \A m \in mine : \A i \in DOMAIN memories[m].turns :
             memories[m].turns[i] = appended[s][memories[m].from + i - 1]
        /\ deleted[s] \cup UNION {TurnPlaces(m) : m \in mine} = 1..Gone(s)
        /\ \A m \in mine : TurnPlaces(m) \cap deleted[s] = {}
        /\ \A m, k \in mine : m < k => \A p \in TurnPlaces(m), q \in TurnPlaces(k) : p < q

(* Every request that was answered and not streamed has left its question  *)
(* and then its answer, each once, whatever requests of the session ran    *)
(* and whatever was deleted at the same time; a status report is not       *)
(* recorded.                                                               *)
AnswerBehindQuestion ==
  \A r \in Runners : run[r].at = "done" =>
    LET told == appended[run[r].session]
        own == {p \in DOMAIN told : told[p].n = run[r].n}
    IN  \E p \in own :
          /\ told[p].role = "user"
          /\ IF run[r].intent = "system" THEN own = {p}
             ELSE \E q \in own : told[q].role = "assistant" /\ p < q /\ own = {p, q}

(* The memories given to the LLM are within the limit, and no two of them  *)
(* are alike.                                                              *)
MemoriesDistinct ==
  \A r \in Runners :
    LET f == run[r].found
    IN  /\ Len(f) <= Limit
        /\ \A i, j \in DOMAIN f : i < j => ~Similar(f[i], f[j])
=============================================================================
