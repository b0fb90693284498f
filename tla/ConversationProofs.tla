------------------------- MODULE ConversationProofs -------------------------
(***************************************************************************)
(* Proofs about Conversation, for any questions, sessions, limits, quota   *)
(* and number of restarts.  A run's record tells where its proposals are   *)
(* at every await (Coherent); the history and the quota are facts about    *)
(* the turns and charges that the tables hold when they are counted.       *)
(***************************************************************************)
EXTENDS Conversation, FiniteSetTheorems, TLAPS

USE SessionsAssumption, MessagesAssumption, NobodyAssumption, BoundsAssumption

-----------------------------------------------------------------------------
(* One run *)

Fresh == {"idle", "accepted", "compiling", "refused"}
Late == {"checking", "recording", "answering", "answered"}

\* Where the proposals of a run are: stored by the thread and among its events
\* until it ends, lost to the run when it raised, then shown as they are drafted.
Coherent(o) ==
    /\ o.shown \subseteq o.stored
    /\ o.phase \notin {"thinking", "gone"} => o.thread = "none"
    /\ o.phase \in Fresh => o.stored = {} /\ o.found = {} /\ ~o.degraded
    /\ o.phase \in Fresh \union {"thinking", "fallback", "drafting"} => o.shown = {}
    /\ o.phase = "thinking" => o.stored \subseteq {"model"} /\ ~o.degraded
    /\ o.phase = "thinking" /\ o.thread # "raised" => o.found = o.stored
    /\ o.phase \in {"fallback", "drafting"} =>
          o.stored \subseteq (IF o.degraded THEN {"model"} ELSE {})
    /\ o.phase \in Late => o.stored \ o.shown \subseteq (IF o.degraded THEN {"model"} ELSE {})
    /\ /\ o.phase \in {"answering", "answered"}
       /\ o.message.explicit /\ ~o.message.merges /\ o.answer = "plain"
       => o.shown # {}

RunInv == \A r \in Requests : Coherent(run[r])

\* Only r's record changes, and it stays a coherent run.
Follows(r) ==
    /\ run' = [run EXCEPT ![r] = run'[r]]
    /\ run'[r] \in Run
    /\ Coherent(run'[r])

\* What a run is made of.
LEMMA RunFields ==
    ASSUME NEW o \in Run
    PROVE  /\ o.phase \in {"idle"} \union InProgress \union Ended
           /\ o.message \in Message
           /\ o.thread \in {"none", "running", "returned", "raised"}
           /\ o.history \in {"unread", "heard", "missed"}
           /\ o.rounds \in 0..MaxRounds
           /\ o.found \subseteq Drafters
           /\ o.shown \subseteq Drafters
           /\ o.stored \subseteq Drafters
           /\ o.degraded \in BOOLEAN
           /\ o.answer \in {"none", "plain", "merge", "refusal", "declined"}
BY DEF Run

\* The bounds are numbers, and the first round is within them.
LEMMA Bounds ==
    /\ HistoryLimit \in Nat /\ HistoryLimit > 0 /\ MaxTurns \in Nat /\ MaxTurns > 0
    /\ MaxRounds \in Nat /\ 0 \in 0..MaxRounds
    /\ \A k \in 0..MaxRounds : k < MaxRounds => k + 1 \in 0..MaxRounds
    /\ Window \in Nat /\ MaxClock \in Nat /\ MaxRestarts \in Nat
OBVIOUS

\* A run that only goes on to another phase.
LEMMA PhaseMoves ==
    ASSUME TypeOK, RunInv, NEW r \in Requests, NEW phase, Goes(r, phase),
           \/ phase = "refused" /\ run[r].phase = "idle"
           \/ phase = "failed" /\ run[r].phase \in {"accepted"} \union OnLoop
           \/ phase = "gone" /\ run[r].phase \in {"accepted", "thinking"}
           \/ phase = "compiling" /\ run[r].phase = "accepted"
           \/ phase = "recording" /\ run[r].phase = "checking"
           \/ phase = "answered" /\ run[r].phase = "answering"
           \/ /\ phase = "answering" /\ run[r].phase = "checking"
              /\ run[r].message.explicit /\ ~run[r].message.merges /\ run[r].answer = "plain"
                 => run[r].shown # {}
    PROVE  Follows(r)
<1> DEFINE o == run[r]
<1>1. o \in Run /\ Coherent(o)
  BY DEF TypeOK, RunInv
<1>2. run' = [run EXCEPT ![r] = [o EXCEPT !.phase = phase]] /\ run'[r] = [o EXCEPT !.phase = phase]
  BY DEF Goes, TypeOK
<1> HIDE DEF o
<1>3. run'[r] \in Run
  BY <1>1, <1>2 DEF Run, InProgress, OnLoop, Ended
<1>4. Coherent(run'[r])
  BY <1>1, <1>2 DEF Coherent, Run, Fresh, Late, OnLoop, o
<1>5. QED BY <1>2, <1>3, <1>4 DEF Follows

\* The question is accepted with nothing drafted yet.
LEMMA AcceptFollows ==
    ASSUME TypeOK, RunInv, NEW r \in Requests, NEW m \in Messages, Accept(r, m)
    PROVE  Follows(r)
<1> DEFINE o == run[r]
           n == [o EXCEPT !.phase = "accepted", !.message = m]
<1>1. o \in Run /\ Coherent(o) /\ o.phase = "idle"
  BY DEF TypeOK, RunInv, Accept
<1>2. run' = [run EXCEPT ![r] = n] /\ run'[r] = n
  BY DEF Accept, TypeOK
<1> HIDE DEF o
<1>3. n \in Run
  BY <1>1, RunFields, Bounds DEF Run, OnLoop, InProgress, Ended, Drafters, Message
<1>4. Coherent(n)
  BY <1>1, RunFields DEF Coherent, Run, Fresh, Late
<1>5. QED BY <1>2, <1>3, <1>4 DEF Follows

\* The thread reads its history.
LEMMA ReadHistoryFollows ==
    ASSUME TypeOK, RunInv, NEW r \in Requests, NEW heard \in {"heard", "missed"},
           run[r].thread = "running",
           run' = [run EXCEPT ![r].history = heard]
    PROVE  Follows(r)
<1> DEFINE o == run[r]
           n == [o EXCEPT !.history = heard]
<1>1. o \in Run /\ Coherent(o)
  BY DEF TypeOK, RunInv
<1>2. run' = [run EXCEPT ![r] = n] /\ run'[r] = n
  BY DEF TypeOK
<1> HIDE DEF o
<1>3. n \in Run
  BY <1>1, RunFields, Bounds DEF Run, OnLoop, InProgress, Ended, Drafters, Message
<1>4. Coherent(n)
  BY <1>1, RunFields DEF Coherent, Run, Fresh, Late
<1>5. QED BY <1>2, <1>3, <1>4 DEF Follows

\* The model ends its loop with an answer, which the thread returns.
LEMMA AnswersFollows ==
    ASSUME TypeOK, RunInv, NEW r \in Requests, NEW answer \in {"plain", "merge", "declined"}, ModelAnswers(r, answer)
    PROVE  Follows(r)
<1> DEFINE o == run[r]
           n == [o EXCEPT !.thread = "returned", !.answer = answer, !.history = "unread", !.rounds = 0]
<1>1. o \in Run /\ Coherent(o) /\ o.thread = "running"
  BY DEF TypeOK, RunInv, ModelAnswers, MayRespond
<1>2. run' = [run EXCEPT ![r] = n] /\ run'[r] = n
  BY DEF ModelAnswers, MayRespond, TypeOK
<1> HIDE DEF o
<1>3. n \in Run
  BY <1>1, RunFields, Bounds DEF Run, OnLoop, InProgress, Ended, Drafters, Message
<1>4. Coherent(n)
  BY <1>1, RunFields DEF Coherent, Run, Fresh, Late
<1>5. QED BY <1>2, <1>3, <1>4 DEF Follows

\* A round that reads changes nothing but their number.
LEMMA ReadsFollows ==
    ASSUME TypeOK, RunInv, NEW r \in Requests, ModelReads(r)
    PROVE  Follows(r)
<1> DEFINE o == run[r]
           n == [o EXCEPT !.rounds = @ + 1]
<1>1. o \in Run /\ Coherent(o) /\ o.rounds < MaxRounds
  BY DEF TypeOK, RunInv, ModelReads, MayRespond
<1>2. run' = [run EXCEPT ![r] = n] /\ run'[r] = n
  BY DEF ModelReads, MayRespond, TypeOK
<1> HIDE DEF o
<1>3. n \in Run
  BY <1>1, RunFields, Bounds DEF Run, OnLoop, InProgress, Ended, Drafters, Message
<1>4. Coherent(n)
  BY <1>1, RunFields DEF Coherent, Run, Fresh, Late
<1>5. QED BY <1>2, <1>3, <1>4 DEF Follows

\* A round that proposes stores and reports its proposal.
LEMMA ProposesFollows ==
    ASSUME TypeOK, RunInv, NEW r \in Requests, ModelProposes(r)
    PROVE  Follows(r)
<1> DEFINE o == run[r]
           n == [o EXCEPT !.rounds = @ + 1, !.found = @ \union {"model"}, !.stored = @ \union {"model"}]
<1>1. o \in Run /\ Coherent(o) /\ o.rounds < MaxRounds /\ o.thread = "running"
  BY DEF TypeOK, RunInv, ModelProposes, MayRespond
<1>2. run' = [run EXCEPT ![r] = n] /\ run'[r] = n
  BY DEF ModelProposes, MayRespond, TypeOK
<1> HIDE DEF o
<1>3. n \in Run
  BY <1>1, RunFields, Bounds DEF Run, OnLoop, InProgress, Ended, Drafters, Message
<1>4. Coherent(n)
  BY <1>1, RunFields DEF Coherent, Run, Fresh, Late
<1>5. QED BY <1>2, <1>3, <1>4 DEF Follows

\* A loop that raises loses its events, not what it stored.
LEMMA FailsFollows ==
    ASSUME TypeOK, RunInv, NEW r \in Requests, ModelFails(r)
    PROVE  Follows(r)
<1> DEFINE o == run[r]
           n == [o EXCEPT !.thread = "raised", !.found = {}, !.history = "unread", !.rounds = 0]
<1>1. o \in Run /\ Coherent(o) /\ o.thread = "running"
  BY DEF TypeOK, RunInv, ModelFails
<1>2. run' = [run EXCEPT ![r] = n] /\ run'[r] = n
  BY DEF ModelFails, TypeOK
<1> HIDE DEF o
<1>3. n \in Run
  BY <1>1, RunFields, Bounds DEF Run, OnLoop, InProgress, Ended, Drafters, Message
<1>4. Coherent(n)
  BY <1>1, RunFields DEF Coherent, Run, Fresh, Late
<1>5. QED BY <1>2, <1>3, <1>4 DEF Follows

\* Asking the model: its thread starts with no events.
LEMMA ThinkFollows ==
    ASSUME TypeOK, RunInv, NEW r \in Requests, run[r].phase = "compiling",
           run' = [run EXCEPT ![r].phase = "thinking", ![r].thread = "running"]
    PROVE  Follows(r)
<1> DEFINE o == run[r]
           n == [o EXCEPT !.phase = "thinking", !.thread = "running"]
<1>1. o \in Run /\ Coherent(o) /\ o.phase = "compiling"
  BY DEF TypeOK, RunInv
<1>2. run' = [run EXCEPT ![r] = n] /\ run'[r] = n
  BY DEF TypeOK
<1> HIDE DEF o
<1>3. n \in Run
  BY <1>1, RunFields, Bounds DEF Run, OnLoop, InProgress, Ended, Drafters, Message
<1>4. Coherent(n)
  BY <1>1, RunFields DEF Coherent, Run, Fresh, Late
<1>5. QED BY <1>2, <1>3, <1>4 DEF Follows

\* Without a key the fallback answers, with nothing drafted.
LEMMA KeylessFollows ==
    ASSUME TypeOK, RunInv, NEW r \in Requests, run[r].phase = "compiling",
           run' = [run EXCEPT ![r].phase = "fallback"]
    PROVE  Follows(r)
<1> DEFINE o == run[r]
           n == [o EXCEPT !.phase = "fallback"]
<1>1. o \in Run /\ Coherent(o) /\ o.phase = "compiling"
  BY DEF TypeOK, RunInv
<1>2. run' = [run EXCEPT ![r] = n] /\ run'[r] = n
  BY DEF TypeOK
<1> HIDE DEF o
<1>3. n \in Run
  BY <1>1, RunFields, Bounds DEF Run, OnLoop, InProgress, Ended, Drafters, Message
<1>4. Coherent(n)
  BY <1>1, RunFields DEF Coherent, Run, Fresh, Late
<1>5. QED BY <1>2, <1>3, <1>4 DEF Follows

\* The await hands the run every event of the loop.
LEMMA ReturnFollows ==
    ASSUME TypeOK, RunInv, NEW r \in Requests, run[r].phase = "thinking", run[r].thread = "returned",
           run' = [run EXCEPT ![r].phase = "checking", ![r].thread = "none",
                               ![r].shown = run[r].found, ![r].found = {}]
    PROVE  Follows(r)
<1> DEFINE o == run[r]
           n == [o EXCEPT !.phase = "checking", !.thread = "none", !.shown = o.found, !.found = {}]
<1>1. o \in Run /\ Coherent(o) /\ o.phase = "thinking" /\ o.thread = "returned"
  BY DEF TypeOK, RunInv
<1>2. run' = [run EXCEPT ![r] = n] /\ run'[r] = n
  BY DEF TypeOK
<1> HIDE DEF o
<1>3. n \in Run
  BY <1>1, RunFields, Bounds DEF Run, OnLoop, InProgress, Ended, Drafters, Message
<1>4. Coherent(n)
  BY <1>1, RunFields DEF Coherent, Run, Fresh, Late
<1>5. QED BY <1>2, <1>3, <1>4 DEF Follows

\* The await raises: what the loop stored is not among the events.
LEMMA RaiseFollows ==
    ASSUME TypeOK, RunInv, NEW r \in Requests, run[r].phase = "thinking", run[r].thread = "raised",
           run' = [run EXCEPT ![r].phase = "fallback", ![r].thread = "none",
                               ![r].degraded = TRUE]
    PROVE  Follows(r)
<1> DEFINE o == run[r]
           n == [o EXCEPT !.phase = "fallback", !.thread = "none", !.degraded = TRUE]
<1>1. o \in Run /\ Coherent(o) /\ o.phase = "thinking"
  BY DEF TypeOK, RunInv
<1>2. run' = [run EXCEPT ![r] = n] /\ run'[r] = n
  BY DEF TypeOK
<1> HIDE DEF o
<1>3. n \in Run
  BY <1>1, RunFields, Bounds DEF Run, OnLoop, InProgress, Ended, Drafters, Message
<1>4. Coherent(n)
  BY <1>1, RunFields DEF Coherent, Run, Fresh, Late
<1>5. QED BY <1>2, <1>3, <1>4 DEF Follows

\* The fallback refuses, drafts or answers.
LEMMA FallbackFollows ==
    ASSUME TypeOK, RunInv, NEW r \in Requests, run[r].phase = "fallback",
           NEW phase \in {"checking", "drafting"},
           NEW answer \in {"refusal", "plain", run[r].answer},
           run' = [run EXCEPT ![r].phase = phase, ![r].answer = answer]
    PROVE  Follows(r)
<1> DEFINE o == run[r]
           n == [o EXCEPT !.phase = phase, !.answer = answer]
<1>1. o \in Run /\ Coherent(o) /\ o.phase = "fallback" /\ answer \in {"refusal", "plain", o.answer}
  BY DEF TypeOK, RunInv
<1>2. run' = [run EXCEPT ![r] = n] /\ run'[r] = n
  BY DEF TypeOK
<1> HIDE DEF o
<1>3. n \in Run
  BY <1>1, RunFields, Bounds DEF Run, OnLoop, InProgress, Ended, Drafters, Message
<1>4. Coherent(n)
  BY <1>1, RunFields DEF Coherent, Run, Fresh, Late
<1>5. QED BY <1>2, <1>3, <1>4 DEF Follows

\* A draft of the fallback, or of an explicit request, is stored and shown.
LEMMA DraftFollows ==
    ASSUME TypeOK, RunInv, NEW r \in Requests, NEW who \in {"fallback", "explicit"}, NEW phase \in {"checking", "answering"},
           run[r].phase \in {"drafting", "recording"},
           Draft(r, who, phase)
    PROVE  Follows(r)
<1> DEFINE o == run[r]
           n == [o EXCEPT !.phase = phase, !.shown = @ \union {who}, !.stored = @ \union {who},
                           !.answer = IF who = "fallback" THEN "plain" ELSE @]
<1>1. o \in Run /\ Coherent(o) /\ o.phase \in {"drafting", "recording"}
  BY DEF TypeOK, RunInv, Draft
<1>2. run' = [run EXCEPT ![r] = n] /\ run'[r] = n
  BY DEF Draft, TypeOK
<1> HIDE DEF o
<1>3. n \in Run
  BY <1>1, RunFields, Bounds DEF Run, OnLoop, InProgress, Ended, Drafters, Message
<1>4. Coherent(n)
  BY <1>1, RunFields DEF Coherent, Run, Fresh, Late
<1>5. QED BY <1>2, <1>3, <1>4 DEF Follows

\* Whatever a run does next, its record stays coherent.
LEMMA WorksFollows ==
    ASSUME TypeOK, RunInv, NEW r \in Requests, Works(r)
    PROVE  Follows(r)
<1>1. CASE Ask(r)
  BY <1>1, PhaseMoves DEF Ask
<1>2. CASE Compile(r)
  BY <1>2, ThinkFollows, KeylessFollows DEF Compile
<1>3. CASE ReadHistory(r)
  BY <1>3, ReadHistoryFollows DEF ReadHistory
<1>4. CASE ModelReads(r) \/ ModelProposes(r) \/ ModelFails(r)
  BY <1>4, ReadsFollows, ProposesFollows, FailsFollows
<1>5. CASE \E answer \in {"plain", "merge", "declined"} : ModelAnswers(r, answer)
  BY <1>5, AnswersFollows
<1>6. CASE Resume(r)
  BY <1>6, ReturnFollows, RaiseFollows DEF Resume
<1>7. CASE Fallback(r)
  <2>1. PICK phase \in {"checking", "drafting"}, answer \in {"refusal", "plain", run[r].answer} :
          run' = [run EXCEPT ![r].phase = phase, ![r].answer = answer]
    <3>1. CASE Conflicts(run[r].message.merges)
      BY <1>7, <3>1 DEF Fallback
    <3>2. CASE ~Conflicts(run[r].message.merges) /\ run[r].message.drafts
      <4>1. run' = [run EXCEPT ![r].phase = "drafting"]
        BY <1>7, <3>2 DEF Fallback
      <4>2. run[r] \in Run
        BY DEF TypeOK
      <4>3. [run[r] EXCEPT !.phase = "drafting"]
              = [run[r] EXCEPT !.phase = "drafting", !.answer = run[r].answer]
        BY <4>2 DEF Run
      <4>4. run' = [run EXCEPT ![r].phase = "drafting", ![r].answer = run[r].answer]
        BY <4>1, <4>3 DEF TypeOK
      <4>5. QED BY <4>4
    <3>3. CASE ~Conflicts(run[r].message.merges) /\ ~run[r].message.drafts
      BY <1>7, <3>3 DEF Fallback
    <3>4. QED BY <3>1, <3>2, <3>3
  <2>2. run[r].phase = "fallback"
    BY <1>7 DEF Fallback
  <2>3. QED BY <2>1, <2>2, FallbackFollows
<1>8. CASE FallbackDraft(r) \/ RecordDecision(r)
  BY <1>8, DraftFollows DEF FallbackDraft, RecordDecision
<1>9. CASE Check(r)
  <2> DEFINE records == /\ Lacks(r)
                        /\ ~Conflicts(run[r].message.merges \/ run[r].answer = "merge")
                        /\ run[r].answer \notin {"refusal", "declined"}
  <2>1. run[r].phase = "checking" /\ Goes(r, IF records THEN "recording" ELSE "answering")
    BY <1>9 DEF Check
  <2>2. ASSUME ~records, run[r].message.explicit, ~run[r].message.merges,
               run[r].answer = "plain"
        PROVE  run[r].shown # {}
    BY <2>2 DEF Lacks, Conflicts
  <2> HIDE DEF records
  <2>3. CASE records
    BY <2>1, <2>3, PhaseMoves
  <2>4. CASE ~records
    BY <2>1, <2>2, <2>4, PhaseMoves
  <2>5. QED BY <2>3, <2>4
<1>10. CASE Answer(r)
  BY <1>10, PhaseMoves DEF Answer
<1>11. CASE Raise(r)
  BY <1>11, PhaseMoves DEF Raise
<1>12. QED
  BY <1>1, <1>2, <1>3, <1>4, <1>5, <1>6, <1>7, <1>8, <1>9, <1>10, <1>11 DEF Works

\* A restart leaves no run in progress and no thread.
LEMMA RestartCoheres ==
    ASSUME TypeOK, RunInv, Restart
    PROVE  run' \in [Requests -> Run] /\ RunInv'
<1> SUFFICES ASSUME NEW r \in Requests
             PROVE  run'[r] \in Run /\ Coherent(run'[r])
  BY DEF RunInv, Restart
<1> DEFINE o == run[r]
           phase == IF o.phase \in InProgress THEN "lost" ELSE o.phase
           n == [o EXCEPT !.phase = phase, !.thread = "none",
                          !.found = {}, !.history = "unread", !.rounds = 0]
<1>1. o \in Run /\ Coherent(o)
  BY DEF TypeOK, RunInv
<1>2. run'[r] = n
  BY DEF Restart
<1> HIDE DEF o
<1>3. n \in Run
  <2>1. o.phase \in {"idle"} \union InProgress \union Ended
    BY <1>1 DEF Run
  <2>2. phase \in {"idle"} \union InProgress \union Ended
    BY <2>1 DEF Ended
  <2> HIDE DEF phase
  <2>3. QED BY <1>1, <2>2, Bounds DEF Run
<1>4. Coherent(n)
  BY <1>1, RunFields DEF Coherent, Run, Fresh, Late, InProgress, OnLoop
<1>5. QED BY <1>2, <1>3, <1>4

\* Every step but a restart leaves the runs alone or lets one of them go on.
LEMMA RunsMove ==
    ASSUME TypeOK, RunInv, [Next]_vars, ~Restart
    PROVE  UNCHANGED run \/ \E r \in Requests : Follows(r)
<1>1. ASSUME NEW r \in Requests, Refuse(r) \/ Disconnect(r) PROVE Follows(r)
  BY <1>1, PhaseMoves DEF Refuse, Disconnect
<1>2. ASSUME Confirm \/ Tick \/ UNCHANGED vars \/ \E s \in Sessions : CreateSession(s)
      PROVE  UNCHANGED run
  BY <1>2 DEF Confirm, Tick, CreateSession, vars
<1>3. QED BY <1>1, <1>2, WorksFollows, AcceptFollows DEF Next

\* Every step keeps every run coherent.
LEMMA RunStep == TypeOK /\ RunInv /\ [Next]_vars => run' \in [Requests -> Run] /\ RunInv'
<1> SUFFICES ASSUME TypeOK, RunInv, [Next]_vars PROVE run' \in [Requests -> Run] /\ RunInv'
  OBVIOUS
<1>1. run \in [Requests -> Run]
  BY DEF TypeOK
<1>2. CASE Restart
  BY <1>2, RestartCoheres
<1>3. CASE UNCHANGED run
  BY <1>1, <1>3 DEF RunInv
<1>4. ASSUME NEW r \in Requests, Follows(r) PROVE run' \in [Requests -> Run] /\ RunInv'
  BY <1>1, <1>4 DEF Follows, RunInv
<1>5. QED BY <1>2, <1>3, <1>4, RunsMove

-----------------------------------------------------------------------------
(* The tables *)

\* What a step does to the tables and the counters.
LEMMA TablesMove ==
    ASSUME TypeOK, [Next]_vars
    PROVE  /\ \/ UNCHANGED turns
              \/ \E r \in Requests, role \in {"user", "assistant"} : AddTurn(r, role)
           /\ UNCHANGED quota \/ \E r \in Requests, m \in Messages : Accept(r, m)
           /\ sessions' \subseteq Sessions
           /\ boundary' \in BOOLEAN /\ keyed' = keyed
           /\ clock' \in 0..MaxClock /\ restarts' \in 0..MaxRestarts
<1>1. CASE \E s \in Sessions : CreateSession(s)
  BY <1>1 DEF CreateSession, TypeOK
<1>2. ASSUME NEW r \in Requests, Refuse(r) \/ Disconnect(r) \/ Raise(r) \/ Compile(r)
                                 \/ Fallback(r) \/ Check(r) \/ Resume(r)
      PROVE  UNCHANGED <<sessions, turns, quota, boundary, keyed, clock, restarts>>
  BY <1>2 DEF Refuse, Disconnect, Raise, Compile, Fallback, Check, Resume
<1>3. ASSUME NEW r \in Requests, ReadHistory(r) \/ ModelReads(r) \/ ModelProposes(r)
                 \/ ModelFails(r) \/ FallbackDraft(r) \/ RecordDecision(r)
                 \/ \E answer \in {"plain", "merge", "declined"} : ModelAnswers(r, answer)
      PROVE  UNCHANGED <<sessions, turns, quota, boundary, keyed, clock, restarts>>
  BY <1>3 DEF ReadHistory, ModelReads, ModelProposes, ModelFails, FallbackDraft,
              RecordDecision, ModelAnswers
<1>4. ASSUME NEW r \in Requests, Ask(r) \/ Answer(r)
      PROVE  /\ \E role \in {"user", "assistant"} : AddTurn(r, role)
             /\ UNCHANGED <<sessions, quota, boundary, keyed, clock, restarts>>
  BY <1>4 DEF Ask, Answer
<1>5. ASSUME NEW r \in Requests, NEW m \in Messages, Accept(r, m)
      PROVE  UNCHANGED <<sessions, turns, boundary, keyed, clock, restarts>>
  BY <1>5 DEF Accept
<1>6. ASSUME Confirm \/ Restart \/ Tick \/ UNCHANGED vars
      PROVE  /\ UNCHANGED <<sessions, turns, quota, keyed>>
             /\ boundary' \in BOOLEAN
             /\ clock' \in 0..MaxClock /\ restarts' \in 0..MaxRestarts
  <2>1. boundary \in BOOLEAN /\ clock \in 0..MaxClock /\ restarts \in 0..MaxRestarts
    BY DEF TypeOK
  <2>2. CASE Restart
    <3>1. /\ UNCHANGED <<sessions, turns, quota, boundary, keyed, clock>>
          /\ restarts < MaxRestarts /\ restarts' = restarts + 1
      BY <2>2 DEF Restart
    <3>2. QED BY <2>1, <3>1, Bounds
  <2>3. CASE Tick
    BY <2>1, <2>3, Bounds DEF Tick
  <2>4. CASE Confirm \/ UNCHANGED vars
    BY <2>1, <2>4 DEF Confirm, vars
  <2>5. QED BY <1>6, <2>2, <2>3, <2>4
<1>7. QED BY <1>1, <1>2, <1>3, <1>4, <1>5, <1>6 DEF Next, Works, TypeOK

\* Every step keeps the types.
LEMMA TypeStep == TypeOK /\ RunInv /\ [Next]_vars => TypeOK'
<1> SUFFICES ASSUME TypeOK, RunInv, [Next]_vars PROVE TypeOK'
  OBVIOUS
<1>1. run' \in [Requests -> Run] /\ RunInv'
  BY RunStep
<1>2. (\A r \in Requests : run[r].shown \subseteq run[r].stored)'
  BY <1>1 DEF RunInv, Coherent
<1>3. turns' \subseteq Turn
  <2>1. ASSUME NEW r \in Requests, NEW role \in {"user", "assistant"}, AddTurn(r, role)
        PROVE  turns' \subseteq Turn
    BY <2>1 DEF AddTurn, Turn, TypeOK
  <2>2. QED BY <2>1, TablesMove DEF TypeOK
<1>4. quota' \subseteq Charge
  <2>1. ASSUME NEW r \in Requests, NEW m \in Messages, Accept(r, m)
        PROVE  quota' \subseteq Charge
    BY <2>1 DEF Accept, Charge, TypeOK
  <2>2. QED BY <2>1, TablesMove DEF TypeOK
<1>5. QED BY <1>1, <1>2, <1>3, <1>4, TablesMove DEF TypeOK

\* A conversation starts with its types, and no run begun.
LEMMA InitHolds == Init => TypeOK /\ RunInv
<1> SUFFICES ASSUME Init PROVE TypeOK /\ RunInv
  OBVIOUS
<1>1. Idle \in Run
  BY Bounds DEF Idle, Run, Message, OnLoop, InProgress, Ended
<1>2. Coherent(Idle)
  BY DEF Coherent, Idle, Fresh, Late
<1>3. \A r \in Requests : run[r] = Idle
  BY DEF Init
<1>4. RunInv
  BY <1>2, <1>3 DEF RunInv
<1>5. 0 \in 0..MaxClock /\ 0 \in 0..MaxRestarts
  BY Bounds
<1>6. QED BY <1>1, <1>4, <1>5 DEF Init, TypeOK, RunInv, Coherent, Charge

LEMMA RunHolds == Spec => [](TypeOK /\ RunInv)
<1>1. TypeOK /\ RunInv /\ [Next]_vars => (TypeOK /\ RunInv)'
  BY RunStep, TypeStep
<1>2. QED BY InitHolds, <1>1, PTL DEF Spec

\* Rows, clock and coroutines always have their types, and a run never shows a
\* proposal it has not stored (agent.py, Aria.run).
THEOREM TypeCorrect == Spec => []TypeOK
BY RunHolds, PTL

\* An explicit request whose answer neither refuses nor mentions a merge is
\* answered with a proposal, however the model and the fallback interleave with
\* the confirmations and disconnects around them.  Nothing is said of the other
\* answers, which may come without one (Aria.run, agent.py:171-180).
THEOREM PlainAnswersPropose == Spec => []ExplicitDrafts
<1>1. TypeOK /\ RunInv => ExplicitDrafts
  BY DEF ExplicitDrafts, RunInv, Coherent
<1>2. QED BY RunHolds, <1>1, PTL

\* Only what a tool loop stored before it raised is missing from the events
\* of an answered run.
THEOREM DraftsAreReported == Spec => []DraftsReported
<1>1. TypeOK /\ RunInv => DraftsReported
  BY DEF DraftsReported, RunInv, Coherent, Late
<1>2. QED BY RunHolds, <1>1, PTL

-----------------------------------------------------------------------------
(* The history *)

\* The question of a run that may read its history is in the table.
HistoryInv ==
    /\ IsFiniteSet(turns)
    /\ \A r \in Requests :
          run[r].phase = "compiling" \/ run[r].thread = "running"
          => \E q \in turns : Asks(q, r)

\* The turns of one session are finitely many.
LEMMA TurnsFinite ==
    ASSUME IsFiniteSet(turns), NEW r \in Requests, NEW S, S \subseteq TurnsOf(r)
    PROVE  IsFiniteSet(S) /\ Cardinality(S) \in Nat
BY FS_Subset, FS_CardinalityType DEF TurnsOf

\* A history without the question is full of turns no older than it.
LEMMA MissedIsCrowdedOut ==
    ASSUME TypeOK, HistoryInv, NEW r \in Requests, run[r].thread = "running",
           NEW kept \in SUBSET TurnsOf(r), Recent(TurnsOf(r), kept),
           \A t \in kept : ~Asks(t, r)
    PROVE  \E q \in TurnsOf(r) :
              /\ Asks(q, r)
              /\ Cardinality({t \in TurnsOf(r) \ {q} : t.at >= q.at}) >= HistoryLimit
<1>1. PICK q \in turns : Asks(q, r)
  BY DEF HistoryInv
<1>2. q \in TurnsOf(r) /\ q \notin kept
  BY <1>1 DEF TurnsOf, Asks
<1>3. \A t \in turns : t.at \in Nat
  BY DEF TypeOK, Turn
<1> DEFINE later == {t \in TurnsOf(r) \ {q} : t.at >= q.at}
<1>4. kept \subseteq later
  <2>1. \A k \in kept : q.at <= k.at
    BY <1>2 DEF Recent
  <2>2. QED BY <1>2, <1>3, <2>1 DEF TurnsOf
<1>5. IsFiniteSet(TurnsOf(r)) /\ IsFiniteSet(later) /\ Cardinality(later) \in Nat
  BY TurnsFinite DEF HistoryInv
<1>6. Cardinality(kept) <= Cardinality(later)
  BY <1>4, <1>5, FS_Subset
<1>7. Cardinality(kept) = HistoryLimit
  <2>1. Cardinality(kept) # Cardinality(TurnsOf(r))
    BY <1>2, <1>5, FS_Subset
  <2>2. QED BY <2>1 DEF Recent
<1>8. Cardinality(kept) \in Nat
  BY <1>7, Bounds
<1>9. QED BY <1>2, <1>1, <1>5, <1>6, <1>7, Bounds

\* Turns are only added.
LEMMA TurnsGrow ==
    ASSUME TypeOK, IsFiniteSet(turns), [Next]_vars
    PROVE  turns \subseteq turns' /\ IsFiniteSet(turns')
<1>1. ASSUME NEW r \in Requests, NEW role \in {"user", "assistant"}, AddTurn(r, role)
      PROVE  turns \subseteq turns' /\ IsFiniteSet(turns')
  BY <1>1, FS_AddElement DEF AddTurn
<1>2. QED BY <1>1, TablesMove

\* A run that goes on to another phase keeps its thread and its history.
LEMMA GoesKeeps ==
    ASSUME TypeOK, NEW p \in Requests, NEW phase, Goes(p, phase), NEW r \in Requests
    PROVE  /\ run'[r].thread = run[r].thread /\ run'[r].history = run[r].history
           /\ run'[r].phase = IF r = p THEN phase ELSE run[r].phase
<1>1. run \in [Requests -> Run] /\ run[p] \in Run
  BY DEF TypeOK
<1>2. run'[r] = IF r = p THEN [run[p] EXCEPT !.phase = phase] ELSE run[r]
  BY <1>1 DEF Goes
<1>3. QED BY <1>1, <1>2 DEF Run

\* The thread and the phase of a run that may read its history come from a
\* question that was stored.
LEMMA ReadersAsked ==
    ASSUME TypeOK, [Next]_vars, NEW r \in Requests,
           run'[r].phase = "compiling" \/ run'[r].thread = "running"
    PROVE  \/ run[r].phase = "compiling" \/ run[r].thread = "running"
           \/ AddTurn(r, "user")
<1>1. run \in [Requests -> Run]
  BY DEF TypeOK
<1>2. CASE Restart
  BY <1>1, <1>2 DEF Restart, Run
<1>3. CASE Confirm \/ Tick \/ UNCHANGED vars \/ \E s \in Sessions : CreateSession(s)
  BY <1>3 DEF Confirm, Tick, CreateSession, vars
<1>4. ASSUME NEW p \in Requests, Ask(p)
      PROVE  \/ run[r].phase = "compiling" \/ run[r].thread = "running"
             \/ AddTurn(r, "user")
  BY <1>4, GoesKeeps DEF Ask
<1>5. ASSUME NEW p \in Requests, Refuse(p) \/ Disconnect(p) \/ Raise(p) \/ Check(p) \/ Answer(p)
      PROVE  run[r].phase = "compiling" \/ run[r].thread = "running"
  BY <1>5, GoesKeeps DEF Refuse, Disconnect, Raise, Check, Answer
<1>6. ASSUME NEW p \in Requests, Compile(p) \/ Fallback(p) \/ Resume(p)
      PROVE  run[r].phase = "compiling" \/ run[r].thread = "running"
  <2>1. run[p] \in Run /\ run[r] \in Run
    BY <1>1
  <2>2. CASE Compile(p)
    BY <1>1, <2>1, <2>2, <1>6 DEF Compile, Run
  <2>3. CASE Fallback(p)
    BY <1>1, <2>1, <2>3, <1>6 DEF Fallback, Run
  <2>4. CASE Resume(p)
    BY <1>1, <2>1, <2>4, <1>6 DEF Resume, Run
  <2>5. QED BY <1>6, <2>2, <2>3, <2>4
<1>7. ASSUME NEW p \in Requests, FallbackDraft(p) \/ RecordDecision(p)
      PROVE  run[r].phase = "compiling" \/ run[r].thread = "running"
  <2>1. run[p] \in Run /\ run[r] \in Run
    BY <1>1
  <2>2. CASE FallbackDraft(p)
    BY <1>1, <2>1, <2>2, <1>7 DEF FallbackDraft, Draft, Run
  <2>3. CASE RecordDecision(p)
    BY <1>1, <2>1, <2>3, <1>7 DEF RecordDecision, Draft, Run
  <2>4. QED BY <1>7, <2>2, <2>3
<1>8. ASSUME NEW p \in Requests, ReadHistory(p) \/ ModelReads(p) \/ ModelProposes(p) \/ ModelFails(p)
                 \/ \E answer \in {"plain", "merge", "declined"} : ModelAnswers(p, answer)
      PROVE  run[r].phase = "compiling" \/ run[r].thread = "running"
  <2>1. run[p] \in Run /\ run[r] \in Run
    BY <1>1
  <2>2. CASE ReadHistory(p)
    BY <1>1, <2>1, <2>2, <1>8 DEF ReadHistory, Run
  <2>3. CASE ModelReads(p)
    BY <1>1, <2>1, <2>3, <1>8 DEF ModelReads, Run
  <2>4. CASE ModelProposes(p)
    BY <1>1, <2>1, <2>4, <1>8 DEF ModelProposes, Run
  <2>5. CASE ModelFails(p)
    BY <1>1, <2>1, <2>5, <1>8 DEF ModelFails, Run
  <2>6. CASE \E answer \in {"plain", "merge", "declined"} : ModelAnswers(p, answer)
    BY <1>1, <2>1, <2>6, <1>8 DEF ModelAnswers, Run
  <2>7. QED BY <1>8, <2>2, <2>3, <2>4, <2>5, <2>6
<1>9. ASSUME NEW p \in Requests, NEW m \in Messages, Accept(p, m)
      PROVE  run[r].phase = "compiling" \/ run[r].thread = "running"
  BY <1>1, <1>9 DEF Accept
<1>10. QED
  BY <1>2, <1>3, <1>4, <1>5, <1>6, <1>7, <1>8, <1>9 DEF Next, Works

LEMMA HistoryStep == TypeOK /\ HistoryInv /\ [Next]_vars => HistoryInv'
<1> SUFFICES ASSUME TypeOK, HistoryInv, [Next]_vars PROVE HistoryInv'
  OBVIOUS
<1>1. turns \subseteq turns' /\ IsFiniteSet(turns')
  BY TurnsGrow DEF HistoryInv
<1>2. ASSUME NEW r \in Requests, run'[r].phase = "compiling" \/ run'[r].thread = "running"
      PROVE  \E q \in turns' : Asks(q, r)
  <2>1. CASE AddTurn(r, "user")
    <3> DEFINE q == [of |-> r, role |-> "user", at |-> clock]
    <3>1. q \in turns'
      BY <2>1 DEF AddTurn
    <3>2. Asks(q, r)
      BY DEF Asks
    <3>3. QED BY <3>1, <3>2
  <2>2. CASE run[r].phase = "compiling" \/ run[r].thread = "running"
    BY <1>1, <2>2 DEF HistoryInv
  <2>3. QED BY <1>2, <2>1, <2>2, ReadersAsked
<1>3. QED BY <1>1, <1>2 DEF HistoryInv, Asks

\* A history that lacks the question is the one just read, or one read before.
LEMMA MissesRead ==
    ASSUME TypeOK, [Next]_vars, NEW r \in Requests, run'[r].history = "missed"
    PROVE  \/ run[r].history = "missed"
           \/ /\ run[r].thread = "running"
              /\ UNCHANGED turns
              /\ \E kept \in SUBSET TurnsOf(r) :
                    Recent(TurnsOf(r), kept) /\ \A t \in kept : ~Asks(t, r)
<1>1. run \in [Requests -> Run]
  BY DEF TypeOK
<1>2. CASE Restart
  BY <1>1, <1>2 DEF Restart, Run
<1>3. CASE Confirm \/ Tick \/ UNCHANGED vars \/ \E s \in Sessions : CreateSession(s)
  BY <1>3 DEF Confirm, Tick, CreateSession, vars
<1>4. ASSUME NEW p \in Requests, ReadHistory(p)
      PROVE  \/ run[r].history = "missed"
             \/ /\ run[r].thread = "running"
                /\ UNCHANGED turns
                /\ \E kept \in SUBSET TurnsOf(r) :
                      Recent(TurnsOf(r), kept) /\ \A t \in kept : ~Asks(t, r)
  <2>1. PICK kept \in SUBSET TurnsOf(p) :
          /\ Recent(TurnsOf(p), kept)
          /\ run' = [run EXCEPT ![p].history =
                       IF \E t \in kept : Asks(t, p) THEN "heard" ELSE "missed"]
    BY <1>4 DEF ReadHistory
  <2>2. UNCHANGED turns /\ run[p].thread = "running"
    BY <1>4 DEF ReadHistory
  <2>3. CASE p # r
    BY <1>1, <2>1, <2>3
  <2>4. CASE p = r
    <3>1. run'[r].history = IF \E t \in kept : Asks(t, p) THEN "heard" ELSE "missed"
      BY <1>1, <2>1, <2>4 DEF Run
    <3>2. \A t \in kept : ~Asks(t, p)
      BY <3>1
    <3>3. QED BY <2>1, <2>2, <2>4, <3>2
  <2>5. QED BY <2>3, <2>4
<1>5. ASSUME NEW p \in Requests, Refuse(p) \/ Disconnect(p) \/ Raise(p) \/ Check(p) \/ Answer(p)
                                 \/ Ask(p)
      PROVE  run[r].history = "missed"
  BY <1>5, GoesKeeps DEF Refuse, Disconnect, Raise, Check, Answer, Ask
<1>6. ASSUME NEW p \in Requests, Compile(p) \/ Fallback(p) \/ Resume(p)
      PROVE  run[r].history = "missed"
  <2>1. run[p] \in Run /\ run[r] \in Run
    BY <1>1
  <2>2. CASE Compile(p)
    BY <1>1, <2>1, <2>2, <1>6 DEF Compile, Run
  <2>3. CASE Fallback(p)
    BY <1>1, <2>1, <2>3, <1>6 DEF Fallback, Run
  <2>4. CASE Resume(p)
    BY <1>1, <2>1, <2>4, <1>6 DEF Resume, Run
  <2>5. QED BY <1>6, <2>2, <2>3, <2>4
<1>7. ASSUME NEW p \in Requests, FallbackDraft(p) \/ RecordDecision(p)
      PROVE  run[r].history = "missed"
  <2>1. run[p] \in Run /\ run[r] \in Run
    BY <1>1
  <2>2. CASE FallbackDraft(p)
    BY <1>1, <2>1, <2>2, <1>7 DEF FallbackDraft, Draft, Run
  <2>3. CASE RecordDecision(p)
    BY <1>1, <2>1, <2>3, <1>7 DEF RecordDecision, Draft, Run
  <2>4. QED BY <1>7, <2>2, <2>3
<1>8. ASSUME NEW p \in Requests, ModelReads(p) \/ ModelProposes(p) \/ ModelFails(p)
                 \/ \E answer \in {"plain", "merge", "declined"} : ModelAnswers(p, answer)
      PROVE  run[r].history = "missed"
  <2>1. run[p] \in Run /\ run[r] \in Run
    BY <1>1
  <2>2. CASE ModelReads(p)
    BY <1>1, <2>1, <2>2, <1>8 DEF ModelReads, Run
  <2>3. CASE ModelProposes(p)
    BY <1>1, <2>1, <2>3, <1>8 DEF ModelProposes, Run
  <2>4. CASE ModelFails(p)
    BY <1>1, <2>1, <2>4, <1>8 DEF ModelFails, Run
  <2>5. CASE \E answer \in {"plain", "merge", "declined"} : ModelAnswers(p, answer)
    BY <1>1, <2>1, <2>5, <1>8 DEF ModelAnswers, Run
  <2>6. QED BY <1>8, <2>2, <2>3, <2>4, <2>5
<1>9. ASSUME NEW p \in Requests, NEW m \in Messages, Accept(p, m)
      PROVE  run[r].history = "missed"
  BY <1>1, <1>9 DEF Accept
<1>10. QED
  BY <1>2, <1>3, <1>4, <1>5, <1>6, <1>7, <1>8, <1>9 DEF Next, Works

\* Turns that crowd a question out stay.
LEMMA CrowdStays ==
    ASSUME TypeOK, HistoryInv, [Next]_vars, NEW r \in Requests, NEW q \in TurnsOf(r), Asks(q, r),
           Cardinality({t \in TurnsOf(r) \ {q} : t.at >= q.at}) >= HistoryLimit
    PROVE  /\ q \in TurnsOf(r)'
           /\ Cardinality({t \in TurnsOf(r)' \ {q} : t.at >= q.at}) >= HistoryLimit
<1> DEFINE now == {t \in TurnsOf(r) \ {q} : t.at >= q.at}
           then == {t \in turns' : SessionOf[t.of] = SessionOf[r] /\ t # q /\ t.at >= q.at}
<1>1. turns \subseteq turns' /\ IsFiniteSet(turns')
  BY TurnsGrow DEF HistoryInv
<1>2. now \subseteq then /\ then \subseteq turns' /\ q \in TurnsOf(r)'
  BY <1>1 DEF TurnsOf
<1>3. IsFiniteSet(then)
  BY <1>1, <1>2, FS_Subset
<1>4. Cardinality(now) <= Cardinality(then)
  BY <1>2, <1>3, FS_Subset
<1>5. Cardinality(now) \in Nat /\ Cardinality(then) \in Nat
  BY <1>2, <1>3, FS_Subset, FS_CardinalityType
<1>6. then = {t \in TurnsOf(r)' \ {q} : t.at >= q.at}
  BY DEF TurnsOf
<1> HIDE DEF then
<1>7. Cardinality(then) >= HistoryLimit
  BY <1>4, <1>5, Bounds
<1>8. QED BY <1>2, <1>6, <1>7

LEMMA HeardStep == TypeOK /\ HistoryInv /\ QuestionHeard /\ [Next]_vars => QuestionHeard'
<1> SUFFICES ASSUME TypeOK, HistoryInv, QuestionHeard, [Next]_vars,
                    NEW r \in Requests, run'[r].history = "missed"
             PROVE  (\E q \in TurnsOf(r) :
                       /\ Asks(q, r)
                       /\ Cardinality({t \in TurnsOf(r) \ {q} : t.at >= q.at}) >= HistoryLimit)'
  BY DEF QuestionHeard
<1>1. \E q \in TurnsOf(r) :
        /\ Asks(q, r)
        /\ Cardinality({t \in TurnsOf(r) \ {q} : t.at >= q.at}) >= HistoryLimit
  BY MissesRead, MissedIsCrowdedOut DEF QuestionHeard
<1>2. PICK q \in TurnsOf(r) :
        /\ Asks(q, r)
        /\ Cardinality({t \in TurnsOf(r) \ {q} : t.at >= q.at}) >= HistoryLimit
  BY <1>1
<1>3. QED BY <1>2, CrowdStays DEF Asks

\* The model is shown the question it answers, unless its session has as many
\* turns no older as the history has room for (store.py, recent_turns).
THEOREM QuestionIsHeard == Spec => []QuestionHeard
<1>1. Init => HistoryInv /\ QuestionHeard
  <2> SUFFICES ASSUME Init PROVE HistoryInv /\ QuestionHeard
    OBVIOUS
  <2>1. turns = {} /\ \A r \in Requests : run[r] = Idle
    BY DEF Init
  <2>2. QED BY <2>1, FS_EmptySet DEF HistoryInv, QuestionHeard, Idle
<1>2. TypeOK /\ HistoryInv /\ QuestionHeard /\ [Next]_vars => (HistoryInv /\ QuestionHeard)'
  BY HistoryStep, HeardStep
<1>3. QED BY RunHolds, <1>1, <1>2, PTL DEF Spec

-----------------------------------------------------------------------------
(* The quota *)

QuotaInv == IsFiniteSet(quota) /\ QuotaHeld

\* The charges of one window.
Within(t) == {q \in quota : q.at \in t..(t + Window)}

\* A charge that has room keeps every window within the quota.
LEMMA ChargeFits ==
    ASSUME TypeOK, QuotaInv, NEW r \in Requests, NEW m \in Messages, Accept(r, m),
           NEW t \in 0..MaxClock
    PROVE  Cardinality(Within(t)') <= MaxTurns
<1> DEFINE charge == [of |-> r, at |-> clock]
           spent == {q \in quota : q.at + Window >= clock}
<1>1. quota' = quota \union {charge} /\ Cardinality(spent) < MaxTurns /\ UNCHANGED clock
  BY DEF Accept, HasRoom, Spent
<1>2. /\ clock \in Nat /\ t \in Nat
      /\ \A q \in quota : q.at \in Nat
  BY Bounds DEF TypeOK, Charge
<1>3. IsFiniteSet(Within(t)) /\ Cardinality(Within(t)) \in Nat
  BY FS_Subset, FS_CardinalityType DEF QuotaInv, Within
<1>4. Cardinality(Within(t)) <= MaxTurns
  BY DEF QuotaInv, QuotaHeld, Within
<1>5. IsFiniteSet(spent) /\ Cardinality(spent) \in Nat
  BY FS_Subset, FS_CardinalityType DEF QuotaInv
<1>6. CASE clock \notin t..(t + Window)
  <2>1. Within(t)' = Within(t)
    BY <1>1, <1>6 DEF Within
  <2>2. QED BY <1>4, <2>1
<1>7. CASE clock \in t..(t + Window)
  <2>1. Within(t)' = Within(t) \union {charge}
    BY <1>1, <1>7 DEF Within
  <2>2. Within(t) \subseteq spent
    BY <1>2, <1>7, Bounds DEF Within
  <2>3. Cardinality(Within(t)) <= Cardinality(spent)
    BY <1>5, <2>2, FS_Subset
  <2>4. Cardinality(Within(t) \union {charge}) \in {Cardinality(Within(t)), Cardinality(Within(t)) + 1}
    BY <1>3, FS_AddElement
  <2> HIDE DEF charge, spent
  <2>5. QED BY <1>1, <1>3, <1>5, <2>1, <2>3, <2>4, Bounds
<1>8. QED BY <1>6, <1>7

LEMMA QuotaStep == TypeOK /\ QuotaInv /\ [Next]_vars => QuotaInv'
<1> SUFFICES ASSUME TypeOK, QuotaInv, [Next]_vars PROVE QuotaInv'
  OBVIOUS
<1>1. CASE UNCHANGED quota
  BY <1>1 DEF QuotaInv, QuotaHeld
<1>2. ASSUME NEW r \in Requests, NEW m \in Messages, Accept(r, m)
      PROVE  QuotaInv'
  <2>1. IsFiniteSet(quota')
    BY <1>2, FS_AddElement DEF Accept, QuotaInv
  <2>2. ASSUME NEW t \in 0..MaxClock PROVE Cardinality(Within(t)') <= MaxTurns
    BY <1>2, ChargeFits
  <2>3. QED BY <2>1, <2>2 DEF QuotaInv, QuotaHeld, Within
<1>3. QED BY <1>1, <1>2, TablesMove

\* No window of a day holds more turns than the quota allows, however the
\* requests interleave with each other and with restarts (store.py, limited).
THEOREM QuotaIsHeld == Spec => []QuotaHeld
<1>1. Init => QuotaInv
  <2> SUFFICES ASSUME Init PROVE QuotaInv
    OBVIOUS
  <2> DEFINE first == [of |-> Nobody, at |-> 0]
  <2>1. quota = {first}
    BY DEF Init
  <2>2. IsFiniteSet(quota) /\ Cardinality(quota) = 1
    BY <2>1, FS_Singleton
  <2>3. ASSUME NEW t \in 0..MaxClock PROVE Cardinality(Within(t)) <= MaxTurns
    <3>1. Within(t) \subseteq quota
      BY DEF Within
    <3>2. Cardinality(Within(t)) <= 1 /\ Cardinality(Within(t)) \in Nat
      BY <3>1, <2>2, FS_Subset, FS_CardinalityType
    <3>3. QED BY <3>2, Bounds
  <2>4. QED BY <2>2, <2>3 DEF QuotaInv, QuotaHeld, Within
<1>2. TypeOK /\ QuotaInv /\ [Next]_vars => QuotaInv'
  BY QuotaStep
<1>3. QuotaInv => QuotaHeld
  BY DEF QuotaInv
<1>4. QED BY RunHolds, <1>1, <1>2, <1>3, PTL DEF Spec
=============================================================================
