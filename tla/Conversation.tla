---------------------------- MODULE Conversation ----------------------------
(***************************************************************************)
(* A conversation with Aria: POST /api/v1/chat/stream, Aria.run and the    *)
(* sessions, turns and quota it writes.                                    *)
(*                                                                         *)
(* The endpoint is a coroutine: everything between two awaits runs without *)
(* another coroutine in between (OnLoop), while the confirmations of the   *)
(* threaded endpoints land between any two statements.  The only await of  *)
(* a run is the model's tool loop, which runs in a thread of its own and   *)
(* goes on when the client has left.                                       *)
(*                                                                         *)
(* Of a message only the words the code looks for matter; of an answer,    *)
(* whether it says "merge" or refuses; of a proposal, who drafted it.      *)
(***************************************************************************)
EXTENDS Naturals, FiniteSets

CONSTANTS
    Requests,       \* the questions that are posted
    Sessions,
    SessionOf,      \* Requests -> Sessions: the request's session_id
    Messages,       \* the messages a question may be
    Nobody,         \* the asker of the questions before this behaviour
    HistoryLimit,   \* turns the model is shown (10 in the code)
    MaxRounds,      \* rounds of the tool loop (6 in the code)
    MaxTurns,       \* settings.max_aria_turns
    Window,         \* the day of the quota, in ticks of the clock
    MaxClock,       \* bound: seconds that pass
    MaxRestarts     \* bound: times the server is restarted

\* explicit: an action word and an object word of _explicit_proposal_request;
\* drafts: a word that makes the fallback propose; merges: the word "merge".
Message == [explicit : BOOLEAN, drafts : BOOLEAN, merges : BOOLEAN]

ASSUME SessionsAssumption == SessionOf \in [Requests -> Sessions]
ASSUME MessagesAssumption == Messages \subseteq Message
ASSUME NobodyAssumption == Nobody \notin Requests
ASSUME BoundsAssumption ==
    /\ {HistoryLimit, MaxRounds, MaxTurns} \subseteq Nat \ {0}
    /\ {Window, MaxClock, MaxRestarts} \subseteq Nat

VARIABLES
    sessions,   \* the sessions table
    turns,      \* the turns table
    quota,      \* quota_events of the category "aria"
    boundary,   \* an active decision in the memories table says "not merge"
    run,        \* Requests -> the request's coroutine and thread
    keyed,      \* settings.openai_api_key is set
    clock,      \* utc_now(), whole seconds
    restarts

vars == <<sessions, turns, quota, boundary, run, keyed, clock, restarts>>

Drafters == {"model", "fallback", "explicit"}

\* Phases in which the coroutine holds the event loop.
OnLoop == {"compiling", "fallback", "drafting", "checking", "recording", "answering"}
InProgress == OnLoop \union {"accepted", "thinking"}
Ended == {"answered", "failed", "gone", "lost", "refused"}

Run == [phase    : {"idle"} \union InProgress \union Ended,
        message  : Message,
        thread   : {"none", "running", "returned", "raised"},
        history  : {"unread", "heard", "missed"},   \* locals of the thread:
        rounds   : 0..MaxRounds,                    \* gone when it ends
        found    : SUBSET Drafters,     \* proposal events of the tool loop
        shown    : SUBSET Drafters,     \* proposal events of the run
        stored   : SUBSET Drafters,     \* proposals inserted for the run
        degraded : BOOLEAN,             \* the tool loop raised
        answer   : {"none", "plain", "merge", "refusal", "declined"}]

Turn == [of : Requests, role : {"user", "assistant"}, at : 0..MaxClock]
Charge == [of : Requests \union {Nobody}, at : 0..MaxClock]

\* Rows, clock and coroutines have their types.
TypeOK ==
    /\ sessions \subseteq Sessions
    /\ turns \subseteq Turn
    /\ quota \subseteq Charge
    /\ boundary \in BOOLEAN /\ keyed \in BOOLEAN
    /\ run \in [Requests -> Run]
    /\ clock \in 0..MaxClock
    /\ restarts \in 0..MaxRestarts
    /\ \A r \in Requests : run[r].shown \subseteq run[r].stored

Idle == [phase |-> "idle",
         message |-> [explicit |-> FALSE, drafts |-> FALSE, merges |-> FALSE],
         thread |-> "none", history |-> "unread", rounds |-> 0, found |-> {},
         shown |-> {}, stored |-> {}, degraded |-> FALSE, answer |-> "none"]

\* A question was asked before: of the day's quota one turn is gone.
Init ==
    /\ sessions = {} /\ turns = {}
    /\ quota = {[of |-> Nobody, at |-> 0]}
    /\ boundary \in BOOLEAN /\ keyed \in BOOLEAN
    /\ run = [r \in Requests |-> Idle]
    /\ clock = 0
    /\ restarts = 0

Goes(r, phase) == run' = [run EXCEPT ![r].phase = phase]

LoopFree == \A r \in Requests : run[r].phase \notin OnLoop

-----------------------------------------------------------------------------
(* The endpoint.                                                           *)

\* POST /api/v1/sessions.
CreateSession(s) ==
    /\ s \notin sessions
    /\ sessions' = sessions \union {s}
    /\ UNCHANGED <<turns, quota, boundary, run, keyed, clock, restarts>>

\* A mutation: the cutoff's own second is left out.
SpentAfter == Cardinality({q \in quota : q.at + Window > clock})

\* limited: rows of the category since the cutoff, the cutoff included.
Spent == Cardinality({q \in quota : q.at + Window >= clock})

HasRoom == Spent < MaxTurns

\* session_exists fails (404), or the day's turns are spent (429).
Refuse(r) ==
    /\ run[r].phase = "idle" /\ LoopFree
    /\ SessionOf[r] \notin sessions \/ ~HasRoom
    /\ Goes(r, "refused")
    /\ UNCHANGED <<sessions, turns, quota, boundary, keyed, clock, restarts>>

\* The count and the insertion of limited share a transaction.
Accept(r, m) ==
    /\ run[r].phase = "idle" /\ LoopFree
    /\ SessionOf[r] \in sessions /\ HasRoom
    /\ quota' = quota \union {[of |-> r, at |-> clock]}
    /\ run' = [run EXCEPT ![r].phase = "accepted", ![r].message = m]
    /\ UNCHANGED <<sessions, turns, boundary, keyed, clock, restarts>>

AddTurn(r, role) == turns' = turns \union {[of |-> r, role |-> role, at |-> clock]}

Ask(r) ==
    /\ run[r].phase = "accepted" /\ LoopFree
    /\ AddTurn(r, "user")
    /\ Goes(r, "compiling")
    /\ UNCHANGED <<sessions, quota, boundary, keyed, clock, restarts>>

\* The context pack and the architecture brief, then the model or the fallback.
Compile(r) ==
    /\ run[r].phase = "compiling"
    /\ run' = IF keyed
              THEN [run EXCEPT ![r].phase = "thinking", ![r].thread = "running"]
              ELSE [run EXCEPT ![r].phase = "fallback"]
    /\ UNCHANGED <<sessions, turns, quota, boundary, keyed, clock, restarts>>

-----------------------------------------------------------------------------
(* The tool loop, in its thread.                                           *)

TurnsOf(r) == {t \in turns : SessionOf[t.of] = SessionOf[r]}
Asks(t, r) == t.of = r /\ t.role = "user"

\* A mutation: the earliest rows.
Earliest(all, kept) ==
    /\ Cardinality(kept) = IF Cardinality(all) < HistoryLimit
                           THEN Cardinality(all) ELSE HistoryLimit
    /\ \A t \in all \ kept, k \in kept : t.at >= k.at

\* The rows of recent_turns: the latest of the session.  Rows of one second
\* come in any order.
Recent(all, kept) ==
    /\ Cardinality(kept) = IF Cardinality(all) < HistoryLimit
                           THEN Cardinality(all) ELSE HistoryLimit
    /\ \A t \in all \ kept, k \in kept : t.at <= k.at

ReadHistory(r) ==
    /\ run[r].thread = "running" /\ run[r].history = "unread"
    /\ \E kept \in SUBSET TurnsOf(r) :
         /\ Recent(TurnsOf(r), kept)
         /\ run' = [run EXCEPT ![r].history =
                      IF \E t \in kept : Asks(t, r) THEN "heard" ELSE "missed"]
    /\ UNCHANGED <<sessions, turns, quota, boundary, keyed, clock, restarts>>

\* A mutation: one round too many.
MayRespondAgain(r) ==
    /\ run[r].thread = "running" /\ run[r].history # "unread"
    /\ run[r].rounds <= MaxRounds

MayRespond(r) ==
    /\ run[r].thread = "running" /\ run[r].history # "unread"
    /\ run[r].rounds < MaxRounds

\* A response without a call ends the loop with its text.
ModelAnswers(r, answer) ==
    /\ MayRespond(r)
    /\ run' = [run EXCEPT ![r].thread = "returned", ![r].answer = answer,
                          ![r].history = "unread", ![r].rounds = 0]
    /\ UNCHANGED <<sessions, turns, quota, boundary, keyed, clock, restarts>>

\* A mutation: the loop never gives up, and asks the model again.
ModelReadsOn(r) ==
    /\ run[r].thread = "running" /\ run[r].history # "unread"
    /\ run' = [run EXCEPT ![r].rounds = (@ + 1) % (MaxRounds + 1)]
    /\ UNCHANGED <<sessions, turns, quota, boundary, keyed, clock, restarts>>

\* A call of a tool that only reads.
ModelReads(r) ==
    /\ MayRespond(r)
    /\ run' = [run EXCEPT ![r].rounds = @ + 1]
    /\ UNCHANGED <<sessions, turns, quota, boundary, keyed, clock, restarts>>

\* propose_memory_write: stored at once, with no check of a conflict.
ModelProposes(r) ==
    /\ MayRespond(r)
    /\ run' = [run EXCEPT ![r].rounds = @ + 1,
                          ![r].found = @ \union {"model"},
                          ![r].stored = @ \union {"model"}]
    /\ UNCHANGED <<sessions, turns, quota, boundary, keyed, clock, restarts>>

\* The service, a tool or its arguments fail, or the rounds are used up: the
\* events of the loop are gone with its frame.
ModelFails(r) ==
    /\ run[r].thread = "running"
    /\ run' = [run EXCEPT ![r].thread = "raised", ![r].found = {},
                          ![r].history = "unread", ![r].rounds = 0]
    /\ UNCHANGED <<sessions, turns, quota, boundary, keyed, clock, restarts>>

\* A mutation: the events of the loop never reach the run.
ResumeBare(r) ==
    /\ run[r].phase = "thinking" /\ LoopFree
    /\ run[r].thread \in {"returned", "raised"}
    /\ run' = [run EXCEPT ![r].phase = IF run[r].thread = "raised"
                                      THEN "fallback" ELSE "checking",
                          ![r].thread = "none", ![r].found = {}]
    /\ UNCHANGED <<sessions, turns, quota, boundary, keyed, clock, restarts>>

\* The await returns the loop's events, or raises.
Resume(r) ==
    /\ run[r].phase = "thinking" /\ LoopFree
    /\ \/ /\ run[r].thread = "returned"
          /\ run' = [run EXCEPT ![r].phase = "checking", ![r].thread = "none",
                                ![r].shown = run[r].found, ![r].found = {}]
       \/ /\ run[r].thread = "raised"
          /\ run' = [run EXCEPT ![r].phase = "fallback", ![r].thread = "none",
                                ![r].degraded = TRUE]
    /\ UNCHANGED <<sessions, turns, quota, boundary, keyed, clock, restarts>>

-----------------------------------------------------------------------------
(* The rest of the run, on the loop again.                                 *)

\* check_synthesis.
Conflicts(merges) == merges /\ boundary

\* _fallback up to its proposal: refuses a merge that conflicts.
Fallback(r) ==
    LET message == run[r].message IN
    /\ run[r].phase = "fallback"
    /\ run' = IF Conflicts(message.merges)
              THEN [run EXCEPT ![r].phase = "checking", ![r].answer = "refusal"]
              ELSE IF message.drafts
              THEN [run EXCEPT ![r].phase = "drafting"]
              ELSE [run EXCEPT ![r].phase = "checking", ![r].answer = "plain"]
    /\ UNCHANGED <<sessions, turns, quota, boundary, keyed, clock, restarts>>

Draft(r, who, phase) ==
    run' = [run EXCEPT ![r].phase = phase,
                       ![r].shown = @ \union {who},
                       ![r].stored = @ \union {who},
                       ![r].answer = IF who = "fallback" THEN "plain" ELSE @]

FallbackDraft(r) ==
    /\ run[r].phase = "drafting"
    /\ Draft(r, "fallback", "checking")
    /\ UNCHANGED <<sessions, turns, quota, boundary, keyed, clock, restarts>>

\* A mutation: looks for the proposals of the run in the database.
LacksStored(r) == run[r].message.explicit /\ run[r].stored = {}

\* An explicit request with no proposal among the events of the run.
Lacks(r) == run[r].message.explicit /\ run[r].shown = {}

Check(r) ==
    /\ run[r].phase = "checking"
    /\ Goes(r, IF /\ Lacks(r)
                  /\ ~Conflicts(run[r].message.merges \/ run[r].answer = "merge")
                  /\ run[r].answer \notin {"refusal", "declined"}
               THEN "recording" ELSE "answering")
    /\ UNCHANGED <<sessions, turns, quota, boundary, keyed, clock, restarts>>

RecordDecision(r) ==
    /\ run[r].phase = "recording"
    /\ Draft(r, "explicit", "answering")
    /\ UNCHANGED <<sessions, turns, quota, boundary, keyed, clock, restarts>>

\* The assistant's turn; then the events are streamed.
Answer(r) ==
    /\ run[r].phase = "answering"
    /\ AddTurn(r, "assistant")
    /\ Goes(r, "answered")
    /\ UNCHANGED <<sessions, quota, boundary, keyed, clock, restarts>>

\* Whatever raises outside the tool loop becomes an error event.
Raise(r) ==
    /\ run[r].phase \in OnLoop \/ (run[r].phase = "accepted" /\ LoopFree)
    /\ Goes(r, "failed")
    /\ UNCHANGED <<sessions, turns, quota, boundary, keyed, clock, restarts>>

-----------------------------------------------------------------------------
(* Around the run.                                                         *)

\* The client leaves: the await is cancelled, which no handler catches, and
\* the thread goes on.
Disconnect(r) ==
    /\ run[r].phase \in {"accepted", "thinking"} /\ LoopFree
    /\ Goes(r, "gone")
    /\ UNCHANGED <<sessions, turns, quota, boundary, keyed, clock, restarts>>

\* A decision that says "not merge" is confirmed, or invalidated.
Confirm ==
    /\ boundary' = ~boundary
    /\ UNCHANGED <<sessions, turns, quota, run, keyed, clock, restarts>>

Tick ==
    /\ clock < MaxClock
    /\ clock' = clock + 1
    /\ UNCHANGED <<sessions, turns, quota, boundary, run, keyed, restarts>>

Restart ==
    /\ restarts < MaxRestarts
    /\ restarts' = restarts + 1
    /\ run' = [r \in Requests |->
                 [run[r] EXCEPT !.phase = IF @ \in InProgress THEN "lost" ELSE @,
                                !.thread = "none", !.found = {},
                                !.history = "unread", !.rounds = 0]]
    /\ UNCHANGED <<sessions, turns, quota, boundary, keyed, clock>>

Works(r) ==
    \/ Ask(r) \/ Compile(r)
    \/ ReadHistory(r) \/ ModelReads(r) \/ ModelProposes(r) \/ ModelFails(r)
    \/ \E answer \in {"plain", "merge", "declined"} : ModelAnswers(r, answer)
    \/ Resume(r) \/ Fallback(r) \/ FallbackDraft(r)
    \/ Check(r) \/ RecordDecision(r) \/ Answer(r) \/ Raise(r)

Next ==
    \/ \E s \in Sessions : CreateSession(s)
    \/ \E r \in Requests :
         \/ Refuse(r) \/ Disconnect(r) \/ Works(r)
         \/ \E m \in Messages : Accept(r, m)
    \/ Confirm \/ Tick \/ Restart

\* The event loop runs what is ready, threads are scheduled, and a call of the
\* service returns or times out.
Fairness == \A r \in Requests : WF_vars(Works(r))

Spec == Init /\ [][Next]_vars /\ Fairness

-----------------------------------------------------------------------------
(* What a conversation must keep.                                          *)

\* An explicit request that gets a plain answer, one that neither refuses nor
\* mentions a merge, has a proposal among its events: the drafts of a loop that
\* raised are not counted, the fallback drafts for some words only, and
\* decisions are confirmed meanwhile (Aria.run).  After an answer of the model
\* that says "**Refusal:**" (agent.py:180), or mentions a merge where a boundary
\* stands, there may be none.
ExplicitDrafts ==
    \A r \in Requests :
        /\ run[r].phase = "answered"
        /\ run[r].message.explicit /\ ~run[r].message.merges
        /\ run[r].answer = "plain"
        => run[r].shown # {}

\* Every proposal a run stored is among its events: only a tool loop that
\* raised leaves proposals behind that its client is not told of.
DraftsReported ==
    \A r \in Requests :
        run[r].phase = "answered" =>
            run[r].stored \ run[r].shown \subseteq
                IF run[r].degraded THEN {"model"} ELSE {}

\* The model is shown the question it is to answer, unless as many other turns
\* of the session are as recent as its history has room for (recent_turns).
QuestionHeard ==
    \A r \in Requests :
        run[r].history = "missed" =>
            \E q \in TurnsOf(r) :
                /\ Asks(q, r)
                /\ Cardinality({t \in TurnsOf(r) \ {q} : t.at >= q.at}) >= HistoryLimit

\* No window of a day holds more turns than the quota allows (limited).
QuotaHeld ==
    \A t \in 0..MaxClock :
        Cardinality({q \in quota : q.at \in t..(t + Window)}) <= MaxTurns

\* An accepted question ends: answered, with an error, or with its client or
\* its server gone; and its thread ends, waited for or not.
QuestionsEnd ==
    \A r \in Requests :
        run[r].phase = "accepted" ~> run[r].phase \in Ended /\ run[r].thread # "running"
=============================================================================
