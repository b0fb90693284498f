--------------------------- MODULE PairingProofs ---------------------------
(***************************************************************************)
(* Proofs about PluginCalls and Pairing, for any codes, helper processes,  *)
(* lifetimes and numbers of server stops.  What a hook stores is proved on *)
(* either database; that a code is spent once is for the serialised one,   *)
(* where nobody selects a code while another exchange has it selected.     *)
(***************************************************************************)
EXTENDS PluginCalls, TLAPS

USE CallersAssumption, TimeAssumption, KindsAssumption

\* A request that may still reach the hook's handler has stored nothing.
LoginSteps == {"exchange", "selected", "token", "demo", "paired", "refused", "tokenless"}
Unstored(c) == events[c] = 0 /\ drafts[c] = 0

HookOf(c) ==
    /\ process[c] = "new" => handler[c] = "idle" /\ tokens[c] = "none"
    /\ process[c] = "logging in" => handler[c] \in LoginSteps \union {"error"}
    /\ process[c] \in {"new", "logging in"} => Unstored(c)
    /\ handler[c] \in {"auth", "event", "unauthorized"} \union LoginSteps => Unstored(c)
    /\ handler[c] = "draft" => events[c] = 1 /\ drafts[c] = 0
    /\ events[c] \in {0, 1} /\ drafts[c] \in {0, 1}
    /\ drafts[c] = 1 => events[c] = 1
    /\ handler[c] \in {"exchange", "selected", "token"} => presented[c] \in Codes
    /\ tokens[c] # "none" => presented[c] \in Codes

HookInv == \A c \in Callers : HookOf(c)

-----------------------------------------------------------------------------
(* Whose step it is *)

\* The steps of one process and of the server for it.
Moves(c) ==
    \/ Works(c) \/ Serves(c)
    \/ \E k \in Codes \union {NoCode} : Start(c, k)
    \/ Revoke(c) /\ UNCHANGED processVars

Still(c) ==
    /\ process'[c] = process[c] /\ handler'[c] = handler[c] /\ presented'[c] = presented[c]
    /\ tokens'[c] = tokens[c] /\ events'[c] = events[c] /\ drafts'[c] = drafts[c]

\* A process moves alone, and every variable keeps its shape.
LEMMA OneMoves ==
    ASSUME TypeOK, NEW c \in Callers, Moves(c)
    PROVE  \A d \in Callers \ {c} : Still(d)
<1> USE DEF TypeOK, PairTypeOK, CallTypeOK, Still, Handles, Turns, pairVars, processVars
<1>1. CASE Works(c)
  BY <1>1 DEF Works, TakeAnswer, LoginFails, SaveToken, GiveUp
<1>2. CASE Serves(c)
  BY <1>2 DEF Serves, SelectCode, ConsumeSelected, CreateToken, Demo, Authorise, StoreEvent,
     DraftProposal, HandlerFails
<1>3. CASE \E k \in Codes \union {NoCode} : Start(c, k)
  BY <1>3 DEF Start
<1>4. CASE Revoke(c) /\ UNCHANGED processVars
  BY <1>4 DEF Revoke
<1>5. QED BY <1>1, <1>2, <1>3, <1>4 DEF Moves

\* A step is one process's, or the browser's, the clock's or the server's own.
LEMMA WhoMoves ==
    ASSUME TypeOK, [Next]_callVars
    PROVE  \/ \E c \in Callers : Moves(c) /\ \A d \in Callers \ {c} : Still(d)
           \/ (\E k \in Codes : StartPairing(k)) /\ \A d \in Callers : Still(d)
           \/ UNCHANGED codes /\ \A d \in Callers : Still(d)
           \/ Crash
<1> USE DEF Still, pairVars, processVars
<1>1. CASE \E c \in Callers : Moves(c)
  BY <1>1, OneMoves
<1>2. CASE (\E k \in Codes : StartPairing(k)) /\ UNCHANGED processVars
  BY <1>2 DEF StartPairing
<1>3. CASE Tick /\ UNCHANGED processVars
  BY <1>3 DEF Tick
<1>4. CASE UNCHANGED callVars
  BY <1>4 DEF callVars
<1>5. QED BY <1>1, <1>2, <1>3, <1>4 DEF Next, Moves

-----------------------------------------------------------------------------
(* Types, and what a hook stores *)

\* A statement that stores a row stores one.
LEMMA OneRow ==
    ASSUME TypeOK, NEW c \in Callers
    PROVE  /\ StoreEvent(c) /\ events[c] = 0 => events'[c] = 1
           /\ DraftProposal(c) /\ drafts[c] = 0 => drafts'[c] = 1
BY DEF TypeOK, CallTypeOK, StoreEvent, DraftProposal

\* login exchanges the code of the environment, if there is one.
LEMMA LoginKinds ==
    ASSUME TypeOK, NEW c \in Callers
    PROVE  \/ LoginRequest(presented[c]) = "demo"
           \/ LoginRequest(presented[c]) = "exchange" /\ presented[c] \in Codes
BY DEF TypeOK, PairTypeOK, LoginRequest

\* Every step of a process and its handler keeps what it has stored in step
\* with where it is.
LEMMA HookMoves ==
    ASSUME TypeOK, HookInv, NEW c \in Callers, Moves(c)
    PROVE  HookOf(c)'
<1> USE DEF TypeOK, PairTypeOK, CallTypeOK, HookInv, HookOf, Unstored, LoginSteps, Handles, Turns,
            pairVars, processVars
<1>1. CASE TakeAnswer(c)
  <2>1. process[c] = "calling" /\ UNCHANGED <<presented, tokens, events, drafts>>
    BY <1>1 DEF TakeAnswer
  <2>2. CASE handler[c] = "unauthorized" /\ ~retried[c]
    <3>1. process'[c] = "logging in" /\ handler'[c] = LoginRequest(presented[c])
      BY <1>1, <2>2 DEF TakeAnswer
    <3>2. Unstored(c)
      BY <2>2
    <3>3. CASE LoginRequest(presented[c]) = "demo"
      BY <2>1, <3>1, <3>2, <3>3
    <3>4. CASE LoginRequest(presented[c]) = "exchange" /\ presented[c] \in Codes
      BY <2>1, <3>1, <3>2, <3>4
    <3>5. QED BY <3>3, <3>4, LoginKinds
  <2>3. CASE ~(handler[c] = "unauthorized" /\ ~retried[c])
    <3>1. process'[c] \in {"done", "failed"} /\ handler'[c] = "idle"
      BY <1>1, <2>3 DEF TakeAnswer
    <3>2. QED BY <2>1, <3>1
  <2>4. QED BY <2>2, <2>3
<1>2. CASE LoginFails(c) \/ GiveUp(c)
  BY <1>2 DEF LoginFails, GiveUp, Waiting
<1>3. CASE SaveToken(c)
  BY <1>3 DEF SaveToken
<1>4. CASE (SelectCode(c) \/ ConsumeSelected(c) \/ Demo(c)) /\ UNCHANGED processVars
  BY <1>4 DEF SelectCode, ConsumeSelected, Demo
<1>5. CASE CreateToken(c) /\ UNCHANGED processVars
  BY <1>5 DEF CreateToken
<1>6. CASE Authorise(c) \/ HandlerFails(c)
  BY <1>6 DEF Authorise, HandlerFails, Handling
<1>7. CASE StoreEvent(c)
  <2>1. handler[c] = "event" /\ handler'[c] \in {"draft", "ok"}
        /\ UNCHANGED <<presented, tokens, process, drafts>>
    BY <1>7 DEF StoreEvent
  <2>2. /\ process[c] \notin {"new", "logging in"} /\ events[c] = 0 /\ drafts[c] = 0
        /\ tokens[c] # "none" => presented[c] \in Codes
    BY <2>1
  <2>3. events'[c] = 1
    <3> HIDE DEF TypeOK, HookOf, HookInv
    <3>1. QED BY <1>7, <2>2, OneRow
  <2>4. QED BY <2>1, <2>2, <2>3
<1>8. CASE DraftProposal(c)
  <2>1. handler[c] = "draft" /\ handler'[c] = "ok"
        /\ UNCHANGED <<presented, tokens, process, events>>
    BY <1>8 DEF DraftProposal
  <2>2. process[c] \notin {"new", "logging in"} /\ events[c] = 1 /\ drafts[c] = 0
    BY <2>1
  <2>3. drafts'[c] = 1
    <3> HIDE DEF TypeOK, HookOf, HookInv
    <3>1. QED BY <1>8, <2>2, OneRow
  <2>4. QED BY <2>1, <2>2, <2>3
<1>9. ASSUME NEW k \in Codes \union {NoCode}, Start(c, k) PROVE HookOf(c)'
  <2>1. process[c] = "new" /\ presented'[c] = k /\ UNCHANGED <<tokens, events, drafts>>
    BY <1>9 DEF Start
  <2>2. \/ process'[c] = "calling" /\ handler'[c] = "auth"
        \/ k \in Codes /\ process'[c] = "logging in" /\ handler'[c] = "exchange"
    BY <1>9 DEF Start, LoginRequest
  <2>3. QED BY <2>1, <2>2
<1>10. CASE Revoke(c) /\ UNCHANGED processVars
  BY <1>10 DEF Revoke
<1>11. QED
  BY <1>1, <1>2, <1>3, <1>4, <1>5, <1>6, <1>7, <1>8, <1>9, <1>10 DEF Moves, Works, Serves

\* Every step keeps them so, for every hook.
LEMMA HookStep ==
    ASSUME TypeOK, HookInv, [Next]_callVars
    PROVE  HookInv'
<1> SUFFICES ASSUME NEW c \in Callers PROVE HookOf(c)'
  BY DEF HookInv
<1>1. CASE Still(c)
  BY <1>1 DEF Still, HookInv, HookOf, Unstored
<1>2. CASE Crash
  <2>1. handler'[c] \in {"error", "idle"} /\ (handler[c] = "idle" => handler'[c] = "idle")
    BY <1>2 DEF Crash, TypeOK, PairTypeOK, Handling, Answers
  <2>2. UNCHANGED <<process, presented, tokens, events, drafts>>
    BY <1>2 DEF Crash
  <2>3. handler[c] = "idle" => process[c] # "logging in"
    BY DEF HookInv, HookOf, LoginSteps
  <2>4. handler'[c] = "error" \/ process[c] # "logging in"
    BY <2>3, <1>2 DEF Crash, HookInv, HookOf, LoginSteps, Handling, Answers
  <2>5. QED BY <2>1, <2>2, <2>4 DEF HookInv, HookOf, Unstored, LoginSteps
<1>3. CASE Moves(c)
  BY <1>3, HookMoves
<1>4. QED BY <1>1, <1>2, <1>3, WhoMoves

\* The serving steps keep the types of the tables.
LEMMA PairTypes ==
    ASSUME TypeOK, NEW c \in Callers,
           SelectCode(c) \/ ConsumeSelected(c) \/ CreateToken(c) \/ Demo(c) \/ Revoke(c)
    PROVE  PairTypeOK'
<1> USE DEF TypeOK, PairTypeOK, Handling, Answers, Handles
<1>1. CASE SelectCode(c)
  BY <1>1 DEF SelectCode
<1>2. CASE ConsumeSelected(c)
  BY <1>2 DEF ConsumeSelected, Code
<1>3. CASE CreateToken(c) \/ Demo(c) \/ Revoke(c)
  BY <1>3 DEF CreateToken, Demo, Revoke
<1>4. QED BY <1>1, <1>2, <1>3

\* Every step keeps the types.
LEMMA TypeStep ==
    ASSUME TypeOK, HookInv, [Next]_callVars
    PROVE  TypeOK'
<1>1. ASSUME NEW c \in Callers,
             SelectCode(c) \/ ConsumeSelected(c) \/ CreateToken(c) \/ Demo(c) \/ Revoke(c),
             UNCHANGED processVars
      PROVE  TypeOK'
  BY <1>1, PairTypes DEF TypeOK, CallTypeOK, processVars
<1>2. ASSUME NEW c \in Callers, Authorise(c) \/ HandlerFails(c) PROVE TypeOK'
  BY <1>2 DEF Authorise, HandlerFails, TypeOK, PairTypeOK, CallTypeOK, processVars, Handles, Handling, Answers
<1>3. ASSUME NEW c \in Callers, StoreEvent(c) \/ DraftProposal(c) PROVE TypeOK'
  <2>1. events' \in [Callers -> 0..2] /\ drafts' \in [Callers -> 0..2]
    <3>1. CASE StoreEvent(c)
      <4>1. events[c] = 0
        BY <3>1 DEF StoreEvent, HookInv, HookOf, Unstored
      <4>2. QED BY <3>1, <4>1 DEF StoreEvent, TypeOK, CallTypeOK
    <3>2. CASE DraftProposal(c)
      <4>1. drafts[c] = 0
        BY <3>2 DEF DraftProposal, HookInv, HookOf
      <4>2. QED BY <3>2, <4>1 DEF DraftProposal, TypeOK, CallTypeOK
    <3>3. QED BY <1>3, <3>1, <3>2
  <2>2. QED
    BY <1>3, <2>1 DEF StoreEvent, DraftProposal, TypeOK, PairTypeOK, CallTypeOK, Handles, Handling, Answers
<1>4. ASSUME NEW c \in Callers, Works(c) PROVE TypeOK'
  <2> USE DEF TypeOK, PairTypeOK, CallTypeOK, Handles, Turns, Handling, Answers, Waiting, Over, pairVars
  <2>1. CASE TakeAnswer(c)
    BY <2>1, LoginKinds DEF TakeAnswer
  <2>2. CASE LoginFails(c) \/ GiveUp(c)
    BY <2>2 DEF LoginFails, GiveUp
  <2>3. CASE SaveToken(c)
    BY <2>3 DEF SaveToken
  <2>4. QED BY <1>4, <2>1, <2>2, <2>3 DEF Works
<1>5. ASSUME NEW c \in Callers, NEW k \in Codes \union {NoCode}, Start(c, k) PROVE TypeOK'
  BY <1>5 DEF Start, LoginRequest, TypeOK, PairTypeOK, CallTypeOK, Handles, Turns, Handling, Waiting, Over
<1>6. ASSUME NEW k \in Codes, StartPairing(k), UNCHANGED processVars PROVE TypeOK'
  BY <1>6 DEF StartPairing, TypeOK, PairTypeOK, CallTypeOK, processVars, Code
<1>7. CASE Tick /\ UNCHANGED processVars
  BY <1>7 DEF Tick, TypeOK, PairTypeOK, CallTypeOK, processVars
<1>8. CASE Crash
  BY <1>8 DEF Crash, TypeOK, PairTypeOK, CallTypeOK, Handling, Answers
<1>9. CASE UNCHANGED callVars
  BY <1>9 DEF callVars, pairVars, processVars, TypeOK, PairTypeOK, CallTypeOK
<1>10. QED
  BY <1>1, <1>2, <1>3, <1>4, <1>5, <1>6, <1>7, <1>8, <1>9 DEF Next, Serves

\* Types and what the hooks have stored, on either database.
LEMMA HookInvariant == Spec => [](TypeOK /\ HookInv)
<1>1. Init => TypeOK /\ HookInv
  BY DEF Init, PairInit, TypeOK, PairTypeOK, CallTypeOK, Code, HookInv, HookOf, Unstored, LoginSteps
<1>2. TypeOK /\ HookInv /\ [Next]_callVars => TypeOK' /\ HookInv'
  BY TypeStep, HookStep
<1>3. QED BY <1>1, <1>2, PTL DEF Spec

\* Rows, handlers and processes keep their types (client.py, app.py).
THEOREM TypeCorrect == Spec => []TypeOK
BY HookInvariant, PTL

\* A hook is recorded at most once and drafts at most one proposal, whatever
\* was retried, lost or restarted: a call is repeated only when it was turned
\* away before its handler ran (client.py: request; hook.py).
THEOREM HookStored == Spec => []HookStoredOnce
<1>1. HookInv => HookStoredOnce
  <2> SUFFICES ASSUME HookInv, NEW c \in Callers
               PROVE  drafts[c] <= events[c] /\ events[c] <= 1
    BY DEF HookStoredOnce
  <2>1. events[c] \in {0, 1} /\ drafts[c] \in {0, 1} /\ (drafts[c] = 1 => events[c] = 1)
    BY DEF HookInv, HookOf
  <2>2. QED BY <2>1
<1>2. QED BY <1>1, HookInvariant, PTL

-----------------------------------------------------------------------------
(* One token for a code, on SQLite *)

\* An exchange that has spent its code: about to create the token, or past it.
Spent(c) == handler[c] = "token" \/ tokens[c] # "none"

\* At most one exchange has a code selected, a selected code is live, a spent
\* one is not, and nobody else has spent it.
CodeInv ==
    /\ \A c \in Callers :
          /\ handler[c] = "selected" => codes[presented[c]].row = "live"
          /\ Spent(c) => codes[presented[c]].row \in {"consumed", "deleted"}
    /\ \A c, d \in Callers : handler[c] = "selected" /\ handler[d] = "selected" => c = d
    /\ \A c, d \in Callers : Spent(c) /\ Spent(d) /\ presented[c] = presented[d] => c = d

\* c neither selects nor spends a code.
Quiet(c) ==
    /\ handler'[c] = "selected" => handler[c] = "selected" /\ presented'[c] = presented[c]
    /\ handler'[c] = "token" \/ tokens'[c] # "none" => Spent(c) /\ presented'[c] = presented[c]

\* Only the two halves of consume_pair_code are not quiet.
LEMMA QuietMoves ==
    ASSUME TypeOK, HookInv, NEW c \in Callers, Moves(c), ~SelectCode(c), ~ConsumeSelected(c)
    PROVE  UNCHANGED codes /\ Quiet(c)
<1> USE DEF TypeOK, PairTypeOK, CallTypeOK, Quiet, Spent, Handles, pairVars
<1>1. CASE TakeAnswer(c)
  BY <1>1, LoginKinds DEF TakeAnswer
<1>2. CASE LoginFails(c) \/ SaveToken(c) \/ GiveUp(c)
  BY <1>2 DEF LoginFails, SaveToken, GiveUp
<1>3. CASE CreateToken(c) \/ Demo(c) \/ Revoke(c)
  BY <1>3 DEF CreateToken, Demo, Revoke
<1>4. CASE Authorise(c) \/ StoreEvent(c) \/ DraftProposal(c) \/ HandlerFails(c)
  BY <1>4 DEF Authorise, StoreEvent, DraftProposal, HandlerFails
<1>5. ASSUME NEW k \in Codes \union {NoCode}, Start(c, k) PROVE UNCHANGED codes /\ Quiet(c)
  <2>1. UNCHANGED <<codes, tokens>> /\ handler'[c] \in {"auth", "demo", "exchange"}
    BY <1>5 DEF Start, LoginRequest
  <2>2. tokens[c] = "none"
    BY <1>5 DEF Start, HookInv, HookOf
  <2>3. QED BY <2>1, <2>2
<1>6. QED BY <1>1, <1>2, <1>3, <1>4, <1>5 DEF Moves, Works, Serves

\* Quiet steps keep what is known of the codes.
LEMMA QuietStep ==
    ASSUME CodeInv, UNCHANGED codes, \A c \in Callers : Quiet(c)
    PROVE  CodeInv'
BY DEF CodeInv, Quiet, Spent

\* The SELECT of an exchange finds a live code that nobody else has selected or spent.
LEMMA SelectStep ==
    ASSUME Serialised, TypeOK, CodeInv, NEW c \in Callers, SelectCode(c),
           \A d \in Callers \ {c} : Still(d)
    PROVE  CodeInv'
<1>1. /\ handler[c] = "exchange" /\ UNCHANGED <<codes, tokens, presented>>
      /\ \A d \in Callers : handler[d] # "selected"
  BY DEF SelectCode, CanBegin
<1>2. \A d \in Callers : Spent(d)' <=> Spent(d)
  BY <1>1 DEF SelectCode, Handles, Spent, Still, TypeOK, PairTypeOK
<1>3. \A d \in Callers : handler'[d] = "selected" =>
          d = c /\ codes[presented[c]].row = "live"
  BY <1>1 DEF SelectCode, Exchangeable, Handles, Still, TypeOK, PairTypeOK
<1>4. QED BY <1>1, <1>2, <1>3 DEF CodeInv

\* The UPDATE spends the code that was selected, which nobody else has spent.
LEMMA ConsumeStep ==
    ASSUME TypeOK, HookInv, CodeInv, NEW c \in Callers, ConsumeSelected(c),
           \A d \in Callers \ {c} : Still(d)
    PROVE  CodeInv'
<1>1. /\ handler[c] = "selected" /\ handler'[c] = "token" /\ UNCHANGED <<tokens, presented>>
      /\ presented[c] \in Codes
  BY DEF ConsumeSelected, Handles, TypeOK, PairTypeOK, HookInv, HookOf
<1>2. /\ codes'[presented[c]].row = "consumed"
      /\ \A k \in Codes \ {presented[c]} : codes'[k] = codes[k]
  BY <1>1 DEF ConsumeSelected, CodeInv, TypeOK, PairTypeOK, Code
<1>3. \A d \in Callers \ {c} : handler'[d] = handler[d] /\ handler[d] # "selected"
  BY <1>1 DEF Still, CodeInv
<1>4. \A d \in Callers \ {c} : Spent(d) => presented[d] \in Codes \ {presented[c]}
  BY <1>1 DEF Spent, CodeInv, HookInv, HookOf
<1>5. \A d \in Callers \ {c} : Spent(d)' => Spent(d)
  BY <1>1, <1>3 DEF Spent
<1>6. QED BY <1>1, <1>2, <1>3, <1>4, <1>5 DEF CodeInv

\* create_pair_code deletes no code that is selected, and reuses none.
LEMMA PairStep ==
    ASSUME Serialised, TypeOK, HookInv, CodeInv, NEW k \in Codes, StartPairing(k)
    PROVE  CodeInv'
<1>1. /\ UNCHANGED <<tokens, handler, presented>> /\ codes[k].row = "never"
      /\ \A d \in Callers : handler[d] # "selected"
  BY DEF StartPairing, CanBegin
<1>2. \A j \in Codes : codes[j].row \in {"consumed", "deleted"} =>
          codes'[j].row \in {"consumed", "deleted"}
  BY <1>1 DEF StartPairing, TypeOK, PairTypeOK, Code
<1>3. \A d \in Callers : Spent(d) => presented[d] \in Codes
  BY DEF Spent, HookInv, HookOf
<1>4. QED BY <1>1, <1>2, <1>3 DEF CodeInv, Spent

\* Every step keeps what is known of the codes.
LEMMA CodeStep ==
    ASSUME Serialised, TypeOK, HookInv, CodeInv, [Next]_callVars
    PROVE  CodeInv'
<1>1. \A d \in Callers : Still(d) => Quiet(d)
  BY DEF Still, Quiet, Spent
<1>2. ASSUME NEW c \in Callers, Moves(c), \A d \in Callers \ {c} : Still(d)
      PROVE  CodeInv'
  BY <1>1, <1>2, SelectStep, ConsumeStep, QuietMoves, QuietStep
<1>3. CASE UNCHANGED codes /\ \A d \in Callers : Still(d)
  BY <1>1, <1>3, QuietStep
<1>4. CASE Crash
  BY <1>4, QuietStep DEF Crash, Quiet, Spent
<1>5. QED BY <1>2, <1>3, <1>4, PairStep, WhoMoves

\* On SQLite a code makes at most one token, for any number of exchanges that
\* overlap: the row is looked for and consumed under one lock (store.py:
\* consume_pair_code; security-privacy.md, "single successful exchange").
THEOREM CodeSpentOnce == ASSUME Serialised PROVE Spec => []OneTokenPerCode
<1>1. Init => CodeInv
  BY DEF Init, PairInit, CodeInv, Spent
<1>2. TypeOK /\ HookInv /\ CodeInv /\ [Next]_callVars => CodeInv'
  BY CodeStep
<1>3. CodeInv => OneTokenPerCode
  BY DEF CodeInv, Spent, OneTokenPerCode
<1>4. QED BY <1>1, <1>2, <1>3, HookInvariant, PTL DEF Spec
=============================================================================
