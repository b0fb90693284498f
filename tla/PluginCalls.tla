---------------------------- MODULE PluginCalls ----------------------------
(***************************************************************************)
(* The helper processes of the Codex plugin against the server: client.py  *)
(* with its login and its one retry, pair.py, and the hooks that record an *)
(* event and, for Stop, a proposal (hook.py, AppStore.record_hook).        *)
(*                                                                         *)
(* A process waits 30 seconds for an answer and then dies; the handler it  *)
(* waited for goes on.  All processes share the token file.                *)
(***************************************************************************)
EXTENDS Pairing

CONSTANTS
    Kinds,          \* what a process is: pair.py, or a hook that may draft
    MaxCrashes      \* bound: stops of the server

ASSUME KindsAssumption == Kinds \subseteq {"pair", "stop"} /\ MaxCrashes \in Nat

VARIABLES
    kind,       \* Callers -> Kinds
    process,    \* Callers -> the state of the process
    token,      \* Callers -> self.token
    file,       \* the token file
    retried,    \* Callers -> the request was sent again after a login
    events,     \* Callers -> rows of hook_events their requests stored
    drafts,     \* Callers -> proposals their requests stored
    crashes

processVars == <<kind, process, token, file, retried, events, drafts, crashes>>
callVars == <<pairVars, processVars>>

Waiting == {"calling", "logging in"}
Over == {"done", "failed"}

CallTypeOK ==
    /\ kind \in [Callers -> Kinds]
    /\ process \in [Callers -> {"new"} \union Waiting \union Over]
    /\ token \in [Callers -> Callers \union {NoToken}]
    /\ file \in Callers \union {NoToken}
    /\ retried \in [Callers -> BOOLEAN]
    /\ events \in [Callers -> 0..2] /\ drafts \in [Callers -> 0..2]
    /\ crashes \in 0..MaxCrashes

\* Rows, handlers and processes have their types.
TypeOK == PairTypeOK /\ CallTypeOK

Init ==
    /\ PairInit
    /\ kind \in [Callers -> Kinds]
    /\ process = [c \in Callers |-> "new"]
    /\ token = [c \in Callers |-> NoToken]
    /\ file = NoToken
    /\ retried = [c \in Callers |-> FALSE]
    /\ events = [c \in Callers |-> 0] /\ drafts = [c \in Callers |-> 0]
    /\ crashes = 0

Turns(c, next) == process' = [process EXCEPT ![c] = next]

-----------------------------------------------------------------------------
(* client.py and the scripts.                                              *)

\* login: by the code of the environment, else by the demo code.
LoginRequest(k) == IF k = NoCode THEN "demo" ELSE "exchange"

\* CommandCenterClient reads the token file; pair.py logs in, the hooks call.
Start(c, k) ==
    /\ process[c] = "new" /\ handler[c] = "idle"
    /\ k # NoCode => codes[k].row # "never"
    /\ kind[c] = "pair" => k # NoCode
    /\ presented' = [presented EXCEPT ![c] = k]
    /\ token' = [token EXCEPT ![c] = file]
    /\ Turns(c, IF kind[c] = "pair" THEN "logging in" ELSE "calling")
    /\ Handles(c, IF kind[c] = "pair" THEN LoginRequest(k) ELSE "auth")
    /\ UNCHANGED <<codes, tokens, clock, kind, file, retried, events, drafts, crashes>>

\* A mutation: whatever the server refuses is sent again.
TakeAnyAnswer(c) ==
    /\ process[c] = "calling" /\ handler[c] \in Answers
    /\ IF handler[c] # "ok" /\ ~retried[c]
       THEN /\ UNCHANGED process
            /\ Handles(c, "auth") /\ retried' = [retried EXCEPT ![c] = TRUE]
       ELSE /\ Turns(c, IF handler[c] = "ok" THEN "done" ELSE "failed")
            /\ Handles(c, "idle") /\ UNCHANGED retried
    /\ UNCHANGED <<codes, tokens, presented, clock>>
    /\ UNCHANGED <<kind, token, file, events, drafts, crashes>>

\* A 401 is answered by a login, once; any other failure is raised.
TakeAnswer(c) ==
    /\ process[c] = "calling" /\ handler[c] \in Answers
    /\ IF handler[c] = "unauthorized" /\ ~retried[c]
       THEN Turns(c, "logging in") /\ Handles(c, LoginRequest(presented[c]))
       ELSE /\ Turns(c, IF handler[c] = "ok" THEN "done" ELSE "failed")
            /\ Handles(c, "idle")
    /\ UNCHANGED <<codes, tokens, presented, clock>>
    /\ UNCHANGED <<kind, token, file, retried, events, drafts, crashes>>

\* A mutation: a login that is refused is tried again.
TakeLoginAgain(c) ==
    /\ process[c] = "logging in" /\ handler[c] \in Answers \ {"paired"}
    /\ Handles(c, LoginRequest(presented[c]))
    /\ UNCHANGED <<codes, tokens, presented, clock, processVars>>

\* login raises when it is refused, and when no token comes back.
LoginFails(c) ==
    /\ process[c] = "logging in" /\ handler[c] \in Answers \ {"paired"}
    /\ Turns(c, "failed") /\ Handles(c, "idle")
    /\ UNCHANGED <<codes, tokens, presented, clock>>
    /\ UNCHANGED <<kind, token, file, retried, events, drafts, crashes>>

\* login saves the token; request sends the call once more.
SaveToken(c) ==
    /\ process[c] = "logging in" /\ handler[c] = "paired"
    /\ file' = c
    /\ token' = [token EXCEPT ![c] = c]
    /\ IF kind[c] = "pair"
       THEN Turns(c, "done") /\ Handles(c, "idle") /\ UNCHANGED retried
       ELSE /\ Turns(c, "calling") /\ Handles(c, "auth")
            /\ retried' = [retried EXCEPT ![c] = TRUE]
    /\ UNCHANGED <<codes, tokens, presented, clock, kind, events, drafts, crashes>>

\* No answer in time, or the connection is lost.
GiveUp(c) ==
    /\ process[c] \in Waiting
    /\ Turns(c, "failed")
    /\ UNCHANGED <<pairVars, kind, token, file, retried, events, drafts, crashes>>

-----------------------------------------------------------------------------
(* POST /api/v1/hooks/events.                                              *)

\* current_workspace: the token's row exists and is not revoked.
Authorise(c) ==
    /\ handler[c] = "auth"
    /\ Handles(c, IF token[c] # NoToken /\ tokens[token[c]] = "active"
                  THEN "event" ELSE "unauthorized")
    /\ UNCHANGED <<codes, tokens, presented, clock, processVars>>

\* record_hook's first transaction; a Stop event may ask for a proposal.
StoreEvent(c) ==
    /\ handler[c] = "event" /\ CanBegin
    /\ events' = [events EXCEPT ![c] = @ + 1]
    /\ \E next \in {"draft", "ok"} : Handles(c, next)
    /\ UNCHANGED <<codes, tokens, presented, clock>>
    /\ UNCHANGED <<kind, process, token, file, retried, drafts, crashes>>

\* create_proposal, a transaction of its own.
DraftProposal(c) ==
    /\ handler[c] = "draft" /\ CanBegin
    /\ drafts' = [drafts EXCEPT ![c] = @ + 1]
    /\ Handles(c, "ok")
    /\ UNCHANGED <<codes, tokens, presented, clock>>
    /\ UNCHANGED <<kind, process, token, file, retried, events, crashes>>

\* A statement raises: the client is told of an error.
HandlerFails(c) ==
    /\ handler[c] \in Handling
    /\ Handles(c, "error")
    /\ UNCHANGED <<codes, tokens, presented, clock, processVars>>

\* The server stops: what it was handling is gone, and its clients are told.
Crash ==
    /\ crashes < MaxCrashes
    /\ crashes' = crashes + 1
    /\ handler' = [c \in Callers |->
                     IF handler[c] \in Handling \union Answers THEN "error" ELSE "idle"]
    /\ UNCHANGED <<codes, tokens, presented, clock>>
    /\ UNCHANGED <<kind, process, token, file, retried, events, drafts>>

\* The server's steps for the request of c.
Serves(c) ==
    \/ /\ SelectCode(c) \/ ConsumeSelected(c) \/ CreateToken(c) \/ Demo(c)
       /\ UNCHANGED processVars
    \/ Authorise(c) \/ StoreEvent(c) \/ DraftProposal(c) \/ HandlerFails(c)

Works(c) == TakeAnswer(c) \/ LoginFails(c) \/ SaveToken(c) \/ GiveUp(c)

Next ==
    \/ \E c \in Callers :
         \/ Works(c) \/ Serves(c)
         \/ \E k \in Codes \union {NoCode} : Start(c, k)
         \/ Revoke(c) /\ UNCHANGED processVars
    \/ (\E k \in Codes : StartPairing(k)) /\ UNCHANGED processVars
    \/ Tick /\ UNCHANGED processVars
    \/ Crash

\* A process waits 30 seconds at most, and a handler runs in a thread.
Fairness == \A c \in Callers : WF_callVars(Works(c)) /\ WF_callVars(Serves(c))

Spec == Init /\ [][Next]_callVars /\ Fairness

-----------------------------------------------------------------------------
(* What the calls must keep.                                               *)

\* A hook stores its event and drafts its proposal at most once, whatever was
\* retried, lost or restarted on the way: request repeats a call only when it
\* was turned away before its handler ran (client.py:72).  And a proposal has
\* the telemetry it was drafted from: a failure between the two transactions
\* loses the draft, never the event (record_hook).
HookStoredOnce == \A c \in Callers : drafts[c] <= events[c] /\ events[c] <= 1

\* A helper process ends, however the server answers, and so does its request.
CallsEnd ==
    \A c \in Callers : process[c] \in Waiting ~> process[c] \in Over /\ handler[c] \notin Handling
=============================================================================
