------------------------------ MODULE Pairing ------------------------------
(***************************************************************************)
(* Pair codes and workspace tokens of one browser workspace: the tables    *)
(* pair_codes and workspace_tokens, and the handlers of app.py that write  *)
(* them.  An exchange is identified by its caller, and so is its token: a  *)
(* helper process exchanges a code at most once.                           *)
(*                                                                         *)
(* finish_pair spends the code in one transaction and creates the token in *)
(* another.  Serialised says that the transactions of one database exclude *)
(* each other (BEGIN IMMEDIATE on SQLite); on Postgres, READ COMMITTED,    *)
(* others run between the check of a code and its update.                  *)
(***************************************************************************)
EXTENDS Naturals

CONSTANTS
    Codes,          \* codes create_pair_code may hand out
    Callers,        \* helper processes of the plugin
    NoCode,         \* no code in the environment
    NoToken,        \* no token, and a file that does not exist
    Serialised,
    Life,           \* a code lives five minutes, in ticks
    MaxClock        \* bound: ticks that pass

ASSUME CallersAssumption == NoToken \notin Callers /\ NoCode \notin Codes
ASSUME TimeAssumption == Life \in Nat /\ MaxClock \in Nat /\ Serialised \in BOOLEAN

VARIABLES
    codes,      \* Codes -> the row of pair_codes
    tokens,     \* Callers -> the row of workspace_tokens their exchange made
    handler,    \* Callers -> where the server is with the caller's request
    presented,  \* Callers -> the code of the caller's environment
    clock

pairVars == <<codes, tokens, handler, presented, clock>>

\* A row of pair_codes, from before it is inserted to after it is deleted.
Code == [row : {"never", "live", "consumed", "deleted"}, expires : 0..(MaxClock + Life)]

\* idle: no request is being handled; answers stay until the caller takes them.
Handling == {"auth", "event", "draft", "exchange", "selected", "token", "demo"}
Answers == {"ok", "unauthorized", "paired", "refused", "tokenless", "error"}

PairTypeOK ==
    /\ codes \in [Codes -> Code]
    /\ tokens \in [Callers -> {"none", "active", "revoked"}]
    /\ handler \in [Callers -> {"idle"} \union Handling \union Answers]
    /\ presented \in [Callers -> Codes \union {NoCode}]
    /\ clock \in 0..MaxClock

PairInit ==
    /\ codes = [k \in Codes |-> [row |-> "never", expires |-> 0]]
    /\ tokens = [c \in Callers |-> "none"]
    /\ handler = [c \in Callers |-> "idle"]
    /\ presented = [c \in Callers |-> NoCode]
    /\ clock = 0

Handles(c, next) == handler' = [handler EXCEPT ![c] = next]

\* transaction(): on SQLite it waits for the exchange that holds the lock.
CanBegin == Serialised => \A c \in Callers : handler[c] # "selected"

-----------------------------------------------------------------------------
(* The browser.                                                            *)

\* create_pair_code: drops the codes that are of no use, inserts a new one.
Dropped(k) == codes[k].row = "consumed" \/ (codes[k].row = "live" /\ codes[k].expires <= clock)

\* A mutation: the lifetime counts from the next tick on.
StartLater(k) ==
    /\ codes[k].row = "never"
    /\ codes' = [codes EXCEPT ![k] = [row |-> "live", expires |-> clock + Life + 1]]
    /\ UNCHANGED <<tokens, handler, presented, clock>>

StartPairing(k) ==
    /\ codes[k].row = "never" /\ CanBegin
    /\ codes' = [j \in Codes |->
                   IF j = k THEN [row |-> "live", expires |-> clock + Life]
                   ELSE IF Dropped(j) THEN [codes[j] EXCEPT !.row = "deleted"]
                   ELSE codes[j]]
    /\ UNCHANGED <<tokens, handler, presented, clock>>

\* revoke_token, with the token or with the workspace's cookie.
Revoke(c) ==
    /\ tokens[c] = "active" /\ CanBegin
    /\ tokens' = [tokens EXCEPT ![c] = "revoked"]
    /\ UNCHANGED <<codes, handler, presented, clock>>

-----------------------------------------------------------------------------
(* finish_pair.                                                            *)

Exchangeable(k) == codes[k].row = "live" /\ codes[k].expires > clock

\* consume_pair_code begins its transaction and looks for the code.
SelectCode(c) ==
    /\ handler[c] = "exchange" /\ CanBegin
    /\ Handles(c, IF Exchangeable(presented[c]) THEN "selected" ELSE "refused")
    /\ UNCHANGED <<codes, tokens, presented, clock>>

\* A mutation: the update is left out.
NeverConsume(c) ==
    /\ handler[c] = "selected"
    /\ Handles(c, "token")
    /\ UNCHANGED <<codes, tokens, presented, clock>>

\* It marks the row and commits; a row deleted meanwhile stays deleted.
ConsumeSelected(c) ==
    /\ handler[c] = "selected"
    /\ codes' = [codes EXCEPT ![presented[c]].row = IF @ = "deleted" THEN @ ELSE "consumed"]
    /\ Handles(c, "token")
    /\ UNCHANGED <<tokens, presented, clock>>

\* create_workspace_token.
CreateToken(c) ==
    /\ handler[c] = "token" /\ CanBegin
    /\ tokens' = [tokens EXCEPT ![c] = "active"]
    /\ Handles(c, "paired")
    /\ UNCHANGED <<codes, presented, clock>>

\* auth_demo makes a new workspace and answers with a cookie, not a token.
Demo(c) ==
    /\ handler[c] = "demo"
    /\ Handles(c, "tokenless")
    /\ UNCHANGED <<codes, tokens, presented, clock>>

Tick ==
    /\ clock < MaxClock
    /\ clock' = clock + 1
    /\ UNCHANGED <<codes, tokens, handler, presented>>

-----------------------------------------------------------------------------
(* What pairing must keep.                                                 *)

\* A code makes at most one token, however many exchanges of it overlap ("Its
\* single successful exchange", security-privacy.md:26; consume_pair_code).
OneTokenPerCode ==
    \A c, d \in Callers :
        /\ tokens[c] # "none" /\ tokens[d] # "none"
        /\ presented[c] = presented[d]
        => c = d
=============================================================================
