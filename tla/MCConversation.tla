--------------------------- MODULE MCConversation ---------------------------
(***************************************************************************)
(* Two questions of one session, with a day of one tick.                   *)
(***************************************************************************)
EXTENDS Conversation, TLC

CONSTANTS q1, q2, s1

MCSessionOf == q1 :> s1 @@ q2 :> s1

\* "save this to memory" and "propose a decision to merge".
MCMessages ==
    {[explicit |-> TRUE, drafts |-> FALSE, merges |-> FALSE],
     [explicit |-> TRUE, drafts |-> TRUE, merges |-> TRUE]}
=============================================================================
