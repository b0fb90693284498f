--------------------------- MODULE HandoffBuilder ---------------------------
(***************************************************************************)
(* The handoff builder of the web page (Page and HandoffBuilder of         *)
(* page.tsx) against the server's handoffs.  An operation is one click or  *)
(* voice command with the requests it awaits; its buttons stay enabled, so *)
(* operations overlap.  Every request may fail before or after the server  *)
(* has done its part; meanwhile the user may edit the plan or leave.       *)
(*                                                                         *)
(* Handoffs are numbered in the order of their creation: the list answers  *)
(* the latest first, and its first draft becomes the active one.           *)
(***************************************************************************)
EXTENDS Naturals, FiniteSets, FiniteSetsExt

CONSTANTS
    Texts,          \* plans a user may type; the server refuses none of them
    Ops,            \* operations under way at once
    MaxHandoffs,    \* bound: handoffs prepared
    MaxOps          \* bound: operations started

\* The empty text is no plan: the server keeps the one it has.
Blank == 0

ASSUME BuilderAssumption ==
    /\ Blank \notin Texts /\ Texts # {}
    /\ MaxHandoffs \in Nat /\ MaxOps \in Nat

VARIABLES
    rows,       \* the server's handoffs
    listed,     \* handoffs, the list the page last set
    active,     \* activeHandoffId
    draft,      \* the handoff the builder shows, with the status and plan it knows
    text,       \* planText, the text area
    mounted,    \* the builder is on the page
    busy,       \* its button to prepare is disabled
    ops,        \* Ops -> the operation
    started,      \* operations started
    apart,      \* no two operations have overlapped
    faultless   \* no request has failed

builderVars == <<rows, listed, active, draft, text, mounted, busy, ops, started, apart,
                faultless>>
sight == <<listed, active, draft, text, mounted, busy>>

Ids == 1..MaxHandoffs
NoId == 0
Row == [status : {"none", "draft", "published"}, plan : Texts \union {Blank}]
NoRow == [status |-> "none", plan |-> Blank]
NoDraft == [id |-> NoId, status |-> "none", plan |-> Blank]
Rows == [Ids -> Row]

Kinds == {"prepare", "save", "publish", "voice", "refresh"}
\* Requests, and what the server has answered them.
Requests == {"create", "patch", "post", "list"}
Answered == {"created", "patched", "posted", "listed"}

\* at: the request or its answer; text: the plan typed at the click; saved:
\* the patch succeeded; posts: the publication is still to come; reply: the
\* rows as the server left them; shows: the builder of the click is still there.
Op == [kind : Kinds, at : {"idle"} \union Requests \union Answered, id : Ids \union {NoId},
       text : Texts \union {Blank}, saved : BOOLEAN, posts : BOOLEAN, reply : Rows,
       shows : BOOLEAN]

NoRows == [h \in Ids |-> NoRow]
Idle == [kind |-> "refresh", at |-> "idle", id |-> NoId, text |-> Blank, saved |-> FALSE,
         posts |-> FALSE, reply |-> NoRows, shows |-> FALSE]

BuilderTypeOK ==
    /\ rows \in Rows /\ listed \in Rows
    /\ active \in Ids \union {NoId}
    /\ draft \in [id : Ids \union {NoId}, status : {"none", "draft", "published"},
                  plan : Texts \union {Blank}]
    /\ text \in Texts \union {Blank}
    /\ mounted \in BOOLEAN /\ busy \in BOOLEAN
    /\ \A o \in Ops : ops[o] \in Op /\ (ops[o].shows => mounted)
    /\ started \in 0..MaxOps /\ apart \in BOOLEAN /\ faultless \in BOOLEAN

BuilderInit ==
    /\ rows = NoRows /\ listed = NoRows
    /\ active = NoId /\ draft = NoDraft /\ text = Blank
    /\ mounted = FALSE /\ busy = FALSE
    /\ ops = [o \in Ops |-> Idle]
    /\ started = 0 /\ apart = TRUE /\ faultless = TRUE

-----------------------------------------------------------------------------
(* The builder's state.                                                    *)

Drafts(list) == {h \in Ids : list[h].status = "draft"}
FirstDraft(list) == IF Drafts(list) = {} THEN NoId ELSE Max(Drafts(list))

Shown(list, h) == [id |-> h, status |-> list[h].status, plan |-> list[h].plan]

\* The effect on activeId and handoffs shows the active handoff, else a draft.
Current(id, list) == IF id # NoId /\ list[id].status # "none" THEN id ELSE FirstDraft(list)
Effect(id, list) ==
    IF Current(id, list) = NoId
    THEN UNCHANGED <<draft, text>>
    ELSE draft' = Shown(list, Current(id, list)) /\ text' = list[Current(id, list)].plan

\* setDraft does nothing once the builder of the click has left the page.
SetDraft(o) ==
    IF ops[o].shows THEN draft' = Shown(ops[o].reply, ops[o].id) ELSE UNCHANGED draft
SetText(o) ==
    IF ops[o].shows THEN text' = ops[o].reply[ops[o].id].plan ELSE UNCHANGED text
SetFree(o) == busy' = (busy /\ ~ops[o].shows)

Becomes(o, op) == ops' = [ops EXCEPT ![o] = op]
Sends(o, request) == Becomes(o, [ops[o] EXCEPT !.at = request, !.reply = NoRows])

\* A mutation: the operations of the builder outlive it.
LeaveBound ==
    /\ mounted /\ mounted' = FALSE
    /\ draft' = NoDraft /\ text' = Blank /\ busy' = FALSE
    /\ UNCHANGED <<rows, listed, active, ops, started, apart, faultless>>

\* Another surface opens, or the login: the builder's state is gone.
Leave ==
    /\ mounted /\ mounted' = FALSE
    /\ draft' = NoDraft /\ text' = Blank /\ busy' = FALSE
    /\ ops' = [o \in Ops |-> [ops[o] EXCEPT !.shows = FALSE]]
    /\ UNCHANGED <<rows, listed, active, started, apart, faultless>>

\* The surface opens, or the login succeeds: a new builder, whose effect runs.
Open ==
    /\ ~mounted /\ mounted' = TRUE
    /\ Effect(active, listed)
    /\ UNCHANGED <<rows, listed, active, busy, ops, started, apart, faultless>>

-----------------------------------------------------------------------------
(* The clicks.                                                             *)

Begin(o, op) ==
    /\ ops[o].at = "idle" /\ started < MaxOps
    /\ started' = started + 1
    /\ apart' = (apart /\ \A p \in Ops : ops[p].at = "idle")
    /\ Becomes(o, op)
    /\ UNCHANGED <<rows, listed, active, draft, text, mounted, faultless>>

\* A click in the builder.
Click(o, op) ==
    /\ mounted
    /\ busy' = TRUE
    /\ Begin(o, [op EXCEPT !.shows = TRUE])

\* prepare, from the request that creates the handoff on.
Prepare(o) == ~busy /\ Click(o, [Idle EXCEPT !.kind = "prepare", !.at = "create"])

SavePlan(o) ==
    /\ draft.status = "draft"
    /\ Click(o, [Idle EXCEPT !.kind = "save", !.at = "patch", !.id = draft.id, !.text = text])

\* publish saves the plan first.
Publish(o) ==
    /\ draft.status = "draft"
    /\ Click(o, [Idle EXCEPT !.kind = "publish", !.at = "patch", !.id = draft.id,
                             !.text = text, !.posts = TRUE])

\* approve_handoff by voice publishes the active handoff as it is stored.
Approve(o) ==
    /\ active # NoId
    /\ Begin(o, [Idle EXCEPT !.kind = "voice", !.at = "post", !.id = active])
    /\ UNCHANGED busy

\* Another surface, the login or a new session calls refresh.
Refresh(o) == Begin(o, [Idle EXCEPT !.at = "list"]) /\ UNCHANGED busy

Edit(t) ==
    /\ draft.status = "draft" /\ text # t
    /\ text' = t
    /\ UNCHANGED <<rows, listed, active, draft, mounted, busy, ops, started, apart, faultless>>

-----------------------------------------------------------------------------
(* The server.                                                             *)

Serve(o, from, at) ==
    /\ ops[o].at = from
    /\ Becomes(o, [ops[o] EXCEPT !.at = at, !.reply = rows'])
    /\ UNCHANGED <<sight, started, apart, faultless>>

\* create_handoff; the plan is the server's own.
Create(o) ==
    /\ ops[o].at = "create"
    /\ \E h \in Ids, plan \in Texts :
         /\ \A g \in Ids : rows[g].status = "none" <=> g >= h
         /\ rows' = [rows EXCEPT ![h] = [status |-> "draft", plan |-> plan]]
         /\ Becomes(o, [ops[o] EXCEPT !.at = "created", !.id = h, !.reply = rows'])
    /\ UNCHANGED <<sight, started, apart, faultless>>

\* A mutation: the plan is left out of the update.
PatchRefs(o) ==
    /\ ops[o].at = "patch" /\ rows[ops[o].id].status = "draft"
    /\ UNCHANGED rows
    /\ Serve(o, "patch", "patched")

\* update_handoff of a draft; an empty plan keeps the stored one.
Patch(o) ==
    /\ ops[o].at = "patch" /\ rows[ops[o].id].status = "draft"
    /\ rows' = IF ops[o].text = Blank THEN rows
               ELSE [rows EXCEPT ![ops[o].id].plan = ops[o].text]
    /\ Serve(o, "patch", "patched")

\* publish_handoff.
Post(o) ==
    /\ ops[o].at = "post"
    /\ rows' = [rows EXCEPT ![ops[o].id].status = "published"]
    /\ Serve(o, "post", "posted")

List(o) == UNCHANGED rows /\ Serve(o, "list", "listed")

-----------------------------------------------------------------------------
(* The answers.                                                            *)

\* setDraft, setPlanText and onActive; a changed activeId runs the effect, over
\* the list from before.
TakeCreated(o) ==
    /\ ops[o].at = "created"
    /\ active' = ops[o].id
    /\ IF mounted /\ active' # active /\ Current(active', listed) # NoId
       THEN Effect(active', listed)
       ELSE SetDraft(o) /\ SetText(o)
    /\ Sends(o, "list")
    /\ UNCHANGED <<rows, listed, mounted, busy, started, apart, faultless>>

TakePatched(o) ==
    /\ ops[o].at = "patched"
    /\ SetDraft(o)
    /\ Becomes(o, [ops[o] EXCEPT !.at = "list", !.saved = TRUE, !.reply = NoRows])
    /\ UNCHANGED <<rows, listed, active, text, mounted, busy, started, apart, faultless>>

\* A mutation: the command returns without an event and without a refresh.
TakePostedQuietly(o) ==
    /\ ops[o].at = "posted"
    /\ Becomes(o, Idle)
    /\ UNCHANGED <<rows, sight, started, apart, faultless>>

\* The button sets the draft; the voice opens the builder and tells one that is
\* there already, draft and text.
TakePosted(o) ==
    /\ ops[o].at = "posted"
    /\ IF ops[o].kind # "voice"
       THEN SetDraft(o) /\ UNCHANGED <<text, mounted>>
       ELSE /\ mounted' = TRUE
            /\ IF mounted
               THEN /\ draft' = Shown(ops[o].reply, ops[o].id)
                    /\ text' = ops[o].reply[ops[o].id].plan
               ELSE Effect(active, listed)
    /\ Sends(o, "list")
    /\ UNCHANGED <<rows, listed, active, busy, started, apart, faultless>>

\* refresh sets the list, and its first draft as active; publish goes on to its
\* second request.
TakeListed(o) ==
    /\ ops[o].at = "listed"
    /\ listed' = ops[o].reply
    /\ active' = IF FirstDraft(listed') # NoId THEN FirstDraft(listed') ELSE active
    /\ IF mounted THEN Effect(active', listed') ELSE UNCHANGED <<draft, text>>
    /\ SetFree(o)
    /\ IF ops[o].posts
       THEN Becomes(o, [ops[o] EXCEPT !.at = "post", !.posts = FALSE, !.reply = NoRows])
       ELSE Becomes(o, Idle)
    /\ UNCHANGED <<rows, mounted, started, apart, faultless>>

\* A request fails, served or not.  savePlan shows the error and returns, and
\* publish goes on; every other operation ends.
Fail(o) ==
    /\ ops[o].at \in {"create", "created", "patch", "patched", "post", "posted"}
    /\ IF ops[o].posts
       THEN Becomes(o, [ops[o] EXCEPT !.at = "post", !.posts = FALSE, !.reply = NoRows])
       ELSE Becomes(o, Idle)
    /\ SetFree(o)
    /\ faultless' = FALSE
    /\ UNCHANGED <<rows, listed, active, draft, text, mounted, started, apart>>

\* refresh answers any failure with the login, and publish goes on behind it.
RefreshFails(o) ==
    /\ ops[o].at \in {"list", "listed"}
    /\ mounted' = FALSE /\ draft' = NoDraft /\ text' = Blank /\ busy' = FALSE
    /\ ops' = [p \in Ops |->
                 IF p # o THEN [ops[p] EXCEPT !.shows = FALSE]
                 ELSE IF ops[o].posts
                      THEN [ops[o] EXCEPT !.at = "post", !.posts = FALSE, !.reply = NoRows,
                                          !.shows = FALSE]
                      ELSE Idle]
    /\ faultless' = FALSE
    /\ UNCHANGED <<rows, listed, active, started, apart>>

BuilderNext ==
    \/ \E o \in Ops :
         \/ Prepare(o) \/ SavePlan(o) \/ Publish(o) \/ Approve(o) \/ Refresh(o)
         \/ Create(o) \/ Patch(o) \/ Post(o) \/ List(o)
         \/ TakeCreated(o) \/ TakePatched(o) \/ TakePosted(o) \/ TakeListed(o)
         \/ Fail(o) \/ RefreshFails(o)
    \/ \E t \in Texts \union {Blank} : Edit(t)
    \/ Leave \/ Open

-----------------------------------------------------------------------------
(* What the user relies on.                                                *)

\* A plan that was saved by the click that published it is the plan that is
\* published: text area, PATCH, refresh and POST agree, if no other operation
\* ran beside it (publish, "The packet preview is the data Codex will receive",
\* docs/handoffs.md:49).
LoneApprovalPublishes ==
    \A o \in Ops :
        LET op == ops[o] IN
        /\ op.kind = "publish" /\ op.at = "posted"
        /\ apart /\ op.saved /\ op.text # Blank
        => op.reply[op.id] = [status |-> "published", plan |-> op.text]

\* With one operation at a time and no failure, the builder ends up showing the
\* handoff as the server has it, whatever was prepared, saved or published by
\* button or voice, and left or opened on the way (refresh and the effect).
LonePageAgrees ==
    /\ apart /\ faultless
    /\ mounted /\ draft.id # NoId /\ \A o \in Ops : ops[o].at = "idle"
    => draft = Shown(rows, draft.id)
=============================================================================
