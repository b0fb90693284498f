---------------------------- MODULE BrowserProofs ----------------------------
(***************************************************************************)
(* Proofs about VoiceSession and HandoffBuilder, the two parts of a page   *)
(* that MCBrowser puts side by side, for any numbers of sessions, plans,   *)
(* handoffs and operations.                                                *)
(***************************************************************************)
EXTENDS MCBrowser, WellFoundedInduction, TLAPS

USE AttemptsAssumption, BuilderAssumption

-----------------------------------------------------------------------------
(* Voice sessions *)

\* How far an attempt is tells what it holds.
Begun ==
    \A a \in Attempts :
        /\ a > begun => awaits[a] = "never"
        /\ awaits[a] \in {"never", "token", "microphone"} => mic[a] = "off" /\ refs # a

\* While nobody disturbs: whatever is live is in the refs, and one attempt at
\* most is connecting, with the refs empty until it has its microphone.
Held ==
    /\ shown \in Closed => refs = NoAttempt
    /\ \A a \in Attempts :
          /\ awaits[a] \in Connecting =>
                /\ shown = "connecting"
                /\ refs = IF awaits[a] = "answer" THEN a ELSE NoAttempt
                /\ \A b \in Attempts : awaits[b] \in Connecting => a = b
          /\ mic[a] = "live" => refs = a
          /\ peer[a] = "channel" => refs = a /\ awaits[a] = "over"
          /\ awaits[a] = "over" /\ peer[a] = "open" /\ mic[a] # "off" => refs = a

VoiceInv == Begun /\ (~disturbed => Held)

LEMMA VoiceTypeStep == VoiceTypeOK /\ [VoiceNext]_voiceVars => VoiceTypeOK'
<1> SUFFICES ASSUME VoiceTypeOK, [VoiceNext]_voiceVars PROVE VoiceTypeOK'
  OBVIOUS
<1>1. CASE UNCHANGED voiceVars
  BY <1>1 DEF VoiceTypeOK, voiceVars
<1>2. CASE Connect
  BY <1>2 DEF VoiceTypeOK, Connect, Awaits, Connecting, Attempts
<1>3. CASE Stop
  BY <1>3 DEF VoiceTypeOK, Stop, Disconnect, Closed
<1>4. ASSUME NEW a \in Attempts, TokenArrives(a) \/ MicrophoneArrives(a) \/ Connected(a)
      PROVE  VoiceTypeOK'
  BY <1>4 DEF VoiceTypeOK, TokenArrives, MicrophoneArrives, Connected, Awaits, Connecting
<1>5. ASSUME NEW a \in Attempts, ConnectFails(a) \/ ErrorEvent(a) \/ ChannelCloses(a)
      PROVE  VoiceTypeOK'
  BY <1>5 DEF VoiceTypeOK, ConnectFails, ErrorEvent, ChannelCloses, Awaits, Disconnect, Closed
<1>6. ASSUME NEW a \in Attempts, ChannelOpens(a) \/ Hears(a) \/ CallArrives(a) \/ CallEnds(a)
      PROVE  VoiceTypeOK'
  BY <1>6 DEF VoiceTypeOK, ChannelOpens, Hears, CallArrives, CallEnds, Closed, InSession
<1>7. QED BY <1>1, <1>2, <1>3, <1>4, <1>5, <1>6 DEF VoiceNext

\* The button starts an attempt of its own.
LEMMA ConnectHolds == VoiceTypeOK /\ VoiceInv /\ Connect => VoiceInv'
<1> SUFFICES ASSUME VoiceTypeOK, VoiceInv, Connect PROVE VoiceInv'
  OBVIOUS
<1> DEFINE c == begun + 1
<1>1. /\ begun \in Nat /\ c \in Attempts /\ c > begun
      /\ awaits' = [awaits EXCEPT ![c] = "token"]
      /\ awaits \in [Attempts -> {"never", "over"} \union Connecting]
      /\ begun' = c /\ shown \in Closed /\ shown' = "connecting"
      /\ UNCHANGED <<peer, mic, refs, disturbed>>
  BY DEF Connect, VoiceTypeOK, Attempts, Awaits
<1>2. \A a \in Attempts : a \in Nat /\ (a > c => a > begun)
  BY <1>1 DEF Attempts
<1> HIDE DEF c
<1>3. Begun'
  BY <1>1, <1>2 DEF VoiceInv, Begun
<1>4. ASSUME ~disturbed PROVE Held'
  <2>1. refs = NoAttempt /\ \A a \in Attempts : awaits[a] \notin Connecting
    BY <1>1, <1>4 DEF VoiceInv, Held, Closed
  <2>2. mic[c] = "off" /\ awaits[c] = "never"
    BY <1>1 DEF VoiceInv, Begun
  <2>3. QED BY <1>1, <1>4, <2>1, <2>2 DEF VoiceInv, Held, Closed, Connecting
<1>5. QED BY <1>1, <1>3, <1>4 DEF VoiceInv

\* What the actions of a session have in common: who has a microphone, and
\* that its attempt has passed it.
LEMMA VoiceFields ==
    ASSUME VoiceTypeOK
    PROVE  /\ awaits \in [Attempts -> {"never", "over", "token", "microphone", "answer"}]
           /\ peer \in [Attempts -> {"none", "open", "channel", "closed"}]
           /\ mic \in [Attempts -> {"off", "live", "stopped"}]
           /\ \A a \in Attempts : a # NoAttempt
BY DEF VoiceTypeOK, Connecting, Attempts, NoAttempt

LEMMA VoiceStep == VoiceTypeOK /\ VoiceInv /\ [VoiceNext]_voiceVars => VoiceInv'
<1> SUFFICES ASSUME VoiceTypeOK, VoiceInv, [VoiceNext]_voiceVars PROVE VoiceInv'
  OBVIOUS
<1> USE VoiceFields
<1>1. CASE UNCHANGED voiceVars
  BY <1>1 DEF voiceVars, VoiceInv, Begun, Held
<1>2. ASSUME Stop
      PROVE  VoiceInv'
  <2>1. Begun'
    BY <1>2 DEF Stop, Disconnect, Awaits, VoiceInv, Begun
  <2>2. ASSUME ~disturbed' PROVE Held'
    BY <1>2, <2>2 DEF Stop, Disconnect, Awaits, VoiceInv, Begun, Held, Connecting, Closed,
                     InSession
  <2>3. QED BY <2>1, <2>2 DEF VoiceInv
<1>3. ASSUME NEW a \in Attempts, TokenArrives(a)
      PROVE  VoiceInv'
  <2>1. Begun'
    BY <1>3 DEF TokenArrives, Disconnect, Awaits, VoiceInv, Begun
  <2>2. ASSUME ~disturbed' PROVE Held'
    BY <1>3, <2>2 DEF TokenArrives, Disconnect, Awaits, VoiceInv, Begun, Held, Connecting, Closed,
                     InSession
  <2>3. QED BY <2>1, <2>2 DEF VoiceInv
<1>4. ASSUME NEW a \in Attempts, MicrophoneArrives(a)
      PROVE  VoiceInv'
  <2>1. Begun'
    BY <1>4 DEF MicrophoneArrives, Disconnect, Awaits, VoiceInv, Begun
  <2>2. ASSUME ~disturbed' PROVE Held'
    BY <1>4, <2>2 DEF MicrophoneArrives, Disconnect, Awaits, VoiceInv, Begun, Held, Connecting, Closed,
                     InSession
  <2>3. QED BY <2>1, <2>2 DEF VoiceInv
<1>5. ASSUME NEW a \in Attempts, Connected(a)
      PROVE  VoiceInv'
  <2>1. Begun'
    BY <1>5 DEF Connected, Disconnect, Awaits, VoiceInv, Begun
  <2>2. ASSUME ~disturbed' PROVE Held'
    BY <1>5, <2>2 DEF Connected, Disconnect, Awaits, VoiceInv, Begun, Held, Connecting, Closed,
                     InSession
  <2>3. QED BY <2>1, <2>2 DEF VoiceInv
<1>6. ASSUME NEW a \in Attempts, ConnectFails(a)
      PROVE  VoiceInv'
  <2>1. Begun'
    BY <1>6 DEF ConnectFails, Disconnect, Awaits, VoiceInv, Begun, Connecting
  <2>2. ASSUME ~disturbed' PROVE Held'
    BY <1>6, <2>2 DEF ConnectFails, Disconnect, Awaits, VoiceInv, Begun, Held, Connecting, Closed,
                     InSession
  <2>3. QED BY <2>1, <2>2 DEF VoiceInv
<1>7. ASSUME NEW a \in Attempts, ErrorEvent(a)
      PROVE  VoiceInv'
  <2>1. Begun'
    BY <1>7 DEF ErrorEvent, Disconnect, Awaits, VoiceInv, Begun
  <2>2. ASSUME ~disturbed' PROVE Held'
    BY <1>7, <2>2 DEF ErrorEvent, Disconnect, Awaits, VoiceInv, Begun, Held, Connecting, Closed,
                     InSession
  <2>3. QED BY <2>1, <2>2 DEF VoiceInv
<1>8. ASSUME NEW a \in Attempts, ChannelCloses(a)
      PROVE  VoiceInv'
  <2>1. Begun'
    BY <1>8 DEF ChannelCloses, Disconnect, Awaits, VoiceInv, Begun
  <2>2. ASSUME ~disturbed' PROVE Held'
    BY <1>8, <2>2 DEF ChannelCloses, Disconnect, Awaits, VoiceInv, Begun, Held, Connecting, Closed,
                     InSession
  <2>3. QED BY <2>1, <2>2 DEF VoiceInv
<1>9. ASSUME NEW a \in Attempts, ChannelOpens(a)
      PROVE  VoiceInv'
  <2>1. Begun'
    BY <1>9 DEF ChannelOpens, Disconnect, Awaits, VoiceInv, Begun
  <2>2. ASSUME ~disturbed' PROVE Held'
    BY <1>9, <2>2 DEF ChannelOpens, Disconnect, Awaits, VoiceInv, Begun, Held, Connecting, Closed,
                     InSession
  <2>3. QED BY <2>1, <2>2 DEF VoiceInv
<1>10. ASSUME NEW a \in Attempts, Hears(a)
      PROVE  VoiceInv'
  <2>1. Begun'
    BY <1>10 DEF Hears, Disconnect, Awaits, VoiceInv, Begun
  <2>2. ASSUME ~disturbed' PROVE Held'
    <3>1. Held /\ shown' \in InSession
      BY <1>10, <2>2 DEF Hears, VoiceInv, VoiceTypeOK
    <3>2. refs = a /\ \A b \in Attempts : awaits[b] \notin Connecting
      BY <1>10, <3>1 DEF Hears, Held, Connecting
    <3>3. QED BY <1>10, <3>1, <3>2 DEF Hears, Held, Closed, InSession
  <2>3. QED BY <2>1, <2>2 DEF VoiceInv
<1>11. ASSUME NEW a \in Attempts, CallArrives(a)
      PROVE  VoiceInv'
  <2>1. Begun'
    BY <1>11 DEF CallArrives, Disconnect, Awaits, VoiceInv, Begun
  <2>2. ASSUME ~disturbed' PROVE Held'
    BY <1>11, <2>2 DEF CallArrives, Disconnect, Awaits, VoiceInv, Begun, Held, Connecting, Closed,
                     InSession
  <2>3. QED BY <2>1, <2>2 DEF VoiceInv
<1>12. ASSUME NEW a \in Attempts, CallEnds(a)
      PROVE  VoiceInv'
  <2>1. Begun'
    BY <1>12 DEF CallEnds, Disconnect, Awaits, VoiceInv, Begun
  <2>2. ASSUME ~disturbed' PROVE Held'
    BY <1>12, <2>2 DEF CallEnds, Disconnect, Awaits, VoiceInv, Begun, Held, Connecting, Closed,
                     InSession
  <2>3. QED BY <2>1, <2>2 DEF VoiceInv
<1>13. QED
  BY <1>1, <1>2, <1>3, <1>4, <1>5, <1>6, <1>7, <1>8, <1>9, <1>10, <1>11, <1>12, ConnectHolds DEF VoiceNext

LEMMA VoiceHolds == Spec => [](VoiceTypeOK /\ VoiceInv)
<1>1. Init => VoiceTypeOK /\ VoiceInv
  <2> SUFFICES ASSUME VoiceInit PROVE VoiceTypeOK /\ VoiceInv
    BY DEF Init
  <2>1. 0 \in 0..MaxAttempts /\ \A a \in Attempts : a # NoAttempt
    BY DEF Attempts, NoAttempt
  <2>2. VoiceTypeOK
    BY <2>1 DEF VoiceInit, VoiceTypeOK, Closed, Connecting
  <2>3. VoiceInv
    BY <2>1 DEF VoiceInit, VoiceInv, Begun, Held, Connecting
  <2>4. QED BY <2>2, <2>3
<1>2. [Next]_vars => [VoiceNext]_voiceVars
  BY DEF Next, vars, NextVoice, NextBuilder
<1>3. QED BY <1>1, <1>2, VoiceTypeStep, VoiceStep, PTL DEF Spec

\* A session nobody stopped while it connected, and whose messages could be
\* read, leaves no microphone of an earlier attempt on.  This is not said of
\* connections: that of an attempt whose microphone is denied stays open
\* (AriaVoice.tsx, connect and disconnectTransport, lines 146 and 180).
THEOREM MicrophoneIsAlone == Spec => []LoneMicrophone
<1>1. VoiceTypeOK /\ VoiceInv => LoneMicrophone
  BY DEF VoiceInv, Held, LoneMicrophone, Attempts, NoAttempt
<1>2. QED BY <1>1, VoiceHolds, PTL

-----------------------------------------------------------------------------
(* The handoff builder *)

\* What an operation is for tells its requests and what it works on.
Fits(op) ==
    /\ op.at = "idle" => op.kind = "refresh"
    /\ op.at \in {"create", "created"} => op.kind = "prepare"
    /\ op.at \in {"patch", "patched"} => op.kind \in {"save", "publish"} /\ ~op.saved
    /\ op.at \in {"post", "posted"} => op.kind \in {"publish", "voice"}
    /\ op.posts => op.kind = "publish"
    /\ op.at = "created" \/ op.kind \in {"save", "publish", "voice"} => op.id \in Ids

OpsFit == ops \in [Ops -> Op] /\ \A o \in Ops : Fits(ops[o])

\* The builder shows a handoff only while one is active, and so does an
\* operation on a handoff only run then: nothing makes the page inactive again.
PageActive ==
    /\ mounted \/ draft = NoDraft
    /\ draft = NoDraft \/ (draft.id \in Ids /\ active \in Ids)
    /\ \A h \in Ids : listed[h].status = "draft" => active \in Ids

OpsActive == \A o \in Ops : ops[o].kind \in {"save", "publish", "voice"} => active \in Ids

\* An operation that no other overlaps finds the rows as the server left them.
Undisturbed(op, server) ==
    /\ op.at \in Answered => op.reply = server
    /\ op.at = "created" => server[op.id].status # "none"
    /\ op.at = "posted" => server[op.id].status = "published"
    /\ op.kind = "publish" /\ op.text # Blank /\ (op.saved \/ op.at = "patched")
       => server[op.id].plan = op.text

AllIdle == \A o \in Ops : ops[o].at = "idle"

\* The page agrees with the server.
Agrees == listed = rows /\ (draft.id # NoId => draft = Shown(rows, draft.id))

Alone ==
    /\ \A o, p \in Ops : ops[o].at # "idle" /\ ops[p].at # "idle" => o = p
    /\ active # NoId => rows[active].status # "none"
    /\ \A o \in Ops : Undisturbed(ops[o], rows)
    /\ faultless /\ AllIdle => Agrees

\* The types of the page's own state, without its operations.
DraftRow == [id : Ids \union {NoId}, status : {"none", "draft", "published"},
             plan : Texts \union {Blank}]
PageTypeOK ==
    /\ rows \in Rows /\ listed \in Rows
    /\ active \in Ids \union {NoId}
    /\ draft \in DraftRow
    /\ text \in Texts \union {Blank}
    /\ mounted \in BOOLEAN /\ busy \in BOOLEAN
    /\ started \in 0..MaxOps /\ apart \in BOOLEAN /\ faultless \in BOOLEAN
OpsShow == \A o \in Ops : ops[o].shows => mounted

BuilderInv ==
    /\ PageTypeOK /\ OpsFit /\ OpsShow
    /\ PageActive /\ OpsActive
    /\ apart => Alone

LEMMA TypesOfParts == BuilderInv => BuilderTypeOK
BY DEF BuilderInv, PageTypeOK, OpsFit, OpsShow, BuilderTypeOK, DraftRow

\* Idle operations are not about a handoff.
LEMMA IdleFits == Idle \in Op /\ Fits(Idle) /\ Idle.at = "idle" /\ Idle.kind = "refresh"
                  /\ ~Idle.shows
BY DEF Idle, Op, Fits, Kinds, NoRows, NoRow, Rows, Row, Ids, NoId

LEMMA NoIdApart == NoId \notin Ids /\ MaxOps \in Nat
BY DEF NoId, Ids

\* What an operation is made of.
LEMMA OpFields ==
    ASSUME NEW op \in Op
    PROVE  /\ op.kind \in Kinds
           /\ op.at \in {"idle"} \union Requests \union Answered
           /\ op.id \in Ids \union {NoId}
           /\ op.text \in Texts \union {Blank}
           /\ op.saved \in BOOLEAN /\ op.posts \in BOOLEAN /\ op.shows \in BOOLEAN
           /\ op.reply \in Rows
BY DEF Op

\* One operation goes on as n, and the page keeps what its own part asks for.
LEMMA OpMoves ==
    ASSUME BuilderInv, NEW o \in Ops, NEW n \in Op, Fits(n), Becomes(o, n),
           PageTypeOK', PageActive', mounted => mounted', active \in Ids => active' \in Ids,
           n.shows => mounted',
           n.kind \in {"save", "publish", "voice"} => active' \in Ids
    PROVE  PageTypeOK' /\ OpsFit' /\ OpsShow' /\ PageActive' /\ OpsActive'
<1>1. ops' = [ops EXCEPT ![o] = n] /\ ops \in [Ops -> Op]
  BY DEF Becomes, BuilderInv, OpsFit
<1>2. OpsFit'
  BY <1>1 DEF OpsFit, BuilderInv
<1>3. OpsShow'
  BY <1>1 DEF OpsShow, BuilderInv
<1>4. OpsActive'
  BY <1>1 DEF OpsActive, BuilderInv
<1>5. QED BY <1>2, <1>3, <1>4

\* While no operations overlap, the others have nothing to disagree with.
LEMMA AloneMoves ==
    ASSUME BuilderInv, NEW o \in Ops, \A p \in Ops : p # o => ops[p].at = "idle",
           NEW n \in Op, Becomes(o, n),
           Undisturbed(n, rows'),
           active' # NoId => rows'[active'].status # "none",
           n.at = "idle" /\ faultless' => Agrees'
    PROVE  Alone'
<1>1. ops' = [ops EXCEPT ![o] = n] /\ ops \in [Ops -> Op]
  BY DEF Becomes, BuilderInv, OpsFit
<1>2. \A p \in Ops : p # o => ops'[p].at = "idle" /\ ops'[p].kind = "refresh"
  BY <1>1 DEF BuilderInv, OpsFit, Fits
<1>3. (\A p \in Ops : Undisturbed(ops[p], rows))'
  BY <1>1, <1>2 DEF Undisturbed, Answered
<1>4. ops'[o] = n
  BY <1>1
<1>5. AllIdle' => n.at = "idle"
  BY <1>4 DEF AllIdle
<1>6. QED BY <1>2, <1>3, <1>5 DEF Alone

\* In a page without overlaps the operation that is under way is the only one.
LEMMA OnlyOne ==
    ASSUME BuilderInv, apart, NEW o \in Ops, ops[o].at # "idle"
    PROVE  /\ \A p \in Ops : p # o => ops[p].at = "idle"
           /\ Undisturbed(ops[o], rows)
           /\ active # NoId => rows[active].status # "none"
BY DEF BuilderInv, Alone

\* A click begins an operation that has asked nothing yet.
LEMMA BeginHolds ==
    ASSUME BuilderInv, NEW o \in Ops, NEW n \in Op, Fits(n), Begin(o, n), busy' \in BOOLEAN,
           n.at \in {"create", "patch", "post", "list"}, ~n.saved,
           n.shows => mounted,
           n.kind \in {"save", "publish", "voice"} => active \in Ids
    PROVE  BuilderInv'
<1>1. /\ Becomes(o, n) /\ apart' = (apart /\ AllIdle)
      /\ UNCHANGED <<rows, listed, active, draft, text, mounted, faultless>>
  BY DEF Begin, AllIdle
<1>2. started' \in 0..MaxOps
  BY NoIdApart DEF Begin, BuilderInv, PageTypeOK
<1>3. PageTypeOK' /\ PageActive'
  BY <1>1, <1>2 DEF BuilderInv, PageTypeOK, PageActive
<1>4. PageTypeOK' /\ OpsFit' /\ OpsShow' /\ PageActive' /\ OpsActive'
  BY <1>1, <1>3, OpMoves
<1>5. ASSUME apart' PROVE Alone'
  <2>1. apart /\ \A p \in Ops : ops[p].at = "idle"
    BY <1>1, <1>5 DEF AllIdle
  <2>2. Undisturbed(n, rows')
    BY DEF Undisturbed, Answered
  <2>3. active' # NoId => rows'[active'].status # "none"
    BY <1>1, <2>1 DEF BuilderInv, Alone
  <2>4. QED BY <1>1, <2>1, <2>2, <2>3, AloneMoves
<1>6. QED BY <1>4, <1>5 DEF BuilderInv

LEMMA ClicksHold ==
    ASSUME BuilderInv, NEW o \in Ops,
           Prepare(o) \/ SavePlan(o) \/ Publish(o) \/ Approve(o) \/ Refresh(o)
    PROVE  BuilderInv'
<1>1. /\ draft \in DraftRow /\ text \in Texts \union {Blank}
      /\ active \in Ids \union {NoId} /\ busy \in BOOLEAN
      /\ draft.status = "draft" => draft.id \in Ids /\ active \in Ids
  BY DEF BuilderInv, PageTypeOK, PageActive, NoDraft
<1>2. NoRows \in Rows
  BY DEF NoRows, NoRow, Rows, Row
<1>3. CASE Prepare(o)
  <2> DEFINE n == [[Idle EXCEPT !.kind = "prepare", !.at = "create"] EXCEPT !.shows = TRUE]
  <2>1. n \in Op /\ Fits(n) /\ n.at = "create" /\ ~n.saved /\ n.kind = "prepare"
    BY <1>2 DEF Idle, Op, Fits, Kinds, Requests, NoId
  <2>2. Begin(o, n) /\ mounted /\ busy' \in BOOLEAN
    BY <1>3 DEF Prepare, Click
  <2> HIDE DEF n
  <2>3. QED BY <2>1, <2>2, BeginHolds
<1>4. CASE SavePlan(o)
  <2> DEFINE n == [[Idle EXCEPT !.kind = "save", !.at = "patch", !.id = draft.id, !.text = text]
                     EXCEPT !.shows = TRUE]
  <2>1. draft.id \in Ids /\ active \in Ids /\ Begin(o, n) /\ mounted /\ busy' \in BOOLEAN
    BY <1>1, <1>4 DEF SavePlan, Click
  <2>2. n \in Op /\ Fits(n) /\ n.at = "patch" /\ ~n.saved
    BY <1>1, <1>2, <2>1 DEF Idle, Op, Fits, Kinds, Requests
  <2> HIDE DEF n
  <2>3. QED BY <2>1, <2>2, BeginHolds
<1>5. CASE Publish(o)
  <2> DEFINE n == [[Idle EXCEPT !.kind = "publish", !.at = "patch", !.id = draft.id,
                                !.text = text, !.posts = TRUE] EXCEPT !.shows = TRUE]
  <2>1. draft.id \in Ids /\ active \in Ids /\ Begin(o, n) /\ mounted /\ busy' \in BOOLEAN
    BY <1>1, <1>5 DEF Publish, Click
  <2>2. n \in Op /\ Fits(n) /\ n.at = "patch" /\ ~n.saved
    BY <1>1, <1>2, <2>1 DEF Idle, Op, Fits, Kinds, Requests
  <2> HIDE DEF n
  <2>3. QED BY <2>1, <2>2, BeginHolds
<1>6. CASE Approve(o)
  <2> DEFINE n == [Idle EXCEPT !.kind = "voice", !.at = "post", !.id = active]
  <2>1. active \in Ids /\ Begin(o, n) /\ busy' \in BOOLEAN
    BY <1>1, <1>6 DEF Approve
  <2>2. n \in Op /\ Fits(n) /\ n.at = "post" /\ ~n.saved /\ ~n.shows
    BY <1>1, <1>2, <2>1 DEF Idle, Op, Fits, Kinds, Requests
  <2> HIDE DEF n
  <2>3. QED BY <2>1, <2>2, BeginHolds
<1>7. CASE Refresh(o)
  <2> DEFINE n == [Idle EXCEPT !.at = "list"]
  <2>1. Begin(o, n) /\ busy' \in BOOLEAN
    BY <1>1, <1>7 DEF Refresh
  <2>2. n \in Op /\ Fits(n) /\ n.at = "list" /\ ~n.saved /\ ~n.shows /\ n.kind = "refresh"
    BY <1>2 DEF Idle, Op, Fits, Kinds, Requests, NoId
  <2> HIDE DEF n
  <2>3. QED BY <2>1, <2>2, BeginHolds
<1>8. QED BY <1>3, <1>4, <1>5, <1>6, <1>7

-----------------------------------------------------------------------------
(* What the list shows *)

\* A bounded set of numbers has a greatest one, which Max returns.
LEMMA MaxOfBounded ==
    ASSUME NEW S, S \subseteq Nat, S # {}, NEW n \in Nat, \A x \in S : x <= n
    PROVE  Max(S) \in S /\ \A x \in S : x <= Max(S)
<1> DEFINE T == {k \in Nat : n - k \in S}
<1>1. PICK x \in S : x \in Nat /\ x <= n
  OBVIOUS
<1>2. n - x \in T
  <2>1. n - x \in Nat /\ n - (n - x) = x
    BY <1>1
  <2>2. QED BY <2>1
<1>3. PICK k \in T : \A j \in T : ~ (<<j, k>> \in OpToRel(<, Nat))
  <2>1. T \subseteq Nat /\ T # {}
    BY <1>2
  <2> HIDE DEF T
  <2>2. QED BY <2>1, WFMin, NatLessThanWellFounded
<1>4. \A y \in S : n - k >= y
  <2> SUFFICES ASSUME NEW y \in S, ~(n - k >= y) PROVE FALSE
    OBVIOUS
  <2>1. n - y \in T /\ n - y < k
    <3>1. y \in Nat /\ y <= n /\ k \in Nat
      BY <1>3
    <3>2. n - y \in Nat /\ n - (n - y) = y /\ n - y < k
      BY <3>1
    <3>3. QED BY <3>2
  <2>2. <<n - y, k>> \in OpToRel(<, Nat)
    BY <1>3, <2>1 DEF OpToRel
  <2>3. QED BY <1>3, <2>1, <2>2
<1>5. n - k \in S
  BY <1>3
<1>6. QED BY <1>4, <1>5 DEF Max

\* refresh takes a draft of the list for the active one, if there is any.
LEMMA FirstDraftIsDraft ==
    ASSUME NEW list \in Rows
    PROVE  \/ FirstDraft(list) = NoId /\ \A h \in Ids : list[h].status # "draft"
           \/ FirstDraft(list) \in Ids /\ list[FirstDraft(list)].status = "draft"
<1>1. CASE Drafts(list) = {}
  BY <1>1 DEF FirstDraft, Drafts
<1>2. CASE Drafts(list) # {}
  <2>1. Drafts(list) \subseteq Nat /\ \A h \in Drafts(list) : h <= MaxHandoffs
    BY DEF Drafts, Ids
  <2>2. Max(Drafts(list)) \in Drafts(list)
    BY <1>2, <2>1, MaxOfBounded
  <2>3. QED BY <1>2, <2>2 DEF FirstDraft, Drafts
<1>3. QED BY <1>1, <1>2

\* The handoff the effect shows: the active one if it is listed, or a draft.
LEMMA CurrentIsListed ==
    ASSUME NEW id \in Ids \union {NoId}, NEW list \in Rows
    PROVE  \/ /\ Current(id, list) = NoId
              /\ id # NoId => list[id].status = "none"
              /\ \A h \in Ids : list[h].status # "draft"
           \/ /\ Current(id, list) \in Ids
              /\ Current(id, list) = id \/ list[Current(id, list)].status = "draft"
BY FirstDraftIsDraft, NoIdApart DEF Current

LEMMA ShownTyped ==
    ASSUME NEW list \in Rows, NEW h \in Ids
    PROVE  /\ Shown(list, h) \in DraftRow /\ Shown(list, h).id = h
           /\ list[h].plan \in Texts \union {Blank}
           /\ list[h].status \in {"none", "draft", "published"}
BY DEF Shown, DraftRow, Rows, Row

\* The effect leaves draft and text alone or shows what is listed.
LEMMA EffectShows ==
    ASSUME NEW id \in Ids \union {NoId}, NEW list \in Rows, Effect(id, list),
           draft \in DraftRow, text \in Texts \union {Blank}
    PROVE  /\ draft' \in DraftRow /\ text' \in Texts \union {Blank}
           /\ \/ /\ UNCHANGED draft
                 /\ id # NoId => list[id].status = "none"
                 /\ \A h \in Ids : list[h].status # "draft"
              \/ \E h \in Ids : draft' = Shown(list, h) /\ (h = id \/ list[h].status = "draft")
<1>1. CASE Current(id, list) = NoId
  BY <1>1, CurrentIsListed, NoIdApart DEF Effect
<1>2. CASE Current(id, list) \in Ids
  <2>1. draft' = Shown(list, Current(id, list)) /\ text' = list[Current(id, list)].plan
    BY <1>2, NoIdApart DEF Effect
  <2>2. QED BY <1>2, <2>1, CurrentIsListed, ShownTyped, NoIdApart
<1>3. QED BY <1>1, <1>2, CurrentIsListed

-----------------------------------------------------------------------------
(* The server's steps *)

LEMMA ServeHolds ==
    ASSUME BuilderInv, NEW o \in Ops, NEW n \in Op, Fits(n), Becomes(o, n),
           ops[o].at # "idle", n.at # "idle", n.shows = ops[o].shows, n.kind = ops[o].kind,
           rows' \in Rows, UNCHANGED <<sight, started, apart, faultless>>,
           \A h \in Ids : rows[h].status # "none" => rows'[h].status # "none",
           apart => Undisturbed(n, rows')
    PROVE  BuilderInv'
<1>1. UNCHANGED <<listed, active, draft, text, mounted, busy, started, apart, faultless>>
  BY DEF sight
<1>2. PageTypeOK' /\ PageActive'
  BY <1>1 DEF BuilderInv, PageTypeOK, PageActive
<1>3. n.kind \in {"save", "publish", "voice"} => active' \in Ids
  BY <1>1 DEF BuilderInv, OpsActive
<1>4. n.shows => mounted'
  BY <1>1 DEF BuilderInv, OpsShow
<1>5. PageTypeOK' /\ OpsFit' /\ OpsShow' /\ PageActive' /\ OpsActive'
  BY <1>1, <1>2, <1>3, <1>4, OpMoves
<1>6. ASSUME apart' PROVE Alone'
  <2>1. apart /\ \A p \in Ops : p # o => ops[p].at = "idle"
    BY <1>1, <1>6, OnlyOne
  <2>2. active' # NoId => rows'[active'].status # "none"
    BY <1>1, <2>1, OnlyOne DEF BuilderInv, PageTypeOK
  <2>3. QED BY <2>1, <2>2, AloneMoves
<1>7. QED BY <1>5, <1>6 DEF BuilderInv

\* create_handoff.
LEMMA CreateHolds == ASSUME BuilderInv, NEW o \in Ops, Create(o) PROVE BuilderInv'
<1>1. PICK h \in Ids, plan \in Texts :
        /\ rows' = [rows EXCEPT ![h] = [status |-> "draft", plan |-> plan]]
        /\ Becomes(o, [ops[o] EXCEPT !.at = "created", !.id = h, !.reply = rows'])
  BY DEF Create
<1>2. ops[o] \in Op /\ Fits(ops[o]) /\ ops[o].at = "create" /\ rows \in Rows
  BY DEF BuilderInv, OpsFit, PageTypeOK, Create
<1>3. rows' \in Rows
  BY <1>1, <1>2 DEF Rows, Row
<1> DEFINE op == ops[o]
           n == [op EXCEPT !.at = "created", !.id = h, !.reply = rows']
<1>4. UNCHANGED <<sight, started, apart, faultless>> /\ Becomes(o, n)
  BY <1>1 DEF Create
<1> HIDE DEF op
<1>5. n \in Op
  BY <1>2, <1>3, OpFields DEF Op, Answered, op
<1>6. op.kind = "prepare" /\ op.at # "idle"
  BY <1>2 DEF Fits, op
<1>7. /\ n.at = "created" /\ n.id = h /\ n.reply = rows' /\ n.kind = "prepare"
      /\ n.shows = op.shows /\ n.saved = op.saved /\ n.posts = op.posts
  BY <1>2, <1>6 DEF Op, op
<1>8. Fits(n)
  BY <1>2, <1>6, <1>7 DEF Fits, op
<1>9. rows'[h].status = "draft"
  BY <1>1, <1>2 DEF Rows, Row
<1>10. Undisturbed(n, rows')
  BY <1>7, <1>9 DEF Undisturbed
<1>11. \A g \in Ids : rows[g].status # "none" => rows'[g].status # "none"
  BY <1>1, <1>2 DEF Rows, Row
<1> HIDE DEF n
<1>12. QED
  BY <1>3, <1>4, <1>5, <1>6, <1>7, <1>8, <1>10, <1>11, ServeHolds DEF op

\* update_handoff.
LEMMA PatchHolds == ASSUME BuilderInv, NEW o \in Ops, Patch(o) PROVE BuilderInv'
<1> DEFINE op == ops[o]
           n == [op EXCEPT !.at = "patched", !.reply = rows']
<1>1. /\ op.at = "patch" /\ op \in Op /\ Fits(op) /\ rows \in Rows
      /\ rows' = IF op.text = Blank THEN rows ELSE [rows EXCEPT ![op.id].plan = op.text]
      /\ Becomes(o, n) /\ UNCHANGED <<sight, started, apart, faultless>>
  BY DEF Patch, Serve, BuilderInv, OpsFit, PageTypeOK
<1>2. op.id \in Ids /\ op.text \in Texts \union {Blank}
  BY <1>1, OpFields DEF Fits
<1>3. rows' \in Rows
  BY <1>1, <1>2 DEF Rows, Row
<1> HIDE DEF op
<1>10. n \in Op
  BY <1>1, <1>3, OpFields DEF Op, Answered
<1>11. /\ n.at = "patched" /\ n.reply = rows' /\ n.kind = op.kind /\ n.id = op.id
       /\ n.text = op.text /\ n.saved = op.saved /\ n.shows = op.shows /\ n.posts = op.posts
  BY <1>1 DEF Op
<1> HIDE DEF n
<1>4. n \in Op /\ Fits(n)
  BY <1>1, <1>10, <1>11 DEF Fits
<1>5. op.text # Blank => rows'[op.id].plan = op.text
  BY <1>1, <1>2 DEF Rows, Row
<1>6. Undisturbed(n, rows')
  BY <1>11, <1>5 DEF Undisturbed
<1>7. \A g \in Ids : rows[g].status # "none" => rows'[g].status # "none"
  BY <1>1, <1>2 DEF Rows, Row
<1>8. QED BY <1>1, <1>11, <1>3, <1>4, <1>6, <1>7, ServeHolds DEF op

\* publish_handoff: whatever plan is stored by now.
LEMMA PostHolds == ASSUME BuilderInv, NEW o \in Ops, Post(o) PROVE BuilderInv'
<1> DEFINE op == ops[o]
           n == [op EXCEPT !.at = "posted", !.reply = rows']
<1>1. /\ op.at = "post" /\ op \in Op /\ Fits(op) /\ rows \in Rows
      /\ rows' = [rows EXCEPT ![op.id].status = "published"]
      /\ Becomes(o, n) /\ UNCHANGED <<sight, started, apart, faultless>>
  BY DEF Post, Serve, BuilderInv, OpsFit, PageTypeOK
<1>2. op.id \in Ids
  BY <1>1 DEF Fits
<1>3. rows' \in Rows
  BY <1>1, <1>2 DEF Rows, Row
<1> HIDE DEF op
<1>10. n \in Op
  BY <1>1, <1>3, OpFields DEF Op, Answered
<1>11. /\ n.at = "posted" /\ n.reply = rows' /\ n.kind = op.kind /\ n.id = op.id
       /\ n.text = op.text /\ n.saved = op.saved /\ n.shows = op.shows /\ n.posts = op.posts
  BY <1>1 DEF Op
<1> HIDE DEF n
<1>4. n \in Op /\ Fits(n)
  BY <1>1, <1>10, <1>11 DEF Fits
<1>5. apart => Undisturbed(op, rows)
  BY <1>1, OnlyOne DEF op
<1>6. rows'[op.id].status = "published" /\ rows'[op.id].plan = rows[op.id].plan
  BY <1>1, <1>2 DEF Rows, Row
<1>7. apart => Undisturbed(n, rows')
  BY <1>11, <1>5, <1>6 DEF Undisturbed
<1>8. \A g \in Ids : rows[g].status # "none" => rows'[g].status # "none"
  BY <1>1, <1>2 DEF Rows, Row
<1>9. QED BY <1>1, <1>11, <1>3, <1>4, <1>7, <1>8, ServeHolds DEF op

\* The list of the handoffs.
LEMMA ListHolds == ASSUME BuilderInv, NEW o \in Ops, List(o) PROVE BuilderInv'
<1> DEFINE op == ops[o]
           n == [op EXCEPT !.at = "listed", !.reply = rows']
<1>1. /\ op.at = "list" /\ op \in Op /\ Fits(op) /\ rows \in Rows /\ UNCHANGED rows
      /\ Becomes(o, n) /\ UNCHANGED <<sight, started, apart, faultless>>
  BY DEF List, Serve, BuilderInv, OpsFit, PageTypeOK
<1> HIDE DEF op
<1>10. n \in Op
  BY <1>1, OpFields DEF Op, Answered
<1>11. /\ n.at = "listed" /\ n.reply = rows' /\ n.kind = op.kind /\ n.id = op.id
       /\ n.text = op.text /\ n.saved = op.saved /\ n.shows = op.shows /\ n.posts = op.posts
  BY <1>1 DEF Op
<1> HIDE DEF n
<1>2. n \in Op /\ Fits(n)
  BY <1>1, <1>10, <1>11 DEF Fits
<1>3. apart => Undisturbed(op, rows)
  BY <1>1, OnlyOne DEF op
<1>4. apart => Undisturbed(n, rows')
  BY <1>1, <1>11, <1>3 DEF Undisturbed
<1>5. QED BY <1>1, <1>11, <1>2, <1>4, ServeHolds DEF op

-----------------------------------------------------------------------------
(* The answers *)

\* An operation that asks for the list, and one that goes on to publish.
Lists(op) == [op EXCEPT !.at = "list", !.reply = NoRows]
Posts(op) == [op EXCEPT !.at = "post", !.posts = FALSE, !.reply = NoRows]
Saved(op) == [op EXCEPT !.at = "list", !.saved = TRUE, !.reply = NoRows]

LEMMA NextRequests ==
    ASSUME NEW op \in Op, Fits(op)
    PROVE  /\ op.at \in {"created", "posted"} =>
                 /\ Lists(op) \in Op /\ Fits(Lists(op)) /\ Lists(op).at = "list"
                 /\ Lists(op).kind = op.kind /\ Lists(op).id = op.id
                 /\ Lists(op).text = op.text /\ Lists(op).saved = op.saved
                 /\ Lists(op).shows = op.shows
           /\ op.posts =>
                 /\ Posts(op) \in Op /\ Fits(Posts(op)) /\ Posts(op).at = "post"
                 /\ Posts(op).kind = op.kind /\ Posts(op).id = op.id
                 /\ Posts(op).text = op.text /\ Posts(op).saved = op.saved
                 /\ Posts(op).shows = op.shows
           /\ op.at = "patched" =>
                 /\ Saved(op) \in Op /\ Fits(Saved(op)) /\ Saved(op).at = "list"
                 /\ Saved(op).kind = op.kind /\ Saved(op).id = op.id
                 /\ Saved(op).text = op.text /\ Saved(op).saved
                 /\ Saved(op).shows = op.shows
<1>1. NoRows \in Rows
  BY DEF NoRows, NoRow, Rows, Row
<1>2. ASSUME op.at \in {"created", "posted"}
      PROVE  /\ Lists(op) \in Op /\ Fits(Lists(op)) /\ Lists(op).at = "list"
             /\ Lists(op).kind = op.kind /\ Lists(op).id = op.id
             /\ Lists(op).text = op.text /\ Lists(op).saved = op.saved
             /\ Lists(op).shows = op.shows
  <2> DEFINE n == Lists(op)
  <2>1. n \in Op
    BY <1>1, OpFields DEF Op, Requests, Lists
  <2>2. /\ n.at = "list" /\ n.kind = op.kind /\ n.id = op.id /\ n.text = op.text
        /\ n.saved = op.saved /\ n.shows = op.shows /\ n.posts = op.posts
    BY DEF Op, Lists
  <2> HIDE DEF n
  <2>3. Fits(n)
    BY <1>2, <2>2 DEF Fits
  <2>4. QED BY <2>1, <2>2, <2>3 DEF n
<1>3. ASSUME op.posts
      PROVE  /\ Posts(op) \in Op /\ Fits(Posts(op)) /\ Posts(op).at = "post"
             /\ Posts(op).kind = op.kind /\ Posts(op).id = op.id
             /\ Posts(op).text = op.text /\ Posts(op).saved = op.saved
             /\ Posts(op).shows = op.shows
  <2> DEFINE n == Posts(op)
  <2>1. n \in Op
    BY <1>1, OpFields DEF Op, Requests, Posts
  <2>2. /\ n.at = "post" /\ n.kind = op.kind /\ n.id = op.id /\ n.text = op.text
        /\ n.saved = op.saved /\ n.shows = op.shows /\ ~n.posts
    BY DEF Op, Posts
  <2> HIDE DEF n
  <2>3. Fits(n)
    BY <1>3, <2>2 DEF Fits
  <2>4. QED BY <2>1, <2>2, <2>3 DEF n
<1>4. ASSUME op.at = "patched"
      PROVE  /\ Saved(op) \in Op /\ Fits(Saved(op)) /\ Saved(op).at = "list"
             /\ Saved(op).kind = op.kind /\ Saved(op).id = op.id
             /\ Saved(op).text = op.text /\ Saved(op).saved
             /\ Saved(op).shows = op.shows
  <2> DEFINE n == Saved(op)
  <2>1. n \in Op
    BY <1>1, OpFields DEF Op, Requests, Saved
  <2>2. /\ n.at = "list" /\ n.kind = op.kind /\ n.id = op.id /\ n.text = op.text
        /\ n.saved /\ n.shows = op.shows /\ n.posts = op.posts
    BY DEF Op, Saved
  <2> HIDE DEF n
  <2>3. Fits(n)
    BY <1>4, <2>2 DEF Fits
  <2>4. QED BY <2>1, <2>2, <2>3 DEF n
<1>5. QED BY <1>2, <1>3, <1>4

\* What the invariant says of the operation whose answer is taken.
LEMMA OpFacts ==
    ASSUME BuilderInv, NEW o \in Ops
    PROVE  /\ ops[o] \in Op /\ Fits(ops[o]) /\ ops[o].id \in Ids \union {NoId}
           /\ ops[o].reply \in Rows
           /\ ops[o].shows => mounted
           /\ ops[o].kind \in {"save", "publish", "voice"} => active \in Ids
           /\ ops[o].shows \in BOOLEAN /\ ops[o].posts \in BOOLEAN
BY OpFields DEF BuilderInv, OpsFit, OpsShow, OpsActive

\* Setting the draft to an answer touches only a builder that is still there.
LEMMA SetDraftShows ==
    ASSUME BuilderInv, NEW o \in Ops, SetDraft(o), ops[o].id \in Ids
    PROVE  draft' \in DraftRow /\ (draft' = draft \/ (mounted /\ draft'.id \in Ids))
BY OpFacts, ShownTyped DEF SetDraft, BuilderInv, PageTypeOK

LEMMA TakeCreatedHolds == ASSUME BuilderInv, NEW o \in Ops, TakeCreated(o) PROVE BuilderInv'
<1> DEFINE op == ops[o]
<1>1. /\ op.at = "created" /\ op \in Op /\ Fits(op) /\ op.id \in Ids /\ op.reply \in Rows
      /\ Becomes(o, Lists(op)) /\ active' = op.id
      /\ UNCHANGED <<rows, listed, mounted, busy, started, apart, faultless>>
  BY OpFacts DEF TakeCreated, Sends, Lists, Fits
<1>2. PageTypeOK /\ PageActive
  BY DEF BuilderInv
<1>3. draft' \in DraftRow /\ text' \in Texts \union {Blank}
      /\ (draft' = draft \/ (mounted /\ draft'.id \in Ids))
  <2>1. CASE mounted /\ active' # active /\ Current(active', listed) # NoId
    <3>1. Effect(active', listed)
      BY <2>1 DEF TakeCreated
    <3>2. Current(active', listed) \in Ids
      BY <1>1, <1>2, <2>1, CurrentIsListed DEF PageTypeOK
    <3>3. draft' = Shown(listed, Current(active', listed))
          /\ text' = listed[Current(active', listed)].plan
      BY <2>1, <3>1 DEF Effect
    <3>4. QED BY <1>2, <2>1, <3>2, <3>3, ShownTyped DEF PageTypeOK
  <2>2. CASE ~(mounted /\ active' # active /\ Current(active', listed) # NoId)
    <3>1. SetDraft(o) /\ SetText(o)
      BY <2>2 DEF TakeCreated
    <3>2. text' \in Texts \union {Blank}
      BY <1>1, <1>2, <3>1, ShownTyped DEF SetText, PageTypeOK
    <3>3. QED BY <1>1, <3>1, <3>2, SetDraftShows
  <2>3. QED BY <2>1, <2>2
<1>4. PageTypeOK' /\ PageActive'
  BY <1>1, <1>2, <1>3 DEF PageTypeOK, PageActive, NoDraft
<1>5. PageTypeOK' /\ OpsFit' /\ OpsShow' /\ PageActive' /\ OpsActive'
  BY <1>1, <1>4, NextRequests, OpFacts, OpMoves
<1>6. ASSUME apart' PROVE Alone'
  <2>1. (\A p \in Ops : p # o => ops[p].at = "idle") /\ Undisturbed(op, rows)
    BY <1>1, <1>6, OnlyOne
  <2>2. Undisturbed(Lists(op), rows') /\ Lists(op).at = "list" /\ Lists(op) \in Op
    BY <1>1, NextRequests DEF Undisturbed, Answered, Fits
  <2>3. rows'[active'].status # "none"
    BY <1>1, <2>1 DEF Undisturbed
  <2>4. QED BY <1>1, <2>1, <2>2, <2>3, AloneMoves
<1>7. QED BY <1>5, <1>6 DEF BuilderInv

LEMMA TakePatchedHolds == ASSUME BuilderInv, NEW o \in Ops, TakePatched(o) PROVE BuilderInv'
<1> DEFINE op == ops[o]
<1>1. /\ op.at = "patched" /\ op \in Op /\ Fits(op) /\ op.id \in Ids /\ op.reply \in Rows
      /\ active \in Ids /\ SetDraft(o) /\ Becomes(o, Saved(op))
      /\ UNCHANGED <<rows, listed, active, text, mounted, busy, started, apart, faultless>>
  BY OpFacts DEF TakePatched, Saved, Fits
<1>2. PageTypeOK /\ PageActive
  BY DEF BuilderInv
<1>3. draft' \in DraftRow /\ (draft' = draft \/ (mounted /\ draft'.id \in Ids))
  BY <1>1, SetDraftShows
<1>4. PageTypeOK' /\ PageActive'
  BY <1>1, <1>2, <1>3 DEF PageTypeOK, PageActive
<1>5. PageTypeOK' /\ OpsFit' /\ OpsShow' /\ PageActive' /\ OpsActive'
  BY <1>1, <1>4, NextRequests, OpFacts, OpMoves
<1>6. ASSUME apart' PROVE Alone'
  <2>1. (\A p \in Ops : p # o => ops[p].at = "idle") /\ Undisturbed(op, rows)
        /\ (active # NoId => rows[active].status # "none")
    BY <1>1, <1>6, OnlyOne
  <2>2. Undisturbed(Saved(op), rows') /\ Saved(op).at = "list" /\ Saved(op) \in Op
    BY <1>1, <2>1, NextRequests DEF Undisturbed, Answered
  <2>3. QED BY <1>1, <2>1, <2>2, AloneMoves
<1>7. QED BY <1>5, <1>6 DEF BuilderInv

LEMMA TakePostedHolds == ASSUME BuilderInv, NEW o \in Ops, TakePosted(o) PROVE BuilderInv'
<1> DEFINE op == ops[o]
<1>1. /\ op.at = "posted" /\ op \in Op /\ Fits(op) /\ op.id \in Ids /\ op.reply \in Rows
      /\ active \in Ids /\ Becomes(o, Lists(op))
      /\ UNCHANGED <<rows, listed, active, busy, started, apart, faultless>>
  BY OpFacts DEF TakePosted, Sends, Lists, Fits
<1>2. PageTypeOK /\ PageActive
  BY DEF BuilderInv
<1>3. /\ draft' \in DraftRow /\ text' \in Texts \union {Blank}
      /\ mounted' \in BOOLEAN /\ (mounted => mounted')
      /\ draft' = draft \/ (mounted' /\ draft'.id \in Ids)
  <2>1. CASE op.kind # "voice"
    <3>1. SetDraft(o) /\ UNCHANGED <<text, mounted>>
      BY <2>1 DEF TakePosted
    <3>2. QED BY <1>1, <1>2, <3>1, SetDraftShows DEF PageTypeOK
  <2>2. CASE op.kind = "voice" /\ mounted
    <3>1. draft' = Shown(op.reply, op.id) /\ text' = op.reply[op.id].plan /\ mounted'
      BY <2>2 DEF TakePosted
    <3>2. mounted' \in BOOLEAN
      BY <2>2 DEF TakePosted
    <3>3. QED BY <1>1, <3>1, <3>2, ShownTyped
  <2>3. CASE op.kind = "voice" /\ ~mounted
    <3>1. Effect(active, listed) /\ mounted' = TRUE
      BY <2>3, <1>2 DEF TakePosted, PageTypeOK
    <3>2. QED BY <1>2, <3>1, EffectShows, ShownTyped DEF PageTypeOK
  <2>4. QED BY <2>1, <2>2, <2>3
<1>4. PageTypeOK' /\ PageActive'
  BY <1>1, <1>2, <1>3 DEF PageTypeOK, PageActive
<1>5. PageTypeOK' /\ OpsFit' /\ OpsShow' /\ PageActive' /\ OpsActive'
  BY <1>1, <1>3, <1>4, NextRequests, OpFacts, OpMoves
<1>6. ASSUME apart' PROVE Alone'
  <2>1. (\A p \in Ops : p # o => ops[p].at = "idle") /\ Undisturbed(op, rows)
        /\ (active # NoId => rows[active].status # "none")
    BY <1>1, <1>6, OnlyOne
  <2>2. Undisturbed(Lists(op), rows') /\ Lists(op).at = "list" /\ Lists(op) \in Op
    BY <1>1, <2>1, NextRequests DEF Undisturbed, Answered
  <2>3. QED BY <1>1, <2>1, <2>2, AloneMoves
<1>7. QED BY <1>5, <1>6 DEF BuilderInv

\* The operation whose list has come, or whose request failed, goes on to
\* publish, or is over.
Resumes(op) == IF op.posts THEN Posts(op) ELSE Idle

LEMMA ResumesFits ==
    ASSUME NEW op \in Op, Fits(op)
    PROVE  /\ Resumes(op) \in Op /\ Fits(Resumes(op))
           /\ Resumes(op).kind \in {"save", "publish", "voice"} => Resumes(op).kind = op.kind
           /\ Resumes(op).shows => op.shows
           /\ Resumes(op).at \in {"idle", "post"}
           /\ Resumes(op).at = "post" => op.posts
           /\ \A server \in Rows : Undisturbed(op, server) => Undisturbed(Resumes(op), server)
<1>1. CASE op.posts
  BY <1>1, NextRequests DEF Resumes, Undisturbed, Answered
<1>2. CASE ~op.posts
  BY <1>2, IdleFits DEF Resumes, Undisturbed, Answered
<1>3. QED BY <1>1, <1>2, OpFields

LEMMA TakeListedHolds == ASSUME BuilderInv, NEW o \in Ops, TakeListed(o) PROVE BuilderInv'
<1> DEFINE op == ops[o]
<1>1. /\ op.at = "listed" /\ op \in Op /\ Fits(op) /\ op.reply \in Rows
      /\ listed' = op.reply /\ Becomes(o, Resumes(op))
      /\ UNCHANGED <<rows, mounted, started, apart, faultless>>
  BY OpFacts DEF TakeListed, Resumes, Posts
<1>2. PageTypeOK /\ PageActive
  BY DEF BuilderInv
<1>3. busy' \in BOOLEAN
  BY <1>1, <1>2, OpFacts DEF TakeListed, SetFree, PageTypeOK
<1>4. /\ active' \in Ids \union {NoId} /\ (active \in Ids => active' \in Ids)
      /\ active' = active \/ op.reply[active'].status = "draft"
      /\ \A h \in Ids : op.reply[h].status = "draft" => active' \in Ids
  BY <1>1, <1>2, FirstDraftIsDraft, NoIdApart DEF TakeListed, PageTypeOK
<1>5. /\ draft' \in DraftRow /\ text' \in Texts \union {Blank}
      /\ \/ UNCHANGED draft
            /\ (mounted => active' = NoId \/ op.reply[active'].status = "none")
         \/ \E h \in Ids : /\ draft' = Shown(op.reply, h) /\ draft'.id = h
                           /\ mounted /\ active' \in Ids
  <2>1. CASE ~mounted
    BY <1>2, <2>1 DEF TakeListed, PageTypeOK
  <2>2. CASE mounted
    <3>1. Effect(active', op.reply)
      BY <1>1, <2>2 DEF TakeListed
    <3>2. draft' \in DraftRow /\ text' \in Texts \union {Blank}
      BY <1>1, <1>2, <1>4, <3>1, EffectShows DEF PageTypeOK
    <3>3. \/ UNCHANGED draft /\ (active' = NoId \/ op.reply[active'].status = "none")
          \/ \E h \in Ids : draft' = Shown(op.reply, h)
                            /\ (h = active' \/ op.reply[h].status = "draft")
      BY <1>1, <1>2, <1>4, <3>1, EffectShows DEF PageTypeOK
    <3>4. QED BY <1>1, <1>4, <2>2, <3>2, <3>3, ShownTyped
  <2>3. QED BY <1>2, <2>1, <2>2 DEF PageTypeOK
<1>6. PageTypeOK'
  BY <1>1, <1>2, <1>3, <1>4, <1>5 DEF PageTypeOK
<1>7. PageActive'
  BY <1>1, <1>2, <1>4, <1>5 DEF PageActive
<1>8. Resumes(op) \in Op /\ Fits(Resumes(op))
  BY <1>1, ResumesFits
<1>9. PageTypeOK' /\ OpsFit' /\ OpsShow' /\ PageActive' /\ OpsActive'
  BY <1>1, <1>4, <1>6, <1>7, <1>8, ResumesFits, OpFacts, OpMoves
<1>10. ASSUME apart' PROVE Alone'
  <2>1. (\A p \in Ops : p # o => ops[p].at = "idle") /\ Undisturbed(op, rows)
        /\ (active # NoId => rows[active].status # "none")
    BY <1>1, <1>10, OnlyOne
  <2>2. op.reply = rows
    BY <1>1, <2>1 DEF Undisturbed, Answered
  <2>3. Undisturbed(Resumes(op), rows')
    BY <1>1, <1>2, <2>1, ResumesFits DEF PageTypeOK
  <2>4. active' # NoId => rows'[active'].status # "none"
    BY <1>1, <1>4, <2>1, <2>2
  <2>5. Agrees'
    <3>1. draft'.id # NoId => draft' = Shown(rows, draft'.id)
      <4>1. CASE UNCHANGED draft /\ (mounted => active' = NoId \/ op.reply[active'].status = "none")
        <5>1. draft = NoDraft
          BY <1>1, <1>2, <1>4, <2>2, <2>4, <4>1, NoIdApart DEF PageActive
        <5>2. QED BY <4>1, <5>1 DEF NoDraft
      <4>2. CASE \E h \in Ids : draft' = Shown(op.reply, h) /\ draft'.id = h
        BY <2>2, <4>2
      <4>3. QED BY <1>5, <4>1, <4>2
    <3>2. QED BY <1>1, <2>2, <3>1 DEF Agrees, Shown
  <2>6. QED BY <1>1, <1>8, <2>1, <2>3, <2>4, <2>5, AloneMoves
<1>11. QED BY <1>9, <1>10 DEF BuilderInv

LEMMA FailHolds == ASSUME BuilderInv, NEW o \in Ops, Fail(o) PROVE BuilderInv'
<1> DEFINE op == ops[o]
<1>1. /\ op.at # "idle" /\ op \in Op /\ Fits(op)
      /\ Becomes(o, Resumes(op)) /\ faultless' = FALSE
      /\ UNCHANGED <<rows, listed, active, draft, text, mounted, started, apart>>
  BY OpFacts DEF Fail, Resumes, Posts
<1>2. busy' \in BOOLEAN
  BY OpFacts DEF Fail, SetFree, BuilderInv, PageTypeOK
<1>3. PageTypeOK' /\ PageActive'
  BY <1>1, <1>2 DEF BuilderInv, PageTypeOK, PageActive
<1>4. Resumes(op) \in Op /\ Fits(Resumes(op))
  BY <1>1, ResumesFits
<1>5. PageTypeOK' /\ OpsFit' /\ OpsShow' /\ PageActive' /\ OpsActive'
  BY <1>1, <1>3, <1>4, ResumesFits, OpFacts, OpMoves
<1>6. ASSUME apart' PROVE Alone'
  <2>1. (\A p \in Ops : p # o => ops[p].at = "idle") /\ Undisturbed(op, rows)
        /\ (active # NoId => rows[active].status # "none")
    BY <1>1, <1>6, OnlyOne
  <2>2. Undisturbed(Resumes(op), rows')
    BY <1>1, <2>1, ResumesFits DEF BuilderInv, PageTypeOK
  <2>3. QED BY <1>1, <1>4, <2>1, <2>2, AloneMoves
<1>7. QED BY <1>5, <1>6 DEF BuilderInv

-----------------------------------------------------------------------------
(* The page *)

\* An operation whose builder has left the page is the same otherwise.
Hidden(op) == [op EXCEPT !.shows = FALSE]

LEMMA HiddenFits ==
    ASSUME NEW op \in Op, Fits(op)
    PROVE  /\ Hidden(op) \in Op /\ Fits(Hidden(op)) /\ ~Hidden(op).shows
           /\ Hidden(op).at = op.at /\ Hidden(op).kind = op.kind
           /\ \A server \in Rows : Undisturbed(op, server) => Undisturbed(Hidden(op), server)
<1> DEFINE n == Hidden(op)
<1>1. n \in Op
  BY OpFields DEF Op, Hidden
<1>2. /\ n.at = op.at /\ n.kind = op.kind /\ n.id = op.id /\ n.text = op.text
      /\ n.saved = op.saved /\ ~n.shows /\ n.posts = op.posts /\ n.reply = op.reply
  BY DEF Op, Hidden
<1> HIDE DEF n
<1>3. Fits(n)
  BY <1>2 DEF Fits
<1>4. \A server \in Rows : Undisturbed(op, server) => Undisturbed(n, server)
  BY <1>2 DEF Undisturbed
<1>5. QED BY <1>1, <1>2, <1>3, <1>4 DEF n

\* The builder leaves the page, and with it what it shows.
LEMMA LeaveHolds == BuilderInv /\ Leave => BuilderInv'
<1> SUFFICES ASSUME BuilderInv, Leave PROVE BuilderInv'
  OBVIOUS
<1>1. /\ ops' = [o \in Ops |-> Hidden(ops[o])]
      /\ mounted' = FALSE /\ draft' = NoDraft /\ text' = Blank /\ busy' = FALSE
      /\ UNCHANGED <<rows, listed, active, started, apart, faultless>>
  BY DEF Leave, Hidden
<1>2. PageTypeOK /\ PageActive /\ OpsFit /\ OpsActive /\ ops \in [Ops -> Op]
  BY DEF BuilderInv, OpsFit
<1>3. PageTypeOK'
  BY <1>1, <1>2 DEF PageTypeOK, NoDraft, DraftRow
<1>4. PageActive'
  BY <1>1, <1>2 DEF PageActive
<1>5. OpsFit' /\ OpsShow' /\ OpsActive'
  BY <1>1, <1>2, HiddenFits DEF OpsFit, OpsShow, OpsActive
<1>6. ASSUME apart' PROVE Alone'
  <2>1. Alone /\ rows \in Rows
    BY <1>1, <1>2, <1>6 DEF BuilderInv, PageTypeOK
  <2>2. \A p \in Ops : ops'[p].at = ops[p].at
    BY <1>1, <1>2, HiddenFits DEF OpsFit
  <2>3. \A p \in Ops : Undisturbed(ops'[p], rows)
    BY <1>1, <1>2, <2>1, HiddenFits DEF OpsFit, Alone
  <2>4. (\A p \in Ops : Undisturbed(ops[p], rows))'
    BY <1>1, <2>3
  <2>5. faultless' /\ AllIdle' => Agrees'
    BY <1>1, <2>1, <2>2 DEF Alone, AllIdle, Agrees, NoDraft
  <2>6. QED BY <1>1, <2>1, <2>2, <2>4, <2>5 DEF Alone
<1>7. QED BY <1>3, <1>4, <1>5, <1>6 DEF BuilderInv

\* A failed refresh takes the user to the login.
LEMMA RefreshFailsHolds == ASSUME BuilderInv, NEW o \in Ops, RefreshFails(o) PROVE BuilderInv'
<1> DEFINE n == IF ops[o].posts THEN Hidden(Posts(ops[o])) ELSE Idle
<1>1. ops \in [Ops -> Op] /\ (\A p \in Ops : Fits(ops[p])) /\ ops[o].at # "idle"
  BY DEF BuilderInv, OpsFit, RefreshFails
<1>2. n = IF ops[o].posts
          THEN [ops[o] EXCEPT !.at = "post", !.posts = FALSE, !.reply = NoRows, !.shows = FALSE]
          ELSE Idle
  BY DEF Hidden, Posts
<1> HIDE DEF n
<1>3. /\ ops' = [p \in Ops |-> IF p # o THEN Hidden(ops[p]) ELSE n]
      /\ mounted' = FALSE /\ draft' = NoDraft /\ text' = Blank /\ busy' = FALSE
      /\ faultless' = FALSE
      /\ UNCHANGED <<rows, listed, active, started, apart>>
  BY <1>2 DEF RefreshFails, Hidden
<1>4. /\ n \in Op /\ Fits(n) /\ ~n.shows
      /\ n.kind \in {"save", "publish", "voice"} => n.kind = ops[o].kind
  <2>1. CASE ops[o].posts
    BY <1>1, <2>1, NextRequests, HiddenFits DEF n
  <2>2. CASE ~ops[o].posts
    BY <1>1, <2>2, IdleFits DEF n
  <2>3. QED BY <2>1, <2>2
<1>5. PageTypeOK /\ PageActive /\ OpsFit /\ OpsActive
  BY DEF BuilderInv
<1>6. PageTypeOK'
  BY <1>3, <1>5 DEF PageTypeOK, NoDraft, DraftRow
<1>7. PageActive'
  BY <1>3, <1>5 DEF PageActive
<1>8. OpsFit' /\ OpsShow' /\ OpsActive'
  BY <1>1, <1>3, <1>4, <1>5, HiddenFits DEF OpsFit, OpsShow, OpsActive
<1>9. ASSUME apart' PROVE Alone'
  <2>1. (\A p \in Ops : p # o => ops[p].at = "idle") /\ Undisturbed(ops[o], rows)
        /\ (active # NoId => rows[active].status # "none") /\ rows \in Rows
    BY <1>1, <1>3, <1>5, <1>9, OnlyOne DEF PageTypeOK
  <2>2. \A p \in Ops : p # o => ops'[p].at = "idle" /\ ops'[p].kind = "refresh"
    BY <1>1, <1>3, <2>1, HiddenFits DEF Fits
  <2>3. Undisturbed(n, rows)
    <3>1. CASE ops[o].posts
      <4>1. Undisturbed(Posts(ops[o]), rows)
        BY <1>1, <2>1, <3>1, ResumesFits DEF Resumes
      <4>2. QED BY <1>1, <2>1, <3>1, <4>1, NextRequests, HiddenFits DEF n
    <3>2. CASE ~ops[o].posts
      BY <3>2, IdleFits DEF n, Undisturbed, Answered
    <3>3. QED BY <3>1, <3>2
  <2>4. (\A p \in Ops : Undisturbed(ops[p], rows))'
    BY <1>3, <2>2, <2>3 DEF Undisturbed, Answered
  <2>5. QED BY <1>3, <2>1, <2>2, <2>4 DEF Alone
<1>10. QED BY <1>6, <1>7, <1>8, <1>9 DEF BuilderInv

\* A new builder shows what the last refresh has listed.
LEMMA OpenHolds == BuilderInv /\ Open => BuilderInv'
<1> SUFFICES ASSUME BuilderInv, Open PROVE BuilderInv'
  OBVIOUS
<1>1. /\ Effect(active, listed) /\ mounted' = TRUE /\ draft = NoDraft
      /\ UNCHANGED <<rows, listed, active, busy, ops, started, apart, faultless>>
  BY DEF Open, BuilderInv, PageActive
<1>2. PageTypeOK /\ PageActive /\ OpsFit /\ OpsShow /\ OpsActive
  BY DEF BuilderInv
<1>3. /\ draft' \in DraftRow /\ text' \in Texts \union {Blank}
      /\ draft' = NoDraft \/ \E h \in Ids : /\ draft' = Shown(listed, h) /\ draft'.id = h
                                            /\ active \in Ids
  BY <1>1, <1>2, EffectShows, ShownTyped DEF PageTypeOK, PageActive
<1>4. PageTypeOK' /\ PageActive'
  BY <1>1, <1>2, <1>3 DEF PageTypeOK, PageActive
<1>5. OpsFit' /\ OpsShow' /\ OpsActive'
  BY <1>1, <1>2 DEF OpsFit, OpsShow, OpsActive
<1>6. ASSUME apart' PROVE Alone'
  <2>1. Alone
    BY <1>1, <1>6 DEF BuilderInv
  <2>2. faultless' /\ AllIdle' => Agrees'
    BY <1>1, <1>3, <2>1 DEF Alone, AllIdle, Agrees, NoDraft, Shown
  <2>3. QED BY <1>1, <2>1, <2>2 DEF Alone
<1>7. QED BY <1>4, <1>5, <1>6 DEF BuilderInv

LEMMA BuilderStep == BuilderInv /\ [BuilderNext]_builderVars => BuilderInv'
<1>1. ASSUME BuilderInv, NEW t \in Texts \union {Blank}, Edit(t) PROVE BuilderInv'
  BY <1>1 DEF Edit, BuilderInv, PageTypeOK, OpsFit, OpsShow, PageActive, OpsActive, Alone, AllIdle,
              Agrees
<1>2. BuilderInv /\ UNCHANGED builderVars => BuilderInv'
  BY DEF builderVars, BuilderInv, PageTypeOK, OpsFit, OpsShow, PageActive, OpsActive, Alone,
         AllIdle, Agrees
<1>3. QED
  BY <1>1, <1>2, ClicksHold, CreateHolds, PatchHolds, PostHolds, ListHolds, TakeCreatedHolds,
     TakePatchedHolds, TakePostedHolds, TakeListedHolds, FailHolds, RefreshFailsHolds,
     LeaveHolds, OpenHolds
  DEF BuilderNext

LEMMA BuilderHolds == Spec => []BuilderInv
<1>1. Init => BuilderInv
  <2> SUFFICES ASSUME BuilderInit PROVE BuilderInv
    BY DEF Init
  <2>1. ops = [o \in Ops |-> Idle] /\ rows = NoRows /\ listed = NoRows /\ draft = NoDraft
        /\ active = NoId
    BY DEF BuilderInit
  <2>2. PageTypeOK
    <3>1. started \in 0..MaxOps
      BY NoIdApart DEF BuilderInit
    <3>2. NoRows \in Rows /\ NoDraft \in DraftRow
      BY DEF NoRows, NoRow, Rows, Row, NoDraft, DraftRow
    <3>3. QED BY <2>1, <3>1, <3>2 DEF BuilderInit, PageTypeOK
  <2>3. OpsFit /\ OpsShow /\ OpsActive
    BY <2>1, IdleFits DEF OpsFit, OpsShow, OpsActive
  <2>4. PageActive
    BY <2>1 DEF PageActive, NoRows, NoRow
  <2>5. Alone
    BY <2>1, IdleFits DEF Alone, Undisturbed, Answered, Agrees, NoDraft
  <2>6. QED BY <2>2, <2>3, <2>4, <2>5 DEF BuilderInv
<1>2. [Next]_vars => [BuilderNext]_builderVars
  BY DEF Next, vars, NextVoice, NextBuilder
<1>3. QED BY <1>1, <1>2, BuilderStep, PTL DEF Spec

-----------------------------------------------------------------------------

\* The voice session and the builder always have their types.
THEOREM TypeCorrect == Spec => []TypeOK
<1>1. VoiceTypeOK /\ BuilderInv => TypeOK
  BY TypesOfParts DEF TypeOK
<1>2. QED BY <1>1, VoiceHolds, BuilderHolds, PTL

\* A plan saved by the click that published it is the plan that is published,
\* if no other operation ran beside it (page.tsx, publish).
THEOREM ApprovalPublishes == Spec => []LoneApprovalPublishes
<1>1. BuilderInv => LoneApprovalPublishes
  <2> SUFFICES ASSUME BuilderInv, NEW o \in Ops,
                      ops[o].kind = "publish", ops[o].at = "posted",
                      apart, ops[o].saved, ops[o].text # Blank
               PROVE  ops[o].reply[ops[o].id] = [status |-> "published", plan |-> ops[o].text]
    BY DEF LoneApprovalPublishes
  <2>1. Undisturbed(ops[o], rows) /\ ops[o].id \in Ids /\ rows \in Rows
    BY OnlyOne, OpFacts DEF Fits, BuilderInv, PageTypeOK
  <2>2. /\ ops[o].reply = rows /\ rows[ops[o].id] \in Row
        /\ rows[ops[o].id].status = "published" /\ rows[ops[o].id].plan = ops[o].text
    BY <2>1 DEF Undisturbed, Answered, Rows
  <2>3. QED BY <2>2 DEF Row
<1>2. QED BY <1>1, BuilderHolds, PTL

\* One operation at a time and no failure: the builder ends up showing the
\* handoff as the server has it (page.tsx, refresh and the effect).
THEOREM PageAgrees == Spec => []LonePageAgrees
<1>1. BuilderInv => LonePageAgrees
  BY DEF BuilderInv, Alone, AllIdle, Agrees, LonePageAgrees
<1>2. QED BY <1>1, BuilderHolds, PTL
=============================================================================
