---------------------------- MODULE VoiceSession ----------------------------
(***************************************************************************)
(* The voice sessions of one page: AriaVoice of AriaVoice.tsx.  connect    *)
(* awaits the token, the microphone and the exchange of descriptions; it   *)
(* hands its peer connection, channel, stream and audio element to the     *)
(* component's refs only after the second of them.  stop, the error event  *)
(* and a closed channel dispose of what the refs hold at that moment.      *)
(***************************************************************************)
EXTENDS Naturals

CONSTANTS MaxAttempts       \* bound: calls of connect

ASSUME AttemptsAssumption == MaxAttempts \in Nat

Attempts == 1..MaxAttempts
NoAttempt == 0

VARIABLES
    shown,      \* the state of the component, what its button shows
    begun,      \* calls of connect so far
    awaits,     \* Attempts -> what connect waits for
    peer,       \* Attempts -> the peer connection, and with it the channel
    mic,        \* Attempts -> the tracks of the microphone
    refs,       \* the attempt whose peer, channel, stream and audio the refs hold
    call,       \* Attempts -> a function call of the session's model
    disturbed   \* a stop while connect waited, or an unreadable message

voiceVars == <<shown, begun, awaits, peer, mic, refs, call, disturbed>>

Closed == {"idle", "error"}         \* the button starts a session
InSession == {"listening", "thinking", "speaking"}
Connecting == {"token", "microphone", "answer"}

VoiceTypeOK ==
    /\ shown \in Closed \union InSession \union {"connecting"}
    /\ begun \in 0..MaxAttempts
    /\ awaits \in [Attempts -> {"never", "over"} \union Connecting]
    /\ peer \in [Attempts -> {"none", "open", "channel", "closed"}]
    /\ mic \in [Attempts -> {"off", "live", "stopped"}]
    /\ refs \in Attempts \union {NoAttempt}
    /\ call \in [Attempts -> {"none", "running", "answered", "unheard"}]
    /\ disturbed \in BOOLEAN

VoiceInit ==
    /\ shown = "idle" /\ begun = 0 /\ refs = NoAttempt /\ disturbed = FALSE
    /\ awaits = [a \in Attempts |-> "never"]
    /\ peer = [a \in Attempts |-> "none"]
    /\ mic = [a \in Attempts |-> "off"]
    /\ call = [a \in Attempts |-> "none"]

\* A mutation: the tracks of the microphone are left running.
KeepTracks(next) ==
    /\ shown' = next /\ refs' = NoAttempt
    /\ peer' = [a \in Attempts |-> IF a = refs THEN "closed" ELSE peer[a]]
    /\ UNCHANGED mic

\* disconnectTransport, and the state set after it.
Disconnect(next) ==
    /\ shown' = next /\ refs' = NoAttempt
    /\ peer' = [a \in Attempts |-> IF a = refs THEN "closed" ELSE peer[a]]
    /\ mic' = [a \in Attempts |-> IF a = refs THEN "stopped" ELSE mic[a]]

Awaits(a, next) == awaits' = [awaits EXCEPT ![a] = next]

-----------------------------------------------------------------------------
(* connect.                                                                *)

Connect ==
    /\ shown \in Closed /\ begun < MaxAttempts
    /\ begun' = begun + 1
    /\ shown' = "connecting"
    /\ Awaits(begun', "token")
    /\ UNCHANGED <<peer, mic, refs, call, disturbed>>

TokenArrives(a) ==
    /\ awaits[a] = "token"
    /\ peer' = [peer EXCEPT ![a] = "open"]
    /\ Awaits(a, "microphone")
    /\ UNCHANGED <<shown, begun, mic, refs, call, disturbed>>

\* The user allows the microphone: the refs take over what is there.
MicrophoneArrives(a) ==
    /\ awaits[a] = "microphone"
    /\ mic' = [mic EXCEPT ![a] = "live"]
    /\ refs' = a
    /\ Awaits(a, "answer")
    /\ UNCHANGED <<shown, begun, peer, call, disturbed>>

\* The descriptions are exchanged, unless the peer was closed meanwhile.
Connected(a) ==
    /\ awaits[a] = "answer" /\ peer[a] = "open"
    /\ Awaits(a, "over")
    /\ UNCHANGED <<shown, begun, peer, mic, refs, call, disturbed>>

\* Whatever raises, the catch clause disposes of what the refs hold by then.
ConnectFails(a) ==
    /\ awaits[a] \in Connecting
    /\ Disconnect("error")
    /\ Awaits(a, "over")
    /\ UNCHANGED <<begun, call, disturbed>>

-----------------------------------------------------------------------------
(* The session's events.                                                   *)

\* The channel opens, or the remote audio starts.
ChannelOpens(a) ==
    /\ awaits[a] = "over" /\ peer[a] = "open" /\ mic[a] # "off"
    /\ peer' = [peer EXCEPT ![a] = "channel"]
    /\ shown' = "listening"
    /\ UNCHANGED <<begun, awaits, mic, refs, call, disturbed>>

\* Speech starts or stops, a transcript arrives, or a response without calls;
\* a message that is no JSON shows an error and leaves the transport alone.
Hears(a) ==
    /\ peer[a] = "channel"
    /\ shown' \in InSession \union {"error"}
    /\ disturbed' = (disturbed \/ shown' = "error")
    /\ UNCHANGED <<begun, awaits, peer, mic, refs, call>>

ErrorEvent(a) ==
    /\ peer[a] = "channel"
    /\ Disconnect("error")
    /\ UNCHANGED <<begun, awaits, call, disturbed>>

\* The other side closes the channel: only that of the refs is disposed of.
ChannelCloses(a) ==
    /\ peer[a] = "channel"
    /\ IF refs = a
       THEN Disconnect("idle")
       ELSE peer' = [peer EXCEPT ![a] = "closed"] /\ UNCHANGED <<shown, mic, refs>>
    /\ UNCHANGED <<begun, awaits, call, disturbed>>

\* response.done with a function call: the page executes it.
CallArrives(a) ==
    /\ peer[a] = "channel" /\ call[a] = "none"
    /\ call' = [call EXCEPT ![a] = "running"]
    /\ shown' = "thinking"
    /\ UNCHANGED <<begun, awaits, peer, mic, refs, disturbed>>

\* Its result, or why it failed, goes to the channel the refs hold by then.
CallEnds(a) ==
    /\ call[a] = "running"
    /\ call' = [call EXCEPT ![a] = IF refs # NoAttempt /\ peer[refs] = "channel"
                                  THEN "answered" ELSE "unheard"]
    /\ UNCHANGED <<shown, begun, awaits, peer, mic, refs, disturbed>>

\* The stop button, or the component leaves the page.
Stop ==
    /\ Disconnect("idle")
    /\ disturbed' = (disturbed \/ \E a \in Attempts : awaits[a] \in Connecting)
    /\ UNCHANGED <<begun, awaits, call>>

VoiceNext ==
    \/ Connect \/ Stop
    \/ \E a \in Attempts :
         \/ TokenArrives(a) \/ MicrophoneArrives(a) \/ Connected(a) \/ ConnectFails(a)
         \/ ChannelOpens(a) \/ Hears(a) \/ ErrorEvent(a) \/ ChannelCloses(a)
         \/ CallArrives(a) \/ CallEnds(a)

-----------------------------------------------------------------------------
(* What the user relies on.                                                *)

\* A session nobody stopped while it connected, and whose messages could be
\* read, leaves no microphone behind: one at most is live, and none while the
\* button offers to start (disconnectTransport on every way out).
LoneMicrophone ==
    ~disturbed =>
        /\ \A a, b \in Attempts : mic[a] = "live" /\ mic[b] = "live" => a = b
        /\ shown \in Closed => \A a \in Attempts : mic[a] # "live"

\* "Closing voice stops local media tracks, the data channel, remote audio,
\* and the peer connection" (docs/architecture.md:183): while voice is closed
\* no microphone is live.
ClosedIsSilent == shown = "idle" => \A a \in Attempts : mic[a] # "live"
=============================================================================
