----------------------------- MODULE MCBrowser -----------------------------
(***************************************************************************)
(* Small instances of VoiceSession and HandoffBuilder.  They run in one    *)
(* page but share no state: a behaviour follows one of them (approve by    *)
(* voice is an operation of the builder).                                  *)
(***************************************************************************)
EXTENDS VoiceSession, HandoffBuilder, TLC

CONSTANTS o1, o2

VARIABLE part       \* the part of the page a behaviour follows

vars == <<voiceVars, builderVars, part>>

Init == VoiceInit /\ BuilderInit /\ part \in {"voice", "builder"}
NextVoice == part = "voice" /\ VoiceNext /\ UNCHANGED <<builderVars, part>>
NextBuilder == part = "builder" /\ BuilderNext /\ UNCHANGED <<voiceVars, part>>

Next == NextVoice \/ NextBuilder

Spec == Init /\ [][Next]_vars

\* Transport, refs, rows, page and operations have their types.
TypeOK == VoiceTypeOK /\ BuilderTypeOK

Symmetry == Permutations(Ops)
=============================================================================
