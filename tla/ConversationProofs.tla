------------------------- MODULE ConversationProofs -------------------------
(***************************************************************************)
(* Proofs about Conversation: type correctness, that _speech_pending       *)
(* counts what is in flight (PendingExact), that no cancelled audio is     *)
(* heard (NoStaleAudio) and that an approval keeps the drawer open         *)
(* (ApprovalVisible).                                                      *)
(*                                                                         *)
(* The count is the controller's, what it counts moves on two other        *)
(* threads and through their signals; a machine phrase is counted by none. *)
(* So the invariant has it that the count never exceeds what is in flight, *)
(* and that a stopped turn counts nothing: audio that is then dropped      *)
(* without being counted down was not counted.                             *)
(***************************************************************************)
EXTENDS Conversation, SequenceTheorems, FiniteSetTheorems, TLAPS

Result == [kind : {"audio", "error"}, fresh : BOOLEAN]

FreshIn(rs) == {i \in DOMAIN rs : rs[i].fresh}

TurnType == [voice : BOOLEAN, origin : {"", "wake", "manual"}, finished : BOOLEAN,
             suppressed : BOOLEAN, complete : BOOLEAN, row : BOOLEAN,
             pending : Nat, guarded : 0..MaxGuarded]

TtsType == [jobs : 0..MaxJobs, running : {"none", "fresh", "stale"}, results : Seq(Result)]

\* What TypeOK says, with the bound of the count left to Counts.
TalkTyped ==
  /\ hal \in HalState /\ manual \in BOOLEAN /\ turn \in TurnType
  /\ timers \in [begin : 0..MaxTimers, follow : 0..MaxTimers]
  /\ mic \in {"wake", "record", "speaking", "muted"}
  /\ heard \in {"nothing", "speech", "silence"} /\ stt \in BOOLEAN
  /\ preparing \in 0..MaxPrompts /\ task \in BOOLEAN
  /\ agent \in [owed : 0..MaxPrompts, streaming : BOOLEAN]
  /\ approvals \in 0..MaxApprovals /\ acts \in 0..MaxActs

SpeechTyped ==
  /\ tts \in TtsType /\ Len(tts.results) <= MaxResults
  /\ buffers \in Seq(BOOLEAN) /\ Len(buffers) <= MaxBuffers
  /\ over \in 0..MaxOver /\ (buffers # <<>> => over < MaxOver)
  /\ phrase \in BOOLEAN

Typed == TalkTyped /\ SpeechTyped

\* The count of the controller against what the threads of speech hold.
Counts ==
  /\ turn.pending <= InFlight
  /\ ~phrase => turn.pending = InFlight
  /\ turn.suppressed => turn.pending = 0

-----------------------------------------------------------------------------
(***************************************************************************)
(* Sequences, and the fresh ones among the results.                        *)
(***************************************************************************)

LEMMA SeqOfBounded ==
  ASSUME NEW S, NEW n \in Nat, NEW s \in Seq(S), Len(s) <= n
  PROVE  s \in SeqOf(S, n)
<1>1. s \in [1..Len(s) -> S] /\ Len(s) \in 0..n
  BY LenProperties
<1> QED BY <1>1 DEF SeqOf

LEMMA FreshCount ==
  ASSUME NEW rs \in Seq(Result)
  PROVE  /\ IsFiniteSet(FreshIn(rs)) /\ Cardinality(FreshIn(rs)) \in Nat
         /\ Cardinality(FreshIn(rs)) <= Len(rs) /\ Len(rs) \in Nat
<1>1. Len(rs) \in Nat /\ DOMAIN rs = 1..Len(rs)
  BY LenProperties
<1>2. IsFiniteSet(1..Len(rs)) /\ Cardinality(1..Len(rs)) = Len(rs)
  BY <1>1, FS_Interval
<1>3. FreshIn(rs) \in SUBSET (1..Len(rs))
  BY <1>1 DEF FreshIn
<1> QED BY <1>1, <1>2, <1>3, FS_Subset, FS_CardinalityType

LEMMA FreshNone ==
  ASSUME NEW rs, \A i \in DOMAIN rs : ~rs[i].fresh
  PROVE  Cardinality(FreshIn(rs)) = 0
BY FS_EmptySet DEF FreshIn

LEMMA FreshAppend ==
  ASSUME NEW rs \in Seq(Result), NEW r \in Result, r.fresh
  PROVE  Cardinality(FreshIn(Append(rs, r))) = Cardinality(FreshIn(rs)) + 1
<1>1. /\ Len(rs) \in Nat /\ DOMAIN rs = 1..Len(rs)
      /\ DOMAIN Append(rs, r) = 1..(Len(rs) + 1)
      /\ \A i \in 1..Len(rs) : Append(rs, r)[i] = rs[i]
      /\ Append(rs, r)[Len(rs) + 1] = r
  BY AppendProperties, LenProperties
<1>2. FreshIn(Append(rs, r)) = FreshIn(rs) \cup {Len(rs) + 1}
  BY <1>1 DEF FreshIn
<1>3. Len(rs) + 1 \notin FreshIn(rs)
  BY <1>1 DEF FreshIn
<1> QED BY <1>2, <1>3, FreshCount, FS_AddElement

LEMMA FreshTail ==
  ASSUME NEW rs \in Seq(Result), rs # <<>>
  PROVE  Cardinality(FreshIn(rs))
           = Cardinality(FreshIn(Tail(rs))) + (IF Head(rs).fresh THEN 1 ELSE 0)
<1>1. /\ Len(rs) \in Nat /\ Len(rs) > 0 /\ DOMAIN rs = 1..Len(rs)
      /\ Tail(rs) \in Seq(Result) /\ DOMAIN Tail(rs) = 1..(Len(rs) - 1)
      /\ \A i \in 1..(Len(rs) - 1) : Tail(rs)[i] = rs[i + 1]
      /\ Head(rs) = rs[1]
  BY HeadTailProperties, LenProperties, EmptySeq
<1> DEFINE A == FreshIn(Tail(rs))
           B == FreshIn(rs) \ {1}
           f == [i \in A |-> i + 1]
<1>2. f \in Bijection(A, B)
  <2>1. \A i \in A : i \in Nat /\ i + 1 \in B
    BY <1>1 DEF FreshIn
  <2>2. \A j \in B : j - 1 \in A /\ j \in Nat
    BY <1>1 DEF FreshIn
  <2>3. f \in Injection(A, B)
    BY <2>1 DEF Injection, IsInjective
  <2>4. \A j \in B : \E i \in A : f[i] = j
    BY <2>2
  <2> QED BY <2>3, <2>4 DEF Bijection, Injection, Surjection
<1>3. IsFiniteSet(A) /\ Cardinality(A) = Cardinality(B) /\ IsFiniteSet(FreshIn(rs))
  BY <1>1, <1>2, FreshCount, FS_Bijection DEF ExistsBijection
<1>4. Cardinality(B) = IF 1 \in FreshIn(rs) THEN Cardinality(FreshIn(rs)) - 1
                       ELSE Cardinality(FreshIn(rs))
  BY <1>3, FS_RemoveElement
<1>5. 1 \in FreshIn(rs) <=> Head(rs).fresh
  BY <1>1 DEF FreshIn
<1>6. Cardinality(FreshIn(rs)) \in Nat
  BY FreshCount
<1> HIDE DEF A, B
<1> QED BY <1>3, <1>4, <1>5, <1>6 DEF A

-----------------------------------------------------------------------------
(***************************************************************************)
(* The operators of the model.                                             *)
(***************************************************************************)

LEMMA HalStates ==
  HalState = {"BOOTING", "STANDBY", "WAKE_DETECTED", "LISTENING", "TRANSCRIBING",
              "THINKING", "TOOL_RUNNING", "WAITING_APPROVAL", "SPEAKING", "MANUAL",
              "ERROR"}
BY DEF HalState, Allowed

\* A transition stays or goes to its target; from WAITING_APPROVAL it goes to
\* what an answer leads to.
LEMMA Transitions ==
  /\ \A h, x : Transition(h, x) \in {h, x}
  /\ Transition("WAITING_APPROVAL", "THINKING") = "THINKING"
BY DEF Transition, Allowed

LEMMA Modes ==
  /\ \A open \in BOOLEAN : Rest(open) \in {"MANUAL", "STANDBY"}
  /\ mic \in {"wake", "record", "speaking", "muted"} =>
       /\ \A b \in BOOLEAN : SetSpeaking(b) \in {"wake", "record", "speaking", "muted"}
       /\ StartRecording \in {"wake", "record", "speaking", "muted"}
BY DEF Rest, SetSpeaking, StartRecording

InFlightOf(t) ==
  t.jobs + (IF t.running = "fresh" THEN 1 ELSE 0) + Cardinality(FreshIn(t.results))

LEMMA InFlightDef == InFlight = InFlightOf(tts) /\ InFlight' = InFlightOf(tts)'
BY DEF InFlight, InFlightOf, FreshIn

LEMMA InFlightNat ==
  ASSUME NEW t \in TtsType
  PROVE  InFlightOf(t) \in Nat
BY FreshCount, ConversationAssumption DEF InFlightOf, TtsType

\* cancelPending leaves nothing in flight that counts.
LEMMA CancelledEmpty ==
  ASSUME NEW t \in TtsType
  PROVE  /\ Cancelled(t) \in TtsType /\ Len(Cancelled(t).results) = Len(t.results)
         /\ Cancelled(t).jobs = 0
         /\ InFlightOf(Cancelled(t)) = 0
<1> DEFINE rs == [i \in DOMAIN t.results |-> [t.results[i] EXCEPT !.fresh = FALSE]]
<1>1. t.results \in Seq(Result) /\ Len(t.results) \in Nat
      /\ DOMAIN t.results = 1..Len(t.results)
  BY LenProperties DEF TtsType
<1>2. \A i \in 1..Len(t.results) : t.results[i] \in Result
  BY <1>1, ElementOfSeq
<1>3. rs \in [1..Len(t.results) -> Result] /\ \A i \in DOMAIN rs : ~rs[i].fresh
  BY <1>1, <1>2 DEF Result
<1>4. rs \in Seq(Result) /\ Len(rs) = Len(t.results)
  BY <1>1, <1>3
<1>5. Cardinality(FreshIn(rs)) = 0
  BY <1>3, FreshNone
<1>6. Cancelled(t) = [jobs |-> 0,
                      running |-> IF t.running = "none" THEN "none" ELSE "stale",
                      results |-> rs]
  BY DEF Cancelled
<1> HIDE DEF rs
<1> QED BY <1>4, <1>5, <1>6, ConversationAssumption DEF TtsType, InFlightOf

LEMMA StopTyped ==
  ASSUME Typed, Stop
  PROVE  /\ buffers' = <<>> /\ buffers' \in Seq(BOOLEAN) /\ Len(buffers') <= MaxBuffers
         /\ over' \in 0..MaxOver
<1>1. over' \in 0..MaxOver /\ buffers' = <<>>
  <2>1. over \in 0..MaxOver /\ (buffers # <<>> => over < MaxOver) /\ MaxOver \in Nat
    BY ConversationAssumption DEF Typed, SpeechTyped
  <2>2. buffers' = <<>> /\ over' = IF buffers = <<>> THEN over ELSE over + 1
    BY DEF Stop
  <2> QED BY <2>1, <2>2
<1>2. Len(<<>>) = 0 /\ <<>> \in Seq(BOOLEAN)
  BY EmptySeq
<1> QED BY <1>1, <1>2, ConversationAssumption

LEMMA SilenceTyped ==
  ASSUME Typed, Silence
  PROVE  /\ tts' \in TtsType /\ Len(tts'.results) <= MaxResults
         /\ InFlight' = 0 /\ phrase' = FALSE
         /\ buffers' = <<>> /\ buffers' \in Seq(BOOLEAN) /\ Len(buffers') <= MaxBuffers
         /\ over' \in 0..MaxOver
<1>1. tts \in TtsType /\ Len(tts.results) <= MaxResults
  BY DEF Typed, SpeechTyped
<1>2. Stop /\ tts' = Cancelled(tts) /\ phrase' = FALSE
  BY DEF Silence
<1>3. InFlight' = InFlightOf(Cancelled(tts))
  BY <1>2, InFlightDef
<1> QED BY <1>1, <1>2, <1>3, StopTyped, CancelledEmpty

\* The turns the handlers make of a turn.
LEMMA Turns ==
  ASSUME NEW t \in TurnType
  PROVE  /\ \A b \in BOOLEAN :
              /\ CancelSpeechOutput(t, b) \in TurnType
              /\ CancelSpeechOutput(t, b).pending = 0
              /\ CancelSpeechOutput(t, b).guarded = 0
              /\ CancelSpeechOutput(t, b).suppressed = b
         /\ Opened(t) \in TurnType /\ Opened(t).pending = 0 /\ ~Opened(t).suppressed
<1>1. 0 \in Nat /\ 0 \in 0..MaxGuarded
  BY ConversationAssumption
<1>2. ASSUME NEW b \in BOOLEAN
      PROVE  /\ CancelSpeechOutput(t, b) \in TurnType
             /\ CancelSpeechOutput(t, b).pending = 0
             /\ CancelSpeechOutput(t, b).guarded = 0
             /\ CancelSpeechOutput(t, b).suppressed = b
  BY <1>1 DEF TurnType, CancelSpeechOutput
<1>3. Opened(t) \in TurnType /\ Opened(t).pending = 0 /\ Opened(t).suppressed = FALSE
  BY <1>1 DEF TurnType, Opened
<1> QED BY <1>2, <1>3

\* What queueing adds: to a stopped turn, nothing.
LEMMA Queueing ==
  ASSUME NEW t \in TurnType, NEW said \in {0, 1}, NEW held \in {0, 1},
         QueueSpeechChunks(t, said, held).guarded <= MaxGuarded
  PROVE  /\ QueueSpeechChunks(t, said, held) \in TurnType
         /\ QueueSpeechChunks(t, said, held).pending = t.pending + Spoken(t, said)
         /\ QueueSpeechChunks(t, said, held).suppressed = t.suppressed
         /\ Spoken(t, said) \in {0, 1}
         /\ t.suppressed => Spoken(t, said) = 0
                            /\ QueueSpeechChunks(t, said, held).guarded = t.guarded
<1>1. \A n \in {0, 1} : Spoken(t, n) \in {0, 1} /\ (t.suppressed => Spoken(t, n) = 0)
  BY DEF Spoken
<1>2. QueueSpeechChunks(t, said, held) =
        [t EXCEPT !.pending = t.pending + Spoken(t, said),
                  !.guarded = t.guarded + Spoken(t, held)]
  BY DEF QueueSpeechChunks, TurnType
<1>3. /\ QueueSpeechChunks(t, said, held).guarded = t.guarded + Spoken(t, held)
      /\ QueueSpeechChunks(t, said, held).pending = t.pending + Spoken(t, said)
      /\ QueueSpeechChunks(t, said, held).suppressed = t.suppressed
  BY <1>2 DEF TurnType
<1>4. t.guarded \in 0..MaxGuarded /\ t.pending \in Nat /\ MaxGuarded \in Nat
  BY ConversationAssumption DEF TurnType
<1>5. t.guarded + Spoken(t, held) \in 0..MaxGuarded
  BY <1>1, <1>3, <1>4
<1>6. t.pending + Spoken(t, said) \in Nat
  BY <1>1, <1>4
<1>7. QueueSpeechChunks(t, said, held) \in TurnType
  BY <1>2, <1>5, <1>6 DEF TurnType
<1> QED BY <1>1, <1>3, <1>4, <1>7

\* _maybe_finish_speech ends the turn or not; it counts nothing.
LEMMA MaybeFinish ==
  ASSUME Typed, NEW t \in TurnType, NEW b, NEW h \in HalState,
         MaybeFinishSpeech(t, b, h)
  PROVE  /\ turn' \in TurnType /\ turn'.pending = t.pending
         /\ turn'.guarded = t.guarded /\ turn'.suppressed = t.suppressed
         /\ hal' \in {h, "MANUAL", "STANDBY"}
         /\ mic' \in {"wake", "record", "speaking", "muted"}
         /\ timers' \in [begin : 0..MaxTimers, follow : 0..MaxTimers]
<1>1. /\ \/ turn' = t
         \/ turn' = [t EXCEPT !.finished = TRUE,
                              !.voice = IF t.origin = "manual" THEN FALSE ELSE @,
                              !.origin = IF t.origin = "manual" THEN "" ELSE @]
      /\ mic' \in {mic, SetSpeaking(FALSE)}
      /\ hal' \in {h, Rest(manual)}
      /\ \/ timers' = timers
         \/ timers.follow < MaxTimers /\ timers' = [timers EXCEPT !.follow = @ + 1]
  BY DEF MaybeFinishSpeech
<1>2. turn' \in TurnType /\ turn'.pending = t.pending
      /\ turn'.guarded = t.guarded /\ turn'.suppressed = t.suppressed
  BY <1>1 DEF TurnType
<1>3. timers' \in [begin : 0..MaxTimers, follow : 0..MaxTimers]
  <2>1. timers \in [begin : 0..MaxTimers, follow : 0..MaxTimers] /\ MaxTimers \in Nat
    BY ConversationAssumption DEF Typed, TalkTyped
  <2>2. timers.follow < MaxTimers => timers.follow + 1 \in 0..MaxTimers
    BY <2>1
  <2> QED BY <1>1, <2>1, <2>2
<1> QED BY <1>1, <1>2, <1>3, Modes DEF Typed, TalkTyped

-----------------------------------------------------------------------------
(***************************************************************************)
(* The parts of the invariant, and who disturbs them.                      *)
(***************************************************************************)

SpeechInv == SpeechTyped /\ Counts /\ NoStaleAudio

\* Handlers that leave speech output and what is counted of the turn alone.
Counted(t) == <<t.pending, t.guarded, t.suppressed>>
Silent == UNCHANGED <<speechVars, Counted(turn)>>

LEMMA SilentKeeps ==
  ASSUME SpeechInv, Silent
  PROVE  SpeechInv'
<1>1. /\ turn'.pending = turn.pending /\ turn'.guarded = turn.guarded
      /\ turn'.suppressed = turn.suppressed
      /\ UNCHANGED <<tts, buffers, over, phrase>>
  BY DEF Silent, Counted, speechVars
<1>2. InFlight' = InFlight
  BY <1>1, InFlightDef
<1> QED
  BY <1>1, <1>2 DEF SpeechInv, SpeechTyped, Counts, NoStaleAudio, OnlyCurrentAudio,
     SuppressedSilent

\* The drawer, the microphone, the approvals, the errors of Hermes.
Manners ==
  \/ FinishBoot \/ OpenManual \/ CloseManual \/ ToggleManualMic \/ ToggleMute
  \/ FinishRecording \/ WakeDetected \/ BeginWakeRecording \/ ContinueVoiceConversation
  \/ UtteranceReady \/ PromptPrepared \/ ToolActivity \/ ApprovalRequested
  \/ RespondApproval \/ HermesError \/ HermesConnected

\* A transcription that is empty or failed.
NoText ==
  /\ stt /\ stt' = FALSE /\ hal' = Rest(manual)
  /\ turn' = [turn EXCEPT !.voice = FALSE] \/ UNCHANGED turn
  /\ UNCHANGED <<manual, timers, mic, heard, speechVars, hermesVars, acts>>

\* Handlers that cancel what was being said.
Cancels ==
  \/ SendText /\ stt' \in {stt, FALSE}
  \/ AssistantStarted \/ StopGeneration \/ StopSpeech
  \/ StopForMachineDegradation \/ TestVoice \/ TtsError

\* The answer, the outbox and the threads of speech.
Speaks ==
  \/ AssistantText \/ AssistantCompleted \/ SpeakMachinePhrase \/ Synthesize
  \/ SynthesisDone \/ SynthesisReady \/ PlayBuffer \/ PlaybackFinished

LEMMA Grouped == Next => Manners \/ NoText \/ Cancels \/ Speaks
BY DEF Next, Operator, Hermes, Program, Manners, NoText, Cancels, Speaks, TypeText,
   Transcription

LEMMA MannersSilent == TalkTyped /\ (Manners \/ NoText) => Silent
<1> SUFFICES ASSUME TalkTyped, Manners \/ NoText PROVE Silent
  OBVIOUS
<1>1. UNCHANGED speechVars
  BY DEF Manners, NoText, FinishBoot, OpenManual, CloseManual, ToggleManualMic, ToggleMute,
     FinishRecording, WakeDetected, BeginWakeRecording, ContinueVoiceConversation,
     UtteranceReady, PromptPrepared, ToolActivity, ApprovalRequested, RespondApproval,
     HermesError, HermesConnected
<1>2. \/ UNCHANGED turn
      \/ turn' = [turn EXCEPT !.voice = FALSE]
      \/ turn' = [turn EXCEPT !.voice = TRUE, !.origin = "manual"]
      \/ turn' = [turn EXCEPT !.voice = TRUE, !.origin = "wake"]
      \/ turn' = [turn EXCEPT !.origin = "wake"]
  BY DEF Manners, NoText, FinishBoot, OpenManual, CloseManual, ToggleManualMic, ToggleMute,
     FinishRecording, WakeDetected, BeginWakeRecording, ContinueVoiceConversation,
     UtteranceReady, PromptPrepared, ToolActivity, ApprovalRequested, RespondApproval,
     HermesError, HermesConnected
<1>3. Counted(turn)' = Counted(turn)
  BY <1>2 DEF Counted, TalkTyped, TurnType
<1> QED BY <1>1, <1>3 DEF Silent

-----------------------------------------------------------------------------
(***************************************************************************)
(* Type correctness, handler by handler.                                   *)
(***************************************************************************)

\* A turn of which voice and origin alone change.
LEMMA TurnManners ==
  ASSUME NEW t \in TurnType
  PROVE  /\ \A b \in BOOLEAN : [t EXCEPT !.voice = b] \in TurnType
         /\ \A b \in BOOLEAN, o \in {"wake", "manual", ""} :
              [t EXCEPT !.voice = b, !.origin = o] \in TurnType
         /\ \A o \in {"wake", "manual"} : [t EXCEPT !.origin = o] \in TurnType
BY DEF TurnType

LEMMA Acts == Act /\ acts \in 0..MaxActs => acts' \in 0..MaxActs
BY ConversationAssumption DEF Act

MicModes == {"wake", "record", "speaking", "muted"}
TimersType == [begin : 0..MaxTimers, follow : 0..MaxTimers]
AgentType == [owed : 0..MaxPrompts, streaming : BOOLEAN]

LEMMA Interrupted ==
  ASSUME agent \in AgentType, Interrupt
  PROVE  agent' \in AgentType
<1>1. 0 \in 0..MaxPrompts
  BY ConversationAssumption
<1>2. [owed |-> 0, streaming |-> FALSE] \in AgentType
  BY <1>1 DEF AgentType
<1> QED BY <1>2 DEF Interrupt

LEMMA TimerSteps ==
  ASSUME NEW t \in TimersType
  PROVE  /\ t.begin < MaxTimers => [t EXCEPT !.begin = @ + 1] \in TimersType
         /\ t.begin > 0 => [t EXCEPT !.begin = @ - 1] \in TimersType
         /\ t.follow > 0 => [t EXCEPT !.follow = @ - 1] \in TimersType
<1>1. t.begin \in 0..MaxTimers /\ t.follow \in 0..MaxTimers /\ MaxTimers \in Nat
  BY ConversationAssumption DEF TimersType
<1>2. /\ t.begin < MaxTimers => t.begin + 1 \in 0..MaxTimers
      /\ t.begin > 0 => t.begin - 1 \in 0..MaxTimers
      /\ t.follow > 0 => t.follow - 1 \in 0..MaxTimers
  BY <1>1
<1> QED BY <1>1, <1>2 DEF TimersType

LEMMA UtteranceStates ==
  ASSUME NEW h \in HalState, NEW open \in BOOLEAN, NEW sound
  PROVE  AfterUtterance(h, open, sound) \in HalState
BY HalStates, Modes DEF AfterUtterance

LEMMA MannersTyped == TalkTyped /\ (Manners \/ NoText) => TalkTyped'
<1> SUFFICES ASSUME TalkTyped, Manners \/ NoText PROVE TalkTyped'
  OBVIOUS
<1> DEFINE Free == UNCHANGED <<timers, preparing, task, agent, approvals, acts>>
<1>0. /\ hal \in HalState /\ manual \in BOOLEAN /\ turn \in TurnType
      /\ timers \in TimersType /\ mic \in MicModes
      /\ heard \in {"nothing", "speech", "silence"} /\ stt \in BOOLEAN
      /\ preparing \in 0..MaxPrompts /\ task \in BOOLEAN /\ agent \in AgentType
      /\ approvals \in 0..MaxApprovals /\ acts \in 0..MaxActs
      /\ MaxPrompts \in Nat /\ MaxApprovals \in Nat
  BY ConversationAssumption DEF TalkTyped, TimersType, MicModes, AgentType
<1>h. /\ \A x \in HalState : Transition(hal, x) \in HalState
      /\ \A b \in BOOLEAN : Rest(b) \in HalState
      /\ \A b \in BOOLEAN : SetSpeaking(b) \in MicModes
      /\ StartRecording \in MicModes
      /\ \A n \in {"STANDBY", "MANUAL", "LISTENING", "WAKE_DETECTED", "ERROR",
                   "THINKING", "TOOL_RUNNING", "WAITING_APPROVAL"} : n \in HalState
  BY <1>0, HalStates, Transitions, Modes DEF MicModes
<1> DEFINE Goal == /\ hal' \in HalState /\ manual' \in BOOLEAN /\ turn' \in TurnType
                   /\ timers' \in TimersType /\ mic' \in MicModes
                   /\ heard' \in {"nothing", "speech", "silence"} /\ stt' \in BOOLEAN
                   /\ preparing' \in 0..MaxPrompts /\ task' \in BOOLEAN /\ agent' \in AgentType
                   /\ approvals' \in 0..MaxApprovals /\ acts' \in 0..MaxActs
<1> SUFFICES Goal
  BY DEF TalkTyped, TimersType, MicModes, AgentType
<1>1. CASE FinishBoot
  BY <1>0, <1>1, <1>h DEF FinishBoot, hermesVars, inputVars
<1>2. CASE OpenManual
  BY <1>0, <1>2, <1>h, Acts DEF OpenManual, hermesVars, inputVars
<1>3. CASE CloseManual
  <2>1. PICK sound \in {"speech", "silence"} :
          /\ hal' \in {AfterUtterance(hal, TRUE, sound), hal, "STANDBY"}
          /\ stt' \in BOOLEAN
    BY <1>0, <1>3 DEF CloseManual
  <2>2. hal' \in HalState
    BY <1>0, <1>h, <2>1, UtteranceStates
  <2>3. turn' \in TurnType
    BY <1>0, <1>3, TurnManners DEF CloseManual
  <2>4. mic' \in MicModes
    BY <1>0, <1>3 DEF CloseManual, MicModes
  <2>5. acts' \in 0..MaxActs
    BY <1>0, <1>3, Acts DEF CloseManual
  <2> QED BY <1>0, <1>3, <2>1, <2>2, <2>3, <2>4, <2>5 DEF CloseManual, hermesVars
<1>4. CASE ToggleManualMic
  <2>1. turn' \in TurnType
    BY <1>0, <1>4, TurnManners DEF ToggleManualMic
  <2>2. mic' \in MicModes /\ hal' \in HalState
    BY <1>0, <1>4, <1>h DEF ToggleManualMic, MicModes
  <2>3. acts' \in 0..MaxActs
    BY <1>0, <1>4, Acts DEF ToggleManualMic
  <2> QED BY <1>0, <1>4, <2>1, <2>2, <2>3 DEF ToggleManualMic, hermesVars, inputVars
<1>5. CASE ToggleMute
  <2>1. mic' \in MicModes /\ acts' \in 0..MaxActs
    BY <1>0, <1>5, Acts DEF ToggleMute, MicModes
  <2> QED BY <1>0, <1>5, <2>1 DEF ToggleMute, hermesVars, inputVars
<1>6. CASE FinishRecording
  BY <1>0, <1>6 DEF FinishRecording, hermesVars, MicModes
<1>7. CASE WakeDetected
  <2>1. turn' \in TurnType /\ timers' \in TimersType /\ acts' \in 0..MaxActs
    BY <1>0, <1>7, TurnManners, TimerSteps, Acts DEF WakeDetected
  <2> QED BY <1>0, <1>7, <1>h, <2>1 DEF WakeDetected, hermesVars, inputVars
<1>8. CASE BeginWakeRecording
  <2>1. timers' \in TimersType
    BY <1>0, <1>8, TimerSteps DEF BeginWakeRecording
  <2> QED BY <1>0, <1>8, <1>h, <2>1 DEF BeginWakeRecording, hermesVars, inputVars
<1>9. CASE ContinueVoiceConversation
  <2>1. timers' \in TimersType /\ turn' \in TurnType
    BY <1>0, <1>9, TimerSteps, TurnManners DEF ContinueVoiceConversation
  <2> QED BY <1>0, <1>9, <1>h, <2>1 DEF ContinueVoiceConversation, hermesVars, inputVars
<1>10. CASE UtteranceReady
  <2>1. turn' \in TurnType /\ stt' \in BOOLEAN /\ hal' \in HalState
    BY <1>0, <1>10, TurnManners, UtteranceStates DEF UtteranceReady
  <2> QED BY <1>0, <1>10, <2>1 DEF UtteranceReady, hermesVars
<1>11. CASE PromptPrepared
  <2>1. agent' \in AgentType
    <3>1. \/ agent' = agent
          \/ agent.owed < MaxPrompts /\ agent' = [agent EXCEPT !.owed = @ + 1]
      BY <1>11 DEF PromptPrepared
    <3>2. agent.owed < MaxPrompts => agent.owed + 1 \in 0..MaxPrompts
      BY <1>0 DEF AgentType
    <3> QED BY <1>0, <3>1, <3>2 DEF AgentType
  <2>2. hal' \in HalState
    BY <1>0, <1>11, <1>h DEF PromptPrepared
  <2>3. preparing' \in 0..MaxPrompts
    BY <1>0, <1>11 DEF PromptPrepared
  <2> QED BY <1>0, <1>11, <2>1, <2>2, <2>3 DEF PromptPrepared, inputVars
<1>12. CASE ToolActivity
  <2>1. agent' \in AgentType
    BY <1>0, <1>12, Interrupted DEF ToolActivity
  <2> QED BY <1>0, <1>12, <1>h, <2>1 DEF ToolActivity, inputVars
<1>13. CASE ApprovalRequested
  <2>1. hal' \in HalState
    <3>1. hal' \in {hal, "MANUAL", "WAITING_APPROVAL"}
      BY <1>13, Transitions DEF ApprovalRequested
    <3> QED BY <1>0, <1>h, <3>1
  <2> QED BY <1>0, <1>13, <2>1 DEF ApprovalRequested, inputVars
<1>14. CASE RespondApproval
  BY <1>0, <1>14, <1>h DEF RespondApproval, inputVars
<1>15. CASE HermesError
  BY <1>0, <1>15, <1>h, Acts DEF HermesError, hermesVars, inputVars
<1>16. CASE HermesConnected
  BY <1>0, <1>16, <1>h DEF HermesConnected, hermesVars, inputVars
<1>17. CASE NoText
  <2>1. turn' \in TurnType
    BY <1>0, <1>17, TurnManners DEF NoText
  <2> QED BY <1>0, <1>17, <1>h, <2>1 DEF NoText, hermesVars
<1> QED
  BY <1>1, <1>2, <1>3, <1>4, <1>5, <1>6, <1>7, <1>8, <1>9, <1>10, <1>11, <1>12, <1>13,
     <1>14, <1>15, <1>16, <1>17 DEF Manners

LEMMA CancelsTyped == TalkTyped /\ Cancels => TalkTyped'
<1> SUFFICES ASSUME TalkTyped, Cancels PROVE TalkTyped'
  OBVIOUS
<1>0. /\ hal \in HalState /\ manual \in BOOLEAN /\ turn \in TurnType
      /\ timers \in TimersType /\ mic \in MicModes
      /\ heard \in {"nothing", "speech", "silence"} /\ stt \in BOOLEAN
      /\ preparing \in 0..MaxPrompts /\ task \in BOOLEAN /\ agent \in AgentType
      /\ approvals \in 0..MaxApprovals /\ acts \in 0..MaxActs
      /\ MaxPrompts \in Nat
  BY ConversationAssumption DEF TalkTyped, TimersType, MicModes, AgentType
<1>h. /\ \A x \in HalState : Transition(hal, x) \in HalState
      /\ \A b \in BOOLEAN : Rest(b) \in HalState
      /\ \A b \in BOOLEAN : SetSpeaking(b) \in MicModes
      /\ \A n \in {"MANUAL", "ERROR", "THINKING"} : n \in HalState
  BY <1>0, HalStates, Transitions, Modes DEF MicModes
<1>t. /\ \A b \in BOOLEAN : CancelSpeechOutput(turn, b) \in TurnType
      /\ Opened(turn) \in TurnType /\ 0 \in Nat /\ 1 \in Nat
  BY <1>0, Turns
<1> DEFINE Goal == /\ hal' \in HalState /\ manual' \in BOOLEAN /\ turn' \in TurnType
                   /\ timers' \in TimersType /\ mic' \in MicModes
                   /\ heard' \in {"nothing", "speech", "silence"} /\ stt' \in BOOLEAN
                   /\ preparing' \in 0..MaxPrompts /\ task' \in BOOLEAN /\ agent' \in AgentType
                   /\ approvals' \in 0..MaxApprovals /\ acts' \in 0..MaxActs
<1> SUFFICES Goal
  BY DEF TalkTyped, TimersType, MicModes, AgentType
<1>1. CASE SendText /\ stt' \in {stt, FALSE}
  <2>1. turn' \in TurnType
    <3>1. turn' = [CancelSpeechOutput(turn, FALSE)
                     EXCEPT !.complete = FALSE, !.finished = FALSE, !.row = FALSE]
      BY <1>1 DEF SendText
    <3> QED BY <1>t, <3>1 DEF TurnType
  <2>2. PICK shown \in {"MANUAL", hal}, x \in {"THINKING", "ERROR"} :
          hal' = Transition(shown, x)
    <3>1. \E available \in BOOLEAN :
             hal' = Transition(IF ~manual /\ turn.origin # "wake" THEN "MANUAL" ELSE hal,
                               IF available THEN "THINKING" ELSE "ERROR")
      BY <1>1 DEF SendText
    <3> QED BY <3>1
  <2>3. hal' \in HalState
    BY <1>0, <1>h, <2>2, Transitions
  <2>4. preparing' \in 0..MaxPrompts
    <3>1. preparing < MaxPrompts /\ preparing' \in {preparing, preparing + 1}
      BY <1>1 DEF SendText
    <3> QED BY <1>0, <3>1
  <2>5. acts' \in 0..MaxActs
    BY <1>0, <1>1, Acts DEF SendText
  <2>6. manual' \in BOOLEAN /\ mic' \in MicModes /\ task' \in BOOLEAN
    BY <1>0, <1>1, <1>h DEF SendText
  <2> QED BY <1>0, <1>1, <2>1, <2>3, <2>4, <2>5, <2>6 DEF SendText
<1>2. CASE AssistantStarted
  <2>1. agent' \in AgentType
    <3>1. agent.owed > 0 /\ agent' = [owed |-> agent.owed - 1, streaming |-> TRUE]
      BY <1>2 DEF AssistantStarted
    <3>2. agent.owed > 0 => agent.owed - 1 \in 0..MaxPrompts
      BY <1>0 DEF AgentType
    <3> QED BY <3>1, <3>2 DEF AgentType
  <2>2. hal' \in HalState /\ turn' \in TurnType
    BY <1>0, <1>2, <1>h, <1>t DEF AssistantStarted, Resumed
  <2> QED BY <1>0, <1>2, <2>1, <2>2 DEF AssistantStarted, inputVars
<1>3. CASE StopGeneration
  <2>1. turn' \in TurnType
    BY <1>3, <1>t, TurnManners DEF StopGeneration
  <2>2. agent' \in AgentType /\ acts' \in 0..MaxActs
    BY <1>0, <1>3, Interrupted, Acts DEF StopGeneration
  <2> QED BY <1>0, <1>3, <1>h, <2>1, <2>2 DEF StopGeneration, inputVars
<1>4. CASE StopSpeech
  <2>1. turn' \in TurnType
    BY <1>4, <1>t, TurnManners DEF StopSpeech
  <2>2. acts' \in 0..MaxActs
    BY <1>0, <1>4, Acts DEF StopSpeech
  <2> QED BY <1>0, <1>4, <1>h, <2>1, <2>2 DEF StopSpeech, inputVars, hermesVars
<1>5. CASE StopForMachineDegradation
  <2>1. agent' \in AgentType
    BY <1>0, <1>5, Interrupted DEF StopForMachineDegradation
  <2> QED BY <1>0, <1>5, <1>h, <1>t, <2>1 DEF StopForMachineDegradation, inputVars
<1>6. CASE TestVoice
  <2>1. turn' \in TurnType
    <3>1. turn' = [CancelSpeechOutput(turn, FALSE) EXCEPT !.finished = FALSE, !.pending = 1]
      BY <1>6 DEF TestVoice
    <3> QED BY <1>t, <3>1 DEF TurnType
  <2>2. acts' \in 0..MaxActs
    BY <1>0, <1>6, Acts DEF TestVoice
  <2> QED BY <1>0, <1>6, <1>h, <2>1, <2>2 DEF TestVoice, inputVars, hermesVars
<1>7. CASE TtsError
  <2>1. turn' \in TurnType
    <3>1. turn' = [turn EXCEPT !.pending = 0, !.complete = TRUE, !.finished = TRUE]
      BY <1>7 DEF TtsError
    <3> QED BY <1>0, <1>t, <3>1 DEF TurnType
  <2> QED BY <1>0, <1>7, <1>h, <2>1 DEF TtsError, inputVars, hermesVars
<1> QED
  BY <1>1, <1>2, <1>3, <1>4, <1>5, <1>6, <1>7 DEF Cancels

\* What a cancelling handler leaves of speech output: what it counts, in an empty room.
Emptied ==
  /\ tts' \in TtsType /\ Len(tts'.results) <= MaxResults
  /\ InFlight' = turn'.pending
  /\ turn'.suppressed => turn'.pending = 0 /\ turn'.guarded = 0
  /\ Stop /\ phrase' = FALSE

LEMMA EmptiedKeeps ==
  ASSUME Typed, Emptied, turn' \in TurnType
  PROVE  SpeechInv'
<1>1. /\ buffers' = <<>> /\ buffers' \in Seq(BOOLEAN) /\ Len(buffers') <= MaxBuffers
      /\ over' \in 0..MaxOver
  BY StopTyped DEF Emptied
<1>2. SpeechTyped'
  BY <1>1 DEF Emptied, SpeechTyped, TtsType
<1>3. Counts'
  <2>1. turn'.pending \in Nat
    BY DEF TurnType
  <2> QED BY <2>1 DEF Emptied, Counts
<1>4. NoStaleAudio'
  BY <1>1 DEF Emptied, NoStaleAudio, OnlyCurrentAudio, SuppressedSilent
<1> QED BY <1>2, <1>3, <1>4 DEF SpeechInv

LEMMA CancelsEmpty == Typed /\ SpeechInv /\ Cancels => Emptied
<1> SUFFICES ASSUME Typed, SpeechInv, Cancels PROVE Emptied
  OBVIOUS
<1>0. turn \in TurnType /\ tts \in TtsType /\ Len(tts.results) <= MaxResults
      /\ MaxJobs \in Nat \ {0}
  BY ConversationAssumption DEF Typed, TalkTyped, SpeechTyped
<1>t. \A b \in BOOLEAN :
        /\ CancelSpeechOutput(turn, b) \in TurnType
        /\ CancelSpeechOutput(turn, b).pending = 0
        /\ CancelSpeechOutput(turn, b).guarded = 0
        /\ CancelSpeechOutput(turn, b).suppressed = b
  BY <1>0, Turns
<1>1. ASSUME Silence, turn'.pending = 0, turn'.suppressed => turn'.guarded = 0
      PROVE  Emptied
  BY <1>1, SilenceTyped DEF Emptied, Silence
<1>2. CASE SendText
  <2>1. /\ turn' = [CancelSpeechOutput(turn, FALSE)
                      EXCEPT !.complete = FALSE, !.finished = FALSE, !.row = FALSE]
        /\ Silence
    BY <1>2 DEF SendText
  <2>2. turn'.pending = 0 /\ turn'.guarded = 0
    BY <1>t, <2>1 DEF TurnType
  <2> QED BY <1>1, <2>1, <2>2
<1>3. CASE AssistantStarted
  <2>1. turn' = Opened(turn) /\ Silence
    BY <1>3 DEF AssistantStarted
  <2>2. turn'.pending = 0 /\ ~turn'.suppressed
    BY <1>0, <2>1, Turns
  <2> QED BY <1>1, <2>1, <2>2
<1>4. CASE StopGeneration
  <2>1. /\ turn' = [CancelSpeechOutput(turn, TRUE) EXCEPT !.voice = FALSE, !.origin = ""]
        /\ Silence
    BY <1>4 DEF StopGeneration
  <2>2. turn'.pending = 0 /\ turn'.guarded = 0
    BY <1>t, <2>1 DEF TurnType
  <2> QED BY <1>1, <2>1, <2>2
<1>5. CASE StopSpeech
  <2>1. turn' = [CancelSpeechOutput(turn, TRUE) EXCEPT !.voice = FALSE] /\ Silence
    BY <1>5 DEF StopSpeech
  <2>2. turn'.pending = 0 /\ turn'.guarded = 0
    BY <1>t, <2>1 DEF TurnType
  <2> QED BY <1>1, <2>1, <2>2
<1>6. CASE StopForMachineDegradation
  <2>1. turn' = CancelSpeechOutput(turn, TRUE) /\ Silence
    BY <1>6 DEF StopForMachineDegradation
  <2> QED BY <1>1, <1>t, <2>1
<1>7. CASE TestVoice
  <2>1. /\ turn' = [CancelSpeechOutput(turn, FALSE) EXCEPT !.finished = FALSE, !.pending = 1]
        /\ tts' = [Cancelled(tts) EXCEPT !.jobs = 1]
        /\ Stop /\ phrase' = FALSE
    BY <1>7 DEF TestVoice
  <2>2. turn'.pending = 1 /\ turn'.suppressed = FALSE
    BY <1>t, <2>1 DEF TurnType
  <2>3. /\ Cancelled(tts) \in TtsType /\ Len(Cancelled(tts).results) <= MaxResults
        /\ Cancelled(tts).jobs = 0 /\ InFlightOf(Cancelled(tts)) = 0
    BY <1>0, CancelledEmpty
  <2>4. /\ tts'.jobs = 1 /\ tts'.running = Cancelled(tts).running
        /\ tts'.results = Cancelled(tts).results
    BY <2>1, <2>3 DEF TtsType
  <2>5. 1 \in 0..MaxJobs
    BY <1>0
  <2>6. tts' \in TtsType
    BY <2>1, <2>3, <2>5 DEF TtsType
  <2>7. InFlight' = 1
    <3> DEFINE n == (IF Cancelled(tts).running = "fresh" THEN 1 ELSE 0)
               c == Cardinality(FreshIn(Cancelled(tts).results))
    <3>1. c \in Nat /\ n \in Nat
      BY <2>3, FreshCount DEF TtsType
    <3>2. 0 = 0 + n + c
      BY <2>3 DEF InFlightOf
    <3>3. InFlight' = 1 + n + c
      BY <2>4, InFlightDef DEF InFlightOf
    <3> HIDE DEF n, c
    <3> QED BY <3>1, <3>2, <3>3
  <2> QED BY <2>1, <2>2, <2>3, <2>4, <2>6, <2>7 DEF Emptied
<1>8. CASE TtsError
  <2>1. /\ tts.results # <<>>
        /\ turn' = [turn EXCEPT !.pending = 0, !.complete = TRUE, !.finished = TRUE]
        /\ tts' = Cancelled([tts EXCEPT !.results = Tail(@)])
        /\ Stop /\ phrase' = FALSE
    BY <1>8 DEF TtsError, HandledResult
  <2>2. turn'.pending = 0 /\ turn'.guarded = turn.guarded
        /\ turn'.suppressed = turn.suppressed
    BY <1>0, <2>1 DEF TurnType
  <2>3. turn.suppressed => turn.guarded = 0
    BY DEF SpeechInv, NoStaleAudio, SuppressedSilent
  <2>4. [tts EXCEPT !.results = Tail(@)] \in TtsType /\ Len(Tail(tts.results)) <= MaxResults
    <3>1. Tail(tts.results) \in Seq(Result) /\ Len(Tail(tts.results)) = Len(tts.results) - 1
          /\ Len(tts.results) \in Nat
      BY <1>0, <2>1, HeadTailProperties, LenProperties DEF TtsType
    <3>2. Len(Tail(tts.results)) <= MaxResults
      BY <1>0, <3>1, ConversationAssumption
    <3> QED BY <1>0, <3>1, <3>2 DEF TtsType
  <2>5. [tts EXCEPT !.results = Tail(@)].results = Tail(tts.results)
    BY <1>0 DEF TtsType
  <2>6. tts' \in TtsType /\ Len(tts'.results) <= MaxResults /\ InFlight' = 0
    BY <2>1, <2>4, <2>5, CancelledEmpty, InFlightDef
  <2> QED BY <2>1, <2>2, <2>3, <2>6 DEF Emptied
<1> QED BY <1>2, <1>3, <1>4, <1>5, <1>6, <1>7, <1>8 DEF Cancels

-----------------------------------------------------------------------------
(***************************************************************************)
(* The answer and the threads of speech.                                   *)
(***************************************************************************)

\* More jobs are that much more in flight.
LEMMA MoreJobs ==
  ASSUME NEW t \in TtsType, NEW n \in Nat, t.jobs + n <= MaxJobs
  PROVE  /\ [t EXCEPT !.jobs = @ + n] \in TtsType
         /\ [t EXCEPT !.jobs = @ + n].results = t.results
         /\ InFlightOf([t EXCEPT !.jobs = @ + n]) = InFlightOf(t) + n
<1> DEFINE u == [t EXCEPT !.jobs = @ + n]
           m == (IF t.running = "fresh" THEN 1 ELSE 0)
           c == Cardinality(FreshIn(t.results))
<1>1. u.jobs = t.jobs + n /\ u.running = t.running /\ u.results = t.results
  BY DEF TtsType
<1>2. t.jobs \in 0..MaxJobs /\ MaxJobs \in Nat /\ c \in Nat /\ m \in Nat
  BY ConversationAssumption, FreshCount DEF TtsType
<1>3. t.jobs + n \in 0..MaxJobs
  BY <1>2
<1>4. u \in TtsType
  BY <1>3 DEF TtsType
<1>5. InFlightOf(u) = t.jobs + n + m + c /\ InFlightOf(t) = t.jobs + m + c
  BY <1>1 DEF InFlightOf
<1> HIDE DEF u, m, c
<1>6. InFlightOf(u) = InFlightOf(t) + n
  BY <1>2, <1>5
<1> QED BY <1>1, <1>4, <1>6 DEF u

\* Handlers of the answer: TalkTyped and what is counted, told apart.
LEMMA AnswerKeeps ==
  ASSUME Typed, SpeechInv,
         NEW t \in TurnType, NEW base \in TtsType, NEW n \in Nat,
         base.jobs + n <= MaxJobs, Len(base.results) <= MaxResults,
         t.pending <= InFlightOf(base), ~phrase' => t.pending = InFlightOf(base),
         t.suppressed => t.pending = 0 /\ t.guarded = 0 /\ buffers' = <<>>,
         t.suppressed => n = 0 /\ turn'.guarded = 0,
         tts' = [base EXCEPT !.jobs = @ + n],
         turn' \in TurnType, turn'.pending = t.pending + n,
         turn'.suppressed = t.suppressed,
         \/ UNCHANGED <<buffers, over, phrase>>
         \/ Stop /\ phrase' = FALSE
  PROVE  SpeechInv'
<1>1. /\ tts' \in TtsType /\ tts'.results = base.results
      /\ InFlight' = InFlightOf(base) + n
  BY MoreJobs, InFlightDef
<1>2. /\ buffers' \in Seq(BOOLEAN) /\ Len(buffers') <= MaxBuffers
      /\ over' \in 0..MaxOver /\ (buffers' # <<>> => over' < MaxOver)
      /\ phrase' \in BOOLEAN /\ (\A i \in DOMAIN buffers' : buffers'[i])
  <2>1. CASE UNCHANGED <<buffers, over, phrase>>
    BY <2>1 DEF SpeechInv, SpeechTyped, NoStaleAudio, OnlyCurrentAudio
  <2>2. CASE Stop /\ phrase' = FALSE
    <3>1. /\ buffers' = <<>> /\ buffers' \in Seq(BOOLEAN) /\ Len(buffers') <= MaxBuffers
          /\ over' \in 0..MaxOver
      BY <2>2, StopTyped
    <3>2. \A i \in DOMAIN <<>> : FALSE
      OBVIOUS
    <3>3. phrase' \in BOOLEAN
      BY <2>2
    <3> QED BY <3>1, <3>2, <3>3
  <2> QED BY <2>1, <2>2
<1>3. SpeechTyped'
  BY <1>1, <1>2 DEF SpeechTyped
<1>4. Counts'
  <2>1. InFlightOf(base) \in Nat /\ t.pending \in Nat
    BY InFlightNat DEF TurnType
  <2>2. /\ turn'.pending <= InFlight'
        /\ ~phrase' => turn'.pending = InFlight'
        /\ t.suppressed => turn'.pending = 0
    BY <1>1, <2>1
  <2> QED BY <2>2 DEF Counts
<1>5. NoStaleAudio'
  BY <1>2 DEF NoStaleAudio, OnlyCurrentAudio, SuppressedSilent
<1> QED BY <1>3, <1>4, <1>5 DEF SpeechInv

LEMMA AssistantTextKeeps ==
  ASSUME Typed, SpeechInv, AssistantText
  PROVE  TalkTyped' /\ SpeechInv'
<1>0. turn \in TurnType /\ tts \in TtsType /\ Len(tts.results) <= MaxResults
  BY DEF Typed, TalkTyped, SpeechTyped
<1> DEFINE t == IF turn.row THEN turn ELSE Opened(turn)
           base == IF turn.row THEN tts ELSE Cancelled(tts)
<1>1. PICK said \in {0, 1}, held \in {0, 1} :
        /\ QueueSpeechChunks(t, said, held).guarded <= MaxGuarded
        /\ base.jobs + Spoken(t, said) <= MaxJobs
        /\ turn' = QueueSpeechChunks(t, said, held)
        /\ tts' = [base EXCEPT !.jobs = @ + Spoken(t, said)]
  BY DEF AssistantText
<1>2. /\ IF turn.row THEN UNCHANGED <<hal, buffers, over, phrase>>
                     ELSE hal' = Resumed(hal) /\ Stop /\ phrase' = FALSE
      /\ UNCHANGED <<manual, timers, mic, inputVars, hermesVars, acts>>
  BY DEF AssistantText
<1>3. /\ t \in TurnType /\ base \in TtsType /\ Len(base.results) <= MaxResults
      /\ ~turn.row => t.pending = 0 /\ ~t.suppressed /\ InFlightOf(base) = 0
  BY <1>0, Turns, CancelledEmpty
<1>4. /\ t.pending <= InFlightOf(base)
      /\ ~phrase' => t.pending = InFlightOf(base)
      /\ t.suppressed => t.pending = 0 /\ t.guarded = 0 /\ buffers' = <<>>
  <2>1. CASE turn.row
    BY <1>2, <2>1, InFlightDef
      DEF SpeechInv, Counts, NoStaleAudio, SuppressedSilent
  <2>2. CASE ~turn.row
    BY <1>3, <2>2
  <2> QED BY <2>1, <2>2
<1>5. /\ turn' \in TurnType /\ turn'.pending = t.pending + Spoken(t, said)
      /\ turn'.suppressed = t.suppressed /\ Spoken(t, said) \in {0, 1}
      /\ t.suppressed => Spoken(t, said) = 0 /\ turn'.guarded = t.guarded
  BY <1>1, <1>3, Queueing
<1>6. \/ UNCHANGED <<buffers, over, phrase>>
      \/ Stop /\ phrase' = FALSE
  BY <1>2
<1> HIDE DEF t, base
<1>7. SpeechInv'
  <2>1. Spoken(t, said) \in Nat
    BY <1>5
  <2>2. t.suppressed => Spoken(t, said) = 0 /\ turn'.guarded = 0
    BY <1>4, <1>5
  <2> QED BY <1>1, <1>3, <1>4, <1>5, <1>6, <2>1, <2>2, AnswerKeeps
<1>8. TalkTyped'
  <2>1. hal' \in HalState
    BY <1>2, HalStates DEF Resumed, Typed, TalkTyped
  <2> QED BY <1>2, <1>5, <2>1 DEF Typed, TalkTyped, inputVars, hermesVars
<1> QED BY <1>7, <1>8

LEMMA AssistantCompletedKeeps ==
  ASSUME Typed, SpeechInv, AssistantCompleted
  PROVE  TalkTyped' /\ SpeechInv'
<1>0. turn \in TurnType /\ tts \in TtsType /\ Len(tts.results) <= MaxResults
      /\ hal \in HalState
  BY DEF Typed, TalkTyped, SpeechTyped
<1> DEFINE Ends(s, h, f) ==
             /\ QueueSpeechChunks(turn, s, h).guarded <= MaxGuarded
             /\ tts.jobs + Spoken(turn, s) + f <= MaxJobs
             /\ tts' = [tts EXCEPT !.jobs = @ + Spoken(turn, s) + f]
             /\ MaybeFinishSpeech([QueueSpeechChunks(turn, s, h)
                                     EXCEPT !.pending = @ + f, !.guarded = 0,
                                            !.complete = TRUE, !.row = TRUE], buffers, hal)
<1>a. PICK said \in {0, 1}, held \in {0, 1} :
        \E f \in FlushGuarded(QueueSpeechChunks(turn, said, held)) : Ends(said, held, f)
  BY DEF AssistantCompleted
<1>b. PICK flushed \in FlushGuarded(QueueSpeechChunks(turn, said, held)) :
        Ends(said, held, flushed)
  BY <1>a
<1>1. Ends(said, held, flushed)
  BY <1>b
<1> DEFINE q == QueueSpeechChunks(turn, said, held)
           t == [q EXCEPT !.pending = @ + flushed, !.guarded = 0,
                          !.complete = TRUE, !.row = TRUE]
           n == Spoken(turn, said) + flushed
<1>2. /\ q \in TurnType /\ q.pending = turn.pending + Spoken(turn, said)
      /\ q.suppressed = turn.suppressed /\ Spoken(turn, said) \in {0, 1}
      /\ turn.suppressed => Spoken(turn, said) = 0 /\ q.guarded = turn.guarded
  BY <1>0, <1>1, Queueing
<1>3. turn.suppressed => turn.pending = 0 /\ turn.guarded = 0 /\ buffers = <<>>
  BY DEF SpeechInv, Counts, NoStaleAudio, SuppressedSilent
<1>4. flushed \in Nat /\ (turn.suppressed => flushed = 0) /\ flushed \in 0..q.guarded
  <2>1. q.guarded \in 0..MaxGuarded /\ MaxGuarded \in Nat
    BY <1>2, ConversationAssumption DEF TurnType
  <2>2. flushed \in 0..(IF SpeechAllowed(q) THEN q.guarded ELSE 0)
    BY <1>1 DEF FlushGuarded
  <2> HIDE DEF q
  <2> QED BY <1>2, <1>3, <2>1, <2>2
<1>5. /\ t \in TurnType /\ t.pending = q.pending + flushed /\ t.guarded = 0
      /\ t.suppressed = q.suppressed
  <2>0. q.pending \in Nat
    BY <1>2 DEF TurnType
  <2>1. q.pending + flushed \in Nat
    BY <1>4, <2>0
  <2>2. 0 \in 0..MaxGuarded
    BY ConversationAssumption
  <2> HIDE DEF q
  <2> QED BY <1>2, <2>1, <2>2 DEF TurnType
<1>6. MaybeFinishSpeech(t, buffers, hal)
  BY <1>1
<1>7. /\ turn' \in TurnType /\ turn'.pending = t.pending
      /\ turn'.guarded = t.guarded /\ turn'.suppressed = t.suppressed
      /\ hal' \in {hal, "MANUAL", "STANDBY"} /\ mic' \in MicModes
      /\ timers' \in TimersType
  <2> HIDE DEF t
  <2> QED BY <1>0, <1>5, <1>6, MaybeFinish DEF MicModes, TimersType
<1>8. n \in Nat /\ tts.jobs + n <= MaxJobs /\ tts' = [tts EXCEPT !.jobs = @ + n]
  <2>1. tts.jobs \in 0..MaxJobs /\ MaxJobs \in Nat
    BY <1>0, ConversationAssumption DEF TtsType
  <2>2. /\ tts.jobs + Spoken(turn, said) + flushed = tts.jobs + n
        /\ n \in Nat
    BY <1>2, <1>4, <2>1
  <2>3. tts' = [tts EXCEPT !.jobs = tts.jobs + n]
    BY <1>0, <1>1, <2>2 DEF TtsType
  <2> QED BY <1>0, <1>1, <2>2, <2>3 DEF TtsType
<1>9. turn'.pending = turn.pending + n
  <2>1. turn.pending \in Nat
    BY <1>0 DEF TurnType
  <2> QED BY <1>2, <1>4, <1>5, <1>7, <2>1
<1>10. /\ turn.pending <= InFlightOf(tts) /\ (~phrase' => turn.pending = InFlightOf(tts))
       /\ UNCHANGED <<buffers, over, phrase>>
       /\ agent' = [agent EXCEPT !.streaming = FALSE]
       /\ UNCHANGED <<manual, inputVars, preparing, task, approvals, acts>>
  BY InFlightDef DEF AssistantCompleted, SpeechInv, Counts
<1>11. /\ turn.suppressed => turn.pending = 0 /\ turn.guarded = 0 /\ buffers' = <<>>
       /\ turn.suppressed => n = 0 /\ turn'.guarded = 0
       /\ turn'.suppressed = turn.suppressed
  BY <1>2, <1>3, <1>4, <1>5, <1>7, <1>10
<1> HIDE DEF q, t, n
<1>12. SpeechInv'
  BY <1>0, <1>7, <1>8, <1>9, <1>10, <1>11, AnswerKeeps
<1>13. TalkTyped'
  <2>1. hal' \in HalState
    BY <1>0, <1>7, HalStates
  <2>2. agent' \in AgentType
    BY <1>10 DEF Typed, TalkTyped, AgentType
  <2> QED BY <1>7, <1>10, <2>1, <2>2 DEF Typed, TalkTyped, inputVars, AgentType, TimersType,
          MicModes
<1> QED BY <1>12, <1>13

\* A phrase of the outbox is in flight and not counted.
LEMMA SpeakMachinePhraseKeeps ==
  ASSUME Typed, SpeechInv, SpeakMachinePhrase
  PROVE  TalkTyped' /\ SpeechInv'
<1>0. tts \in TtsType /\ Len(tts.results) <= MaxResults /\ turn \in TurnType
  BY DEF Typed, TalkTyped, SpeechTyped
<1>1. /\ tts.jobs < MaxJobs /\ phrase' = TRUE /\ tts' = [tts EXCEPT !.jobs = @ + 1]
      /\ Act
      /\ UNCHANGED <<hal, manual, turn, timers, mic, inputVars, buffers, over, hermesVars>>
  BY DEF SpeakMachinePhrase
<1>2. tts.jobs + 1 <= MaxJobs
  BY <1>0, <1>1, ConversationAssumption DEF TtsType
<1>3. tts' \in TtsType /\ tts'.results = tts.results /\ InFlight' = InFlightOf(tts) + 1
  BY <1>0, <1>1, <1>2, MoreJobs, InFlightDef
<1>4. SpeechTyped'
  BY <1>1, <1>3 DEF SpeechInv, SpeechTyped
<1>5. Counts'
  <2>1. turn.pending \in Nat /\ InFlightOf(tts) \in Nat /\ turn.pending <= InFlightOf(tts)
    BY <1>0, InFlightNat, InFlightDef DEF TurnType, SpeechInv, Counts
  <2>2. turn'.pending <= InFlight'
    BY <1>1, <1>3, <2>1
  <2> QED BY <1>1, <2>2 DEF SpeechInv, Counts
<1>6. NoStaleAudio'
  BY <1>1 DEF SpeechInv, NoStaleAudio, OnlyCurrentAudio, SuppressedSilent
<1>7. TalkTyped'
  BY <1>1, Acts DEF Typed, TalkTyped, inputVars, hermesVars
<1> QED BY <1>4, <1>5, <1>6, <1>7 DEF SpeechInv

\* Steps of the speech threads alone, which the controller does not see.
Unseen == UNCHANGED <<hal, manual, turn, timers, mic, inputVars, phrase, hermesVars, acts>>

LEMMA UnseenTyped == TalkTyped /\ Unseen => TalkTyped'
BY DEF Unseen, TalkTyped, inputVars, hermesVars

\* The worker takes a chunk, and signals a result of the current generation only.
LEMMA WorkerKeeps ==
  ASSUME Typed, SpeechInv, Unseen, UNCHANGED <<buffers, over>>,
         tts' \in TtsType, Len(tts'.results) <= MaxResults,
         InFlightOf(tts)' = InFlightOf(tts)
  PROVE  TalkTyped' /\ SpeechInv'
<1>1. turn' = turn /\ phrase' = phrase /\ InFlight' = InFlight
  BY InFlightDef DEF Unseen
<1>2. SpeechTyped'
  BY <1>1 DEF SpeechInv, SpeechTyped
<1>3. Counts' /\ NoStaleAudio'
  BY <1>1 DEF SpeechInv, Counts, NoStaleAudio, OnlyCurrentAudio, SuppressedSilent
<1> QED BY <1>2, <1>3, UnseenTyped DEF Typed, SpeechInv

LEMMA SynthesizeKeeps ==
  ASSUME Typed, SpeechInv, Synthesize
  PROVE  TalkTyped' /\ SpeechInv'
<1>1. /\ tts.jobs > 0 /\ tts.running = "none"
      /\ tts' = [tts EXCEPT !.jobs = @ - 1, !.running = "fresh"]
      /\ Unseen /\ UNCHANGED <<buffers, over>>
  BY DEF Synthesize, Unseen
<1>0. /\ tts \in TtsType /\ Len(tts.results) <= MaxResults
      /\ tts.jobs \in 0..MaxJobs /\ MaxJobs \in Nat
  BY ConversationAssumption DEF Typed, SpeechTyped, TtsType
<1>2. tts.jobs - 1 \in 0..MaxJobs
  BY <1>0, <1>1
<1>3. /\ tts' \in TtsType /\ tts'.jobs = tts.jobs - 1
      /\ tts'.running = "fresh" /\ tts'.results = tts.results
  BY <1>0, <1>1, <1>2 DEF TtsType
<1>4. InFlightOf(tts)' = InFlightOf(tts)
  <2> DEFINE c == Cardinality(FreshIn(tts.results))
  <2>1. c \in Nat
    BY <1>0, FreshCount DEF TtsType
  <2>2. InFlightOf(tts)' = tts.jobs - 1 + 1 + c /\ InFlightOf(tts) = tts.jobs + 0 + c
    BY <1>1, <1>3 DEF InFlightOf
  <2> HIDE DEF c
  <2> QED BY <1>0, <2>1, <2>2
<1> QED BY <1>0, <1>1, <1>3, <1>4, WorkerKeeps

LEMMA SynthesisDoneKeeps ==
  ASSUME Typed, SpeechInv, SynthesisDone
  PROVE  TalkTyped' /\ SpeechInv'
<1>1. /\ tts.running # "none" /\ Len(tts.results) < MaxResults
      /\ Unseen /\ UNCHANGED <<buffers, over>>
  BY DEF SynthesisDone, Unseen
<1>2. PICK kind \in {"audio", "error"} :
        tts' = [tts EXCEPT !.running = "none",
                           !.results = IF tts.running = "stale" THEN @
                                       ELSE Append(@, [kind |-> kind, fresh |-> TRUE])]
  BY DEF SynthesisDone
<1> DEFINE r == [kind |-> kind, fresh |-> TRUE]
<1>0. /\ tts \in TtsType /\ tts.results \in Seq(Result) /\ r \in Result /\ r.fresh
      /\ Len(tts.results) \in Nat /\ MaxResults \in Nat
      /\ tts.jobs \in 0..MaxJobs /\ MaxJobs \in Nat
      /\ Cardinality(FreshIn(tts.results)) \in Nat
  BY ConversationAssumption, LenProperties, FreshCount
     DEF Typed, SpeechTyped, TtsType, Result
<1>3. CASE tts.running = "stale"
  <2>1. /\ tts' \in TtsType /\ tts'.jobs = tts.jobs /\ tts'.running = "none"
        /\ tts'.results = tts.results
    BY <1>0, <1>2, <1>3 DEF TtsType
  <2>2. InFlightOf(tts)' = InFlightOf(tts)
    BY <1>3, <2>1 DEF InFlightOf
  <2>3. Len(tts'.results) <= MaxResults
    BY <1>0, <1>1, <2>1
  <2> QED BY <1>1, <2>1, <2>2, <2>3, WorkerKeeps
<1>4. CASE tts.running = "fresh"
  <2>1. Append(tts.results, r) \in Seq(Result)
        /\ Len(Append(tts.results, r)) = Len(tts.results) + 1
    BY <1>0, AppendProperties
  <2>2. /\ tts' \in TtsType /\ tts'.jobs = tts.jobs /\ tts'.running = "none"
        /\ tts'.results = Append(tts.results, r)
    BY <1>0, <1>2, <1>4, <2>1 DEF TtsType
  <2>3. Cardinality(FreshIn(tts'.results)) = Cardinality(FreshIn(tts.results)) + 1
    BY <1>0, <2>2, FreshAppend
  <2>4. InFlightOf(tts)' = InFlightOf(tts)
    <3> DEFINE c == Cardinality(FreshIn(tts.results))
    <3>1. InFlightOf(tts)' = tts.jobs + 0 + (c + 1) /\ InFlightOf(tts) = tts.jobs + 1 + c
      BY <1>4, <2>2, <2>3 DEF InFlightOf
    <3>2. c \in Nat
      BY <1>0
    <3> HIDE DEF c
    <3> QED BY SMTT(30), <1>0, <3>1, <3>2
  <2>5. Len(tts'.results) <= MaxResults
    BY <1>0, <1>1, <2>1, <2>2
  <2> QED BY <1>1, <2>2, <2>4, <2>5, WorkerKeeps
<1> QED BY <1>0, <1>1, <1>3, <1>4 DEF TtsType

\* The Qt thread handles a result: audio of an old generation was not counted, nor is
\* audio that comes to a stopped turn.
LEMMA SynthesisReadyKeeps ==
  ASSUME Typed, SpeechInv, SynthesisReady
  PROVE  TalkTyped' /\ SpeechInv'
<1>1. /\ tts.results # <<>>
      /\ Len(buffers) < MaxBuffers /\ (buffers # <<>> \/ over < MaxOver)
      /\ tts' = [tts EXCEPT !.results = Tail(@)]
      /\ UNCHANGED <<manual, timers, inputVars, over, phrase, hermesVars, acts>>
  BY DEF SynthesisReady, HandledResult
<1> DEFINE r == Head(tts.results)
           c == Cardinality(FreshIn(tts.results))
           d == Cardinality(FreshIn(Tail(tts.results)))
           m == IF tts.running = "fresh" THEN 1 ELSE 0
<1>0. /\ tts \in TtsType /\ tts.results \in Seq(Result)
      /\ Len(tts.results) \in Nat /\ MaxResults \in Nat /\ Len(tts.results) <= MaxResults
      /\ tts.jobs \in 0..MaxJobs /\ MaxJobs \in Nat
      /\ turn \in TurnType /\ turn.pending \in Nat /\ hal \in HalState
      /\ buffers \in Seq(BOOLEAN) /\ Len(buffers) \in Nat /\ MaxBuffers \in Nat
  BY ConversationAssumption, LenProperties
     DEF Typed, SpeechTyped, TalkTyped, TtsType, TurnType
<1>2. /\ Tail(tts.results) \in Seq(Result) /\ Len(Tail(tts.results)) <= MaxResults
      /\ r \in Result
  <2>1. /\ Tail(tts.results) \in Seq(Result) /\ r \in Result
        /\ Len(Tail(tts.results)) = Len(tts.results) - 1
    BY <1>0, <1>1, HeadTailProperties
  <2> QED BY <1>0, <2>1
<1>3. c \in Nat /\ d \in Nat /\ m \in Nat /\ c = d + (IF r.fresh THEN 1 ELSE 0)
  BY <1>0, <1>1, <1>2, FreshCount, FreshTail
<1>4. /\ tts' \in TtsType /\ tts'.results = Tail(tts.results)
      /\ tts'.jobs = tts.jobs /\ tts'.running = tts.running
  BY <1>0, <1>1, <1>2 DEF TtsType
<1>5. InFlight = tts.jobs + m + c /\ InFlight' = tts.jobs + m + d
  BY <1>4, InFlightDef DEF InFlightOf
<1> HIDE DEF c, d, m
<1>6. CASE Playable(r)
  <2>1. /\ turn' = [turn EXCEPT !.pending = Decremented(@)]
        /\ hal' = Transition(hal, "SPEAKING") /\ mic' = SetSpeaking(TRUE)
        /\ buffers' = Append(buffers, r.fresh)
    BY <1>6 DEF SynthesisReady
  <2>2. r.fresh /\ ~turn.suppressed /\ r.fresh \in BOOLEAN
    BY <1>2, <1>6 DEF Playable, Result
  <2>3. InFlight' = InFlight - 1 /\ InFlight \in Nat /\ InFlight' \in Nat
    <3>1. c = d + 1
      BY <1>3, <2>2
    <3>2. tts.jobs \in Nat
      BY <1>0
    <3> QED BY <1>3, <1>5, <3>1, <3>2
  <2>4. Decremented(turn.pending) \in Nat
        /\ (turn.pending > 0 => Decremented(turn.pending) = turn.pending - 1)
        /\ (turn.pending = 0 => Decremented(turn.pending) = 0)
    BY <1>0 DEF Decremented
  <2>5. /\ turn' \in TurnType /\ turn'.pending = Decremented(turn.pending)
        /\ turn'.suppressed = turn.suppressed /\ turn'.guarded = turn.guarded
    BY <1>0, <2>1, <2>4 DEF TurnType
  <2>6. turn.pending <= InFlight /\ (~phrase => turn.pending = InFlight)
    BY DEF SpeechInv, Counts
  <2>7. turn'.pending <= InFlight' /\ (~phrase' => turn'.pending = InFlight')
    <3>1. phrase' = phrase
      BY <1>1
    <3> QED BY <1>0, <2>3, <2>4, <2>5, <2>6, <3>1
  <2>8. /\ buffers' \in Seq(BOOLEAN) /\ Len(buffers') = Len(buffers) + 1
        /\ \A i \in DOMAIN buffers' : i = Len(buffers) + 1 \/ i \in DOMAIN buffers
        /\ \A i \in DOMAIN buffers : buffers'[i] = buffers[i]
        /\ buffers'[Len(buffers) + 1] = r.fresh
    BY <1>0, <2>1, <2>2, AppendProperties, LenProperties
  <2>9. SpeechTyped'
    <3>1. over < MaxOver /\ over' = over /\ phrase' = phrase
          /\ over \in 0..MaxOver /\ phrase \in BOOLEAN
      BY <1>1 DEF SpeechInv, SpeechTyped
    <3>2. Len(buffers') <= MaxBuffers
      BY <1>0, <1>1, <2>8
    <3> QED BY <1>2, <1>4, <2>8, <3>1, <3>2 DEF SpeechTyped
  <2>10. NoStaleAudio'
    BY <2>2, <2>5, <2>8
       DEF SpeechInv, NoStaleAudio, OnlyCurrentAudio, SuppressedSilent
  <2>11. TalkTyped'
    <3>1. hal' \in HalState
      BY <1>0, <2>1, HalStates, Transitions
    <3>2. mic' \in {"wake", "record", "speaking", "muted"}
      BY <2>1, Modes DEF Typed, TalkTyped
    <3> QED BY <1>1, <2>5, <3>1, <3>2 DEF Typed, TalkTyped, inputVars, hermesVars
  <2>12. Counts'
    BY <2>2, <2>5, <2>7 DEF Counts
  <2> QED BY <2>9, <2>10, <2>11, <2>12 DEF SpeechInv
<1>7. CASE ~Playable(r)
  <2>1. UNCHANGED <<turn, hal, mic, buffers>>
    BY <1>7 DEF SynthesisReady
  <2>2. turn.suppressed \/ ~r.fresh
    BY <1>7 DEF Playable
  <2>3. /\ turn.pending <= InFlight /\ (~phrase => turn.pending = InFlight)
        /\ turn.suppressed => turn.pending = 0
    BY DEF SpeechInv, Counts
  <2>4. turn.pending <= InFlight' /\ (~phrase => turn.pending = InFlight')
    <3>1. tts.jobs \in Nat /\ turn.pending \in Nat
      BY <1>0
    <3>2. CASE r.fresh
      <4>1. c = d + 1 /\ turn.pending = 0
        BY <1>3, <2>2, <2>3, <3>2
      <4> QED BY <1>3, <1>5, <2>3, <3>1, <4>1
    <3>3. CASE ~r.fresh
      <4>1. c = d
        BY <1>3, <3>3
      <4> QED BY <1>5, <2>3, <4>1
    <3> QED BY <3>2, <3>3
  <2>5. SpeechTyped' /\ NoStaleAudio'
    BY <1>1, <1>2, <1>4, <2>1
       DEF SpeechInv, SpeechTyped, NoStaleAudio, OnlyCurrentAudio, SuppressedSilent
  <2>6. TalkTyped'
    BY <1>1, <2>1 DEF Typed, TalkTyped, inputVars, hermesVars
  <2> QED BY <1>1, <2>1, <2>3, <2>4, <2>5, <2>6 DEF SpeechInv, Counts
<1> QED BY <1>6, <1>7

LEMMA PlayBufferKeeps ==
  ASSUME Typed, SpeechInv, PlayBuffer
  PROVE  TalkTyped' /\ SpeechInv'
<1>1. /\ buffers # <<>> /\ buffers' = Tail(buffers)
      /\ over' = IF Len(buffers) = 1 THEN over + 1 ELSE over
      /\ Unseen /\ UNCHANGED tts
  BY DEF PlayBuffer, Unseen
<1>0. /\ buffers \in Seq(BOOLEAN) /\ Len(buffers) \in Nat /\ Len(buffers) <= MaxBuffers
      /\ MaxBuffers \in Nat /\ over \in 0..MaxOver /\ over < MaxOver /\ MaxOver \in Nat
  BY <1>1, ConversationAssumption, LenProperties DEF Typed, SpeechTyped
<1>2. /\ buffers' \in Seq(BOOLEAN) /\ Len(buffers') = Len(buffers) - 1
      /\ Len(buffers) > 0 /\ DOMAIN buffers = 1..Len(buffers)
      /\ DOMAIN buffers' = 1..(Len(buffers) - 1)
      /\ \A i \in 1..(Len(buffers) - 1) : buffers'[i] = buffers[i + 1]
  BY <1>0, <1>1, HeadTailProperties, LenProperties, EmptySeq
<1>3. \A i \in DOMAIN buffers' : i + 1 \in DOMAIN buffers /\ buffers'[i] = buffers[i + 1]
  BY <1>0, <1>2
<1>4. OnlyCurrentAudio'
  BY <1>3 DEF SpeechInv, NoStaleAudio, OnlyCurrentAudio
<1>5. turn' = turn /\ phrase' = phrase /\ InFlight' = InFlight
  BY <1>1, InFlightDef DEF Unseen
<1>6. SuppressedSilent' /\ Counts'
  BY <1>1, <1>5 DEF SpeechInv, Counts, NoStaleAudio, SuppressedSilent
<1>7. over' \in 0..MaxOver /\ (buffers' # <<>> => over' < MaxOver)
      /\ Len(buffers') <= MaxBuffers
  <2>1. buffers' # <<>> => Len(buffers) # 1
    BY <1>0, <1>2, EmptySeq
  <2> QED BY <1>0, <1>1, <1>2, <2>1
<1>8. SpeechTyped'
  BY <1>1, <1>2, <1>5, <1>7 DEF SpeechInv, SpeechTyped
<1> QED BY <1>1, <1>4, <1>6, <1>8, UnseenTyped DEF Typed, SpeechInv, NoStaleAudio

LEMMA PlaybackFinishedKeeps ==
  ASSUME Typed, SpeechInv, PlaybackFinished
  PROVE  TalkTyped' /\ SpeechInv'
<1>1. /\ over > 0 /\ over' = over - 1 /\ MaybeFinishSpeech(turn, buffers, hal)
      /\ UNCHANGED <<manual, inputVars, tts, buffers, phrase, hermesVars, acts>>
  BY DEF PlaybackFinished
<1>2. /\ turn' \in TurnType /\ turn'.pending = turn.pending
      /\ turn'.guarded = turn.guarded /\ turn'.suppressed = turn.suppressed
      /\ hal' \in {hal, "MANUAL", "STANDBY"}
      /\ mic' \in {"wake", "record", "speaking", "muted"}
      /\ timers' \in [begin : 0..MaxTimers, follow : 0..MaxTimers]
  BY <1>1, MaybeFinish DEF Typed, TalkTyped
<1>3. over' \in 0..MaxOver /\ (buffers' # <<>> => over' < MaxOver)
  <2>1. over \in 0..MaxOver /\ (buffers # <<>> => over < MaxOver) /\ MaxOver \in Nat
    BY ConversationAssumption DEF Typed, SpeechTyped
  <2> QED BY <1>1, <2>1
<1>4. SpeechTyped'
  BY <1>1, <1>3 DEF SpeechInv, SpeechTyped
<1>5. InFlight' = InFlight
  BY <1>1, InFlightDef
<1>6. Counts' /\ NoStaleAudio'
  BY <1>1, <1>2, <1>5 DEF SpeechInv, Counts, NoStaleAudio, OnlyCurrentAudio, SuppressedSilent
<1>7. TalkTyped'
  BY <1>1, <1>2, HalStates DEF Typed, TalkTyped, inputVars, hermesVars
<1> QED BY <1>4, <1>6, <1>7 DEF SpeechInv

-----------------------------------------------------------------------------
(***************************************************************************)
(* Approvals.                                                              *)
(***************************************************************************)

ApprovalsKept == UNCHANGED approvals /\ (manual => manual') /\
                 (hal' = "WAITING_APPROVAL" => hal = "WAITING_APPROVAL")

\* Nothing but a request makes HAL wait for an approval, and nothing but the operator
\* closes the drawer.
LEMMA ApprovalStep ==
  ASSUME Typed, ApprovalVisible, Next
  PROVE  ApprovalVisible'
<1>0. /\ manual \in BOOLEAN /\ approvals \in Nat
      /\ \A b \in BOOLEAN : Rest(b) # "WAITING_APPROVAL"
      /\ \A h, x : Transition(h, x) \in {h, x}
  BY Modes, Transitions, ConversationAssumption DEF Typed, TalkTyped
<1>1. ASSUME ApprovalsKept PROVE ApprovalVisible'
  BY <1>1 DEF ApprovalsKept, ApprovalVisible
<1>2. CASE FinishBoot
  BY <1>0, <1>1, <1>2 DEF FinishBoot, hermesVars, ApprovalsKept
<1>3. CASE OpenManual
  BY <1>1, <1>3 DEF OpenManual, hermesVars, ApprovalsKept
<1>4. CASE CloseManual
  <2>1. approvals = 0 /\ approvals' = approvals
    BY <1>0, <1>4 DEF CloseManual, HasPendingApproval, hermesVars
  <2>2. hal # "WAITING_APPROVAL"
    BY <2>1 DEF ApprovalVisible
  <2>3. PICK sound \in {"speech", "silence"} :
          hal' \in {AfterUtterance(hal, TRUE, sound), hal, "STANDBY"}
    BY <1>4 DEF CloseManual
  <2>4. hal' # "WAITING_APPROVAL"
    BY <1>0, <2>2, <2>3 DEF AfterUtterance
  <2> QED BY <2>1, <2>4 DEF ApprovalVisible
<1>5. CASE ToggleManualMic
  BY <1>1, <1>5 DEF ToggleManualMic, hermesVars, ApprovalsKept
<1>6. CASE ToggleMute \/ FinishRecording \/ Unseen
  BY <1>1, <1>6 DEF ToggleMute, FinishRecording, Unseen, hermesVars, ApprovalsKept
<1>7. CASE WakeDetected
  BY <1>1, <1>7 DEF WakeDetected, hermesVars, ApprovalsKept
<1>8. CASE BeginWakeRecording
  BY <1>0, <1>1, <1>8 DEF BeginWakeRecording, hermesVars, ApprovalsKept
<1>9. CASE ContinueVoiceConversation
  BY <1>0, <1>1, <1>9 DEF ContinueVoiceConversation, hermesVars, ApprovalsKept
<1>10. CASE UtteranceReady
  <2>1. hal' = "WAITING_APPROVAL" => hal = "WAITING_APPROVAL"
    BY <1>0, <1>10 DEF UtteranceReady, AfterUtterance
  <2> QED BY <1>1, <1>10, <2>1 DEF UtteranceReady, hermesVars, ApprovalsKept
<1>11. CASE PromptPrepared
  <2>1. hal' \in {hal, Transition(hal, "ERROR")}
    BY <1>11 DEF PromptPrepared
  <2> QED BY <1>0, <1>1, <1>11, <2>1 DEF PromptPrepared, ApprovalsKept
<1>12. CASE ToolActivity
  BY <1>0, <1>1, <1>12 DEF ToolActivity, ApprovalsKept
<1>13. CASE ApprovalRequested
  BY <1>0, <1>13 DEF ApprovalRequested, ApprovalVisible
<1>14. CASE RespondApproval
  <2>1. hal' # "WAITING_APPROVAL"
    BY <1>0, <1>14, Transitions DEF RespondApproval
  <2>2. approvals > 0 /\ manual' = manual
    BY <1>14 DEF RespondApproval
  <2> QED BY <2>1, <2>2 DEF ApprovalVisible
<1>15. CASE HermesError
  BY <1>0, <1>1, <1>15 DEF HermesError, hermesVars, ApprovalsKept
<1>16. CASE HermesConnected
  BY <1>0, <1>1, <1>16 DEF HermesConnected, hermesVars, ApprovalsKept
<1>17. CASE NoText
  BY <1>0, <1>1, <1>17 DEF NoText, hermesVars, ApprovalsKept
<1>18. CASE SendText
  <2>1. hal' = "WAITING_APPROVAL" => hal = "WAITING_APPROVAL"
    <3>1. \E available \in BOOLEAN :
             hal' = Transition(IF ~manual /\ turn.origin # "wake" THEN "MANUAL" ELSE hal,
                               IF available THEN "THINKING" ELSE "ERROR")
      BY <1>18 DEF SendText
    <3> QED BY <1>0, <3>1
  <2> QED BY <1>1, <1>18, <2>1 DEF SendText, ApprovalsKept
<1>19. CASE AssistantStarted \/ AssistantText
  BY <1>1, <1>19 DEF AssistantStarted, AssistantText, Resumed, hermesVars, ApprovalsKept
<1>20. CASE AssistantCompleted
  <2>1. \E t : MaybeFinishSpeech(t, buffers, hal)
    BY <1>20 DEF AssistantCompleted
  <2>2. hal' \in {hal, Rest(manual)}
    BY <2>1 DEF MaybeFinishSpeech
  <2> QED BY <1>0, <1>1, <1>20, <2>2 DEF AssistantCompleted, ApprovalsKept
<1>21. CASE PlaybackFinished
  <2>1. hal' \in {hal, Rest(manual)}
    BY <1>21 DEF PlaybackFinished, MaybeFinishSpeech
  <2> QED BY <1>0, <1>1, <1>21, <2>1 DEF PlaybackFinished, hermesVars, ApprovalsKept
<1>22. CASE StopGeneration \/ StopSpeech \/ StopForMachineDegradation \/ TtsError
  <2>1. hal' \in {Rest(manual), Transition(hal, "ERROR")}
    BY <1>22 DEF StopGeneration, StopSpeech, StopForMachineDegradation, TtsError
  <2>2. UNCHANGED <<manual, approvals>>
    BY <1>22 DEF StopGeneration, StopSpeech, StopForMachineDegradation, TtsError, hermesVars
  <2> QED BY <1>0, <1>1, <2>1, <2>2 DEF ApprovalsKept
<1>23. CASE TestVoice \/ SpeakMachinePhrase
  BY <1>1, <1>23 DEF TestVoice, SpeakMachinePhrase, hermesVars, ApprovalsKept
<1>24. CASE SynthesisReady
  <2>1. hal' \in {hal, Transition(hal, "SPEAKING")}
    BY <1>24 DEF SynthesisReady
  <2> QED BY <1>0, <1>1, <1>24, <2>1 DEF SynthesisReady, hermesVars, ApprovalsKept
<1>25. Synthesize \/ SynthesisDone \/ PlayBuffer => Unseen
  BY DEF Synthesize, SynthesisDone, PlayBuffer, Unseen
<1> QED
  BY <1>2, <1>3, <1>4, <1>5, <1>6, <1>7, <1>8, <1>9, <1>10, <1>11, <1>12, <1>13, <1>14,
     <1>15, <1>16, <1>17, <1>18, <1>19, <1>20, <1>21, <1>22, <1>23, <1>24, <1>25, Grouped
     DEF Manners, Cancels, Speaks

-----------------------------------------------------------------------------
(***************************************************************************)
(* The theorems.                                                           *)
(***************************************************************************)

Inv == Typed /\ SpeechInv /\ ApprovalVisible

LEMMA InvInit == Init => Inv
<1> SUFFICES ASSUME Init PROVE Inv
  OBVIOUS
<1>0. /\ 0 \in Nat /\ 0 \in 0..MaxJobs /\ 0 \in 0..MaxOver /\ 0 \in 0..MaxGuarded
      /\ 0 \in 0..MaxTimers /\ 0 \in 0..MaxPrompts /\ 0 \in 0..MaxApprovals
      /\ 0 \in 0..MaxActs /\ MaxResults \in Nat /\ MaxBuffers \in Nat
  BY ConversationAssumption
<1>1. /\ <<>> \in Seq(Result) /\ <<>> \in Seq(BOOLEAN) /\ Len(<<>>) = 0
      /\ (\A i \in DOMAIN <<>> : FALSE)
  BY EmptySeq
<1>2. turn \in TurnType /\ turn.pending = 0 /\ turn.suppressed = FALSE
  BY <1>0 DEF Init, TurnType
<1>3. tts \in TtsType /\ tts.results = <<>> /\ tts.jobs = 0 /\ tts.running = "none"
  BY <1>0, <1>1 DEF Init, TtsType
<1>4. TalkTyped
  BY <1>0, <1>2, HalStates DEF Init, TalkTyped
<1>5. SpeechTyped
  <2>1. buffers = <<>> /\ over = 0 /\ phrase \in BOOLEAN
    BY DEF Init
  <2>2. buffers \in Seq(BOOLEAN) /\ Len(buffers) <= MaxBuffers /\ Len(tts.results) <= MaxResults
    BY <1>0, <1>1, <1>3, <2>1
  <2> QED BY <1>0, <1>3, <2>1, <2>2 DEF SpeechTyped
<1>6. Cardinality(FreshIn(tts.results)) = 0
  BY <1>1, <1>3, FreshNone
<1>7. InFlight = 0
  BY <1>3, <1>6, InFlightDef DEF InFlightOf
<1>8. Counts
  BY <1>2, <1>7 DEF Counts
<1>9. NoStaleAudio
  BY <1>1, <1>2 DEF Init, NoStaleAudio, OnlyCurrentAudio, SuppressedSilent
<1>10. ApprovalVisible
  <2>1. approvals = 0 /\ hal = "BOOTING"
    BY DEF Init
  <2> QED BY <2>1 DEF ApprovalVisible
<1> QED BY <1>4, <1>5, <1>8, <1>9, <1>10 DEF Inv, Typed, SpeechInv

LEMMA InvNext == Inv /\ [Next]_vars => Inv'
<1> SUFFICES ASSUME Typed, SpeechInv, ApprovalVisible, [Next]_vars PROVE Inv'
  BY DEF Inv
<1>1. CASE Next
  <2>0. ApprovalVisible'
    BY <1>1, ApprovalStep
  <2>1. CASE Manners \/ NoText
    BY <2>0, <2>1, MannersSilent, SilentKeeps, MannersTyped DEF Inv, Typed, SpeechInv
  <2>2. CASE Cancels
    <3>1. TalkTyped' /\ Emptied
      BY <2>2, CancelsTyped, CancelsEmpty DEF Typed
    <3>2. SpeechInv'
      BY <3>1, EmptiedKeeps DEF TalkTyped
    <3> QED BY <2>0, <3>1, <3>2 DEF Inv, Typed, SpeechInv
  <2>3. CASE Speaks
    <3>1. TalkTyped' /\ SpeechInv'
      BY <2>3, AssistantTextKeeps, AssistantCompletedKeeps, SpeakMachinePhraseKeeps,
         SynthesizeKeeps, SynthesisDoneKeeps, SynthesisReadyKeeps, PlayBufferKeeps,
         PlaybackFinishedKeeps DEF Speaks
    <3> QED BY <2>0, <3>1 DEF Inv, Typed, SpeechInv
  <2> QED BY <1>1, <2>1, <2>2, <2>3, Grouped
<1>2. CASE UNCHANGED vars
  <2>1. TalkTyped' /\ SpeechTyped'
    BY <1>2 DEF vars, inputVars, speechVars, hermesVars, Typed, TalkTyped, SpeechTyped
  <2>2. Silent /\ UNCHANGED <<hal, manual, approvals>>
    BY <1>2 DEF vars, hermesVars, Silent, Counted
  <2> QED BY <2>1, <2>2, SilentKeeps DEF Inv, Typed, SpeechInv, ApprovalVisible
<1> QED BY <1>1, <1>2

LEMMA Invariant == Spec => []Inv
BY InvInit, InvNext, PTL DEF Spec

\* TypeOK bounds the count by what can be in flight at all.
LEMMA TypeOf == Inv => TypeOK
<1> SUFFICES ASSUME Typed, Counts PROVE TypeOK
  BY DEF Inv, SpeechInv
<1>1. /\ tts \in TtsType /\ turn \in TurnType /\ Len(tts.results) <= MaxResults
      /\ MaxResults \in Nat /\ MaxBuffers \in Nat /\ MaxJobs \in Nat
      /\ buffers \in Seq(BOOLEAN) /\ Len(buffers) <= MaxBuffers
  BY ConversationAssumption DEF Typed, SpeechTyped, TalkTyped
<1>2. turn.pending \in 0..(MaxJobs + MaxResults + 1)
  <2> DEFINE c == Cardinality(FreshIn(tts.results))
             m == IF tts.running = "fresh" THEN 1 ELSE 0
  <2>0. tts.results \in Seq(Result) /\ m \in 0..1
    BY <1>1 DEF TtsType
  <2>1. c \in Nat /\ c <= Len(tts.results) /\ Len(tts.results) \in Nat
    BY <2>0, FreshCount
  <2>3. tts.jobs \in 0..MaxJobs /\ turn.pending \in Nat
    BY <1>1 DEF TtsType, TurnType
  <2>2. turn.pending <= tts.jobs + m + c
    BY InFlightDef DEF Counts, InFlightOf
  <2> HIDE DEF c, m
  <2> QED BY <1>1, <2>0, <2>1, <2>2, <2>3
<1>3. tts.results \in SeqOf(Result, MaxResults) /\ buffers \in SeqOf(BOOLEAN, MaxBuffers)
  BY <1>1, SeqOfBounded DEF TtsType
<1>4. tts \in [jobs : 0..MaxJobs, running : {"none", "fresh", "stale"},
               results : SeqOf([kind : {"audio", "error"}, fresh : BOOLEAN], MaxResults)]
  BY <1>1, <1>3 DEF TtsType, Result
<1>5. turn \in [voice : BOOLEAN, origin : {"", "wake", "manual"}, finished : BOOLEAN,
                suppressed : BOOLEAN, complete : BOOLEAN, row : BOOLEAN,
                pending : 0..(MaxJobs + MaxResults + 1), guarded : 0..MaxGuarded]
  BY <1>1, <1>2 DEF TurnType
<1> QED BY <1>3, <1>4, <1>5 DEF Typed, TalkTyped, SpeechTyped, TypeOK

\* Every field of the controller, the state machine and the speech threads stays in its
\* type, the queues within their bounds.
THEOREM TypeCorrect == Spec => []TypeOK
BY Invariant, TypeOf, PTL

\* _speech_pending is the number of chunks that are still to be heard of, as long as
\* the outbox has not spoken since the last cancellation.
THEOREM PendingIsExact == Spec => []PendingExact
<1>1. Inv => PendingExact
  BY TypeOf DEF Inv, SpeechInv, Counts, PendingExact
<1> QED BY <1>1, Invariant, PTL

\* No audio of a cancelled answer is played or queued, and after "stop" nothing is.
THEOREM NoAudioIsStale == Spec => []NoStaleAudio
<1>1. Inv => NoStaleAudio
  BY DEF Inv, SpeechInv
<1> QED BY <1>1, Invariant, PTL

\* An unresolved approval keeps the drawer open, and HAL waits for an approval only
\* while there is one.
THEOREM ApprovalsAreVisible == Spec => []ApprovalVisible
<1>1. Inv => ApprovalVisible
  BY DEF Inv
<1> QED BY <1>1, Invariant, PTL
=============================================================================
