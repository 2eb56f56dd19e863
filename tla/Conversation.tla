---------------------------- MODULE Conversation ----------------------------
(***************************************************************************)
(* A conversation with HAL: the controller's turn, the state machine it    *)
(* shows (HalStateMachine), speech synthesis (TtsManager), playback        *)
(* (AudioPlayback), the microphone (AudioCoordinator) and transcription.   *)
(*                                                                         *)
(* Every handler runs to its end on the Qt thread.  The TTS executor, the  *)
(* playback thread, the audio thread and the STT executor work beside it   *)
(* and talk to it through queued signals only.  A worker may be delayed    *)
(* between its last test and its signal, so the signals of one thread      *)
(* arrive in order and those of different threads in any order: each       *)
(* thread has a queue of its own here.                                     *)
(*                                                                         *)
(* A speech generation is only ever compared with the current one, so each *)
(* piece of speech carries whether its generation still is (fresh).  Text  *)
(* is abstracted to the chunks it contributes: spoken ones, and guarded    *)
(* ones, which wait for the end of the answer because they make a first    *)
(* person claim.  The Hermes gateway is external: prompts owed an answer,  *)
(* and whether an answer is streaming.                                     *)
(***************************************************************************)
EXTENDS Integers, Sequences, FiniteSets, SequencesExt

CONSTANTS
  MaxJobs,       \* bound: chunks queued for synthesis
  MaxResults,    \* bound: synthesis results waiting for the Qt thread
  MaxBuffers,    \* bound: buffers playing and queued
  MaxOver,       \* bound: finished signals waiting for the Qt thread
  MaxGuarded,    \* bound: guarded chunks of one answer
  MaxTimers,     \* bound: timers of one kind under way
  MaxPrompts,    \* bound: prompts being prepared, and prompts owed an answer
  MaxApprovals,  \* bound: unresolved approvals
  MaxActs,       \* bound: what the world does (Act)
  ResponseMode   \* config.voice.response_mode

ASSUME ConversationAssumption ==
  /\ MaxJobs \in Nat \ {0} /\ MaxResults \in Nat \ {0} /\ MaxOver \in Nat \ {0}
  /\ MaxBuffers \in Nat \ {0}
  /\ MaxGuarded \in Nat /\ MaxTimers \in Nat \ {0} /\ MaxPrompts \in Nat \ {0}
  /\ MaxApprovals \in Nat /\ MaxActs \in Nat
  /\ ResponseMode \in {"always", "voice_prompts", "text_only"}

VARIABLES
  hal, manual,  \* HalStateMachine: _state (no DISABLED: nothing enters it), _manual_open
  turn,         \* the controller's fields of the turn
  timers,       \* _scheduled_timers: begin recording, continue the conversation
  mic,          \* AudioCoordinator._mode
  heard,        \* the utterance the audio thread has signalled, if any
  stt,          \* an utterance is being transcribed
  tts,          \* executor: queued jobs, the running one, results not yet handled
  buffers,      \* audio being played and queued, by freshness; playing iff any
  over,         \* playback.finished signals not yet handled
  preparing,    \* prompts whose context is being compiled
  task,         \* there is an active machine task, and it was not stopped
  agent,        \* external: the Hermes gateway
  approvals,    \* unresolved approvals
  phrase,       \* history: a machine phrase was spoken since the last cancelPending
  acts          \* bound

speechVars == <<tts, buffers, over, phrase>>
inputVars == <<heard, stt>>
hermesVars == <<preparing, task, agent, approvals>>
vars == <<hal, manual, turn, timers, mic, inputVars, speechVars, hermesVars, acts>>

\* ALLOWED_TRANSITIONS, without DISABLED.
Allowed ==
  [BOOTING          |-> {"STANDBY", "MANUAL", "ERROR"},
   STANDBY          |-> {"WAKE_DETECTED", "LISTENING", "THINKING", "TOOL_RUNNING",
                         "SPEAKING", "MANUAL", "ERROR"},
   WAKE_DETECTED    |-> {"LISTENING", "MANUAL", "ERROR", "STANDBY"},
   LISTENING        |-> {"TRANSCRIBING", "THINKING", "MANUAL", "ERROR", "STANDBY"},
   TRANSCRIBING     |-> {"THINKING", "LISTENING", "MANUAL", "ERROR", "STANDBY"},
   THINKING         |-> {"TOOL_RUNNING", "WAITING_APPROVAL", "SPEAKING", "MANUAL",
                         "ERROR", "STANDBY"},
   TOOL_RUNNING     |-> {"THINKING", "WAITING_APPROVAL", "SPEAKING", "MANUAL",
                         "ERROR", "STANDBY"},
   WAITING_APPROVAL |-> {"THINKING", "TOOL_RUNNING", "SPEAKING", "MANUAL", "ERROR"},
   SPEAKING         |-> {"LISTENING", "MANUAL", "STANDBY", "ERROR"},
   MANUAL           |-> {"WAKE_DETECTED", "LISTENING", "TRANSCRIBING", "THINKING",
                         "TOOL_RUNNING", "WAITING_APPROVAL", "SPEAKING", "STANDBY",
                         "ERROR"},
   ERROR            |-> {"BOOTING", "STANDBY", "MANUAL"}]

HalState == DOMAIN Allowed

TypeOK ==
  /\ hal \in HalState /\ manual \in BOOLEAN
  /\ turn \in [voice : BOOLEAN, origin : {"", "wake", "manual"}, finished : BOOLEAN,
               suppressed : BOOLEAN, complete : BOOLEAN, row : BOOLEAN,
               pending : 0..(MaxJobs + MaxResults + 1), guarded : 0..MaxGuarded]
  /\ timers \in [begin : 0..MaxTimers, follow : 0..MaxTimers]
  /\ mic \in {"wake", "record", "speaking", "muted"}
  /\ heard \in {"nothing", "speech", "silence"} /\ stt \in BOOLEAN
  /\ tts \in [jobs : 0..MaxJobs, running : {"none", "fresh", "stale"},
              results : SeqOf([kind : {"audio", "error"}, fresh : BOOLEAN], MaxResults)]
  /\ buffers \in SeqOf(BOOLEAN, MaxBuffers) /\ over \in 0..MaxOver
  /\ preparing \in 0..MaxPrompts /\ task \in BOOLEAN
  /\ agent \in [owed : 0..MaxPrompts, streaming : BOOLEAN]
  /\ approvals \in 0..MaxApprovals /\ phrase \in BOOLEAN /\ acts \in 0..MaxActs

\* Built with the services enabled and a microphone that works.
Init ==
  /\ hal = "BOOTING" /\ manual = FALSE
  /\ turn = [voice |-> FALSE, origin |-> "", finished |-> TRUE, suppressed |-> FALSE,
             complete |-> FALSE, row |-> FALSE, pending |-> 0, guarded |-> 0]
  /\ timers = [begin |-> 0, follow |-> 0]
  /\ mic = "wake" /\ heard = "nothing" /\ stt = FALSE
  /\ tts = [jobs |-> 0, running |-> "none", results |-> <<>>]
  /\ buffers = <<>> /\ over = 0
  /\ preparing = 0 /\ task = FALSE /\ agent = [owed |-> 0, streaming |-> FALSE]
  /\ approvals = 0 /\ phrase = FALSE /\ acts = 0

\* Bound: the operator, the wake word, the outbox and errors of Hermes act MaxActs times.
Act == acts < MaxActs /\ acts' = acts + 1

-----------------------------------------------------------------------------
(* The state machine and the microphone's mode. *)

\* Controller._transition: a rejected transition is logged and changes nothing.
Transition(from, target) == IF target \in Allowed[from] THEN target ELSE from

\* return_to_rest with the drawer as given.  RestAllowed: it never raises.
Rest(open) == IF open THEN "MANUAL" ELSE "STANDBY"

SetSpeaking(speaking) ==
  IF mic = "muted" THEN mic ELSE IF speaking THEN "speaking" ELSE "wake"

StartRecording == IF mic = "muted" THEN mic ELSE "record"

(* Speech output. *)

\* TtsManager.cancelPending: queued futures are cancelled, the running one and the
\* results already signalled belong to an old generation from now on.
Cancelled(t) ==
  [jobs |-> 0,
   running |-> IF t.running = "none" THEN "none" ELSE "stale",
   results |-> [i \in DOMAIN t.results |-> [t.results[i] EXCEPT !.fresh = FALSE]]]

\* AudioPlayback.stop: the thread is joined; if it was playing it signals finished.
Stop ==
  /\ buffers' = <<>>
  /\ over' = IF buffers = <<>> THEN over ELSE over + 1

\* cancelPending followed by playback.stop, as every caller does.
Silence == tts' = Cancelled(tts) /\ Stop /\ phrase' = FALSE

\* Mutant: the count of pending chunks survives the cancellation.
CancelKeepingCount(t, suppress) ==
  [t EXCEPT !.finished = TRUE, !.suppressed = suppress, !.complete = TRUE, !.guarded = 0]

\* The turn's fields after _cancel_speech_output.
CancelSpeechOutput(t, suppress) ==
  [t EXCEPT !.finished = TRUE, !.suppressed = suppress, !.complete = TRUE,
            !.pending = 0, !.guarded = 0]

SpeechAllowed(t) == ResponseMode = "always" \/ (ResponseMode = "voice_prompts" /\ t.voice)

\* _queue_speech_chunks: the turn with its said and held chunks counted, and how
\* many of them the TTS is given.
Spoken(t, said) == IF t.suppressed \/ ~SpeechAllowed(t) THEN 0 ELSE said

QueueSpeechChunks(t, said, held) ==
  [t EXCEPT !.pending = @ + Spoken(t, said), !.guarded = @ + Spoken(t, held)]

\* _maybe_finish_speech, for the turn t, the buffers b and the state h.
MaybeFinishSpeech(t, b, h) ==
  LET manualTurn == t.origin = "manual"
      followUp == ~manualTurn /\ t.voice /\ ~manual
  IN  IF t.finished \/ ~t.complete \/ t.pending > 0 \/ b # <<>>
        THEN turn' = t /\ hal' = h /\ UNCHANGED <<mic, timers>>
        ELSE /\ turn' = [t EXCEPT !.finished = TRUE,
                                  !.voice = IF manualTurn THEN FALSE ELSE @,
                                  !.origin = IF manualTurn THEN "" ELSE @]
             /\ mic' = SetSpeaking(FALSE)
             /\ hal' = IF followUp THEN h ELSE Rest(manual)
             /\ followUp => timers.follow < MaxTimers
             /\ timers' = IF followUp THEN [timers EXCEPT !.follow = @ + 1] ELSE timers

-----------------------------------------------------------------------------
(* Boot, the drawer and the microphone. *)

\* _finish_boot: general.start_in_standby or not.
FinishBoot ==
  /\ hal = "BOOTING"
  /\ \E standby \in BOOLEAN :
       /\ hal' = IF standby THEN "STANDBY" ELSE "MANUAL"
       /\ manual' = (manual \/ ~standby)
  /\ UNCHANGED <<turn, timers, mic, inputVars, speechVars, hermesVars, acts>>

OpenManual ==
  /\ Act
  /\ manual' = TRUE /\ hal' = "MANUAL"
  /\ UNCHANGED <<turn, timers, mic, inputVars, speechVars, hermesVars>>

\* _utterance_ready for the state h, the drawer open or not: the state that follows.
AfterUtterance(h, open, sound) ==
  CASE h # "LISTENING"    -> h
    [] sound = "silence"  -> Rest(open)
    [] OTHER              -> "TRANSCRIBING"

\* Mutant: the drawer closes over an approval.
NeverPending == FALSE

HasPendingApproval == approvals > 0

\* closeManual (a button, escape, the idle timer).  Stopping a recording delivers the
\* utterance at once, on this thread, before the drawer closes.
CloseManual ==
  /\ Act
  /\ manual /\ ~HasPendingApproval
  /\ \E sound \in {"speech", "silence"} :
       LET h == IF mic = "record" THEN AfterUtterance(hal, TRUE, sound) ELSE hal
           transcribe == mic = "record" /\ hal = "LISTENING" /\ sound = "speech"
       IN  /\ ~(stt /\ transcribe)
           /\ hal' = IF h = "MANUAL" THEN "STANDBY" ELSE h
           /\ stt' = (stt \/ transcribe)
  /\ manual' = FALSE
  /\ turn' = [turn EXCEPT !.voice = FALSE]
  /\ mic' = IF mic = "record" THEN "wake" ELSE mic
  /\ UNCHANGED <<timers, heard, speechVars, hermesVars>>

\* toggleManualMic.  The drawer is opened first, so the state is MANUAL when a running
\* recording is stopped, and its utterance is ignored.
ToggleManualMic ==
  /\ Act
  /\ manual' = TRUE
  /\ \/ /\ mic = "record"
        /\ hal' = "MANUAL" /\ mic' = "wake"
        /\ UNCHANGED turn
     \/ /\ mic # "record"
        /\ hal' = "LISTENING" /\ mic' = StartRecording
        /\ turn' = [turn EXCEPT !.voice = TRUE, !.origin = "manual"]
  /\ UNCHANGED <<timers, inputVars, speechVars, hermesVars>>

ToggleMute ==
  /\ Act
  /\ mic' = IF mic = "muted" THEN "wake" ELSE "muted"
  /\ UNCHANGED <<hal, manual, turn, timers, inputVars, speechVars, hermesVars>>

\* The audio thread ends a recording (_consume, _finish_recording).  Bound: the Qt
\* thread has handled the utterance before.
FinishRecording ==
  /\ mic = "record" /\ heard = "nothing"
  /\ heard' \in {"speech", "silence"} /\ mic' = "wake"
  /\ UNCHANGED <<hal, manual, turn, timers, stt, speechVars, hermesVars, acts>>

\* The audio thread hears the wake word (_consume) and the controller is told.
WakeDetected ==
  /\ Act
  /\ mic = "wake" /\ hal \in {"STANDBY", "MANUAL"}
  /\ timers.begin < MaxTimers
  /\ hal' = "WAKE_DETECTED"
  /\ turn' = [turn EXCEPT !.voice = TRUE, !.origin = "wake"]
  /\ timers' = [timers EXCEPT !.begin = @ + 1]
  /\ UNCHANGED <<manual, mic, inputVars, speechVars, hermesVars>>

BeginWakeRecording ==
  /\ timers.begin > 0
  /\ timers' = [timers EXCEPT !.begin = @ - 1]
  /\ hal' = Transition(hal, "LISTENING")
  /\ mic' = StartRecording
  /\ UNCHANGED <<manual, turn, inputVars, speechVars, hermesVars, acts>>

ContinueVoiceConversation ==
  /\ timers.follow > 0
  /\ timers' = [timers EXCEPT !.follow = @ - 1]
  /\ IF ~turn.voice \/ manual
       THEN hal' = Rest(manual) /\ UNCHANGED <<turn, mic>>
       ELSE /\ turn' = [turn EXCEPT !.origin = "wake"]
            /\ hal' = Transition(hal, "LISTENING")
            /\ mic' = StartRecording
  /\ UNCHANGED <<manual, inputVars, speechVars, hermesVars, acts>>

UtteranceReady ==
  /\ heard \in {"speech", "silence"} /\ heard' = "nothing"
  /\ LET transcribe == hal = "LISTENING" /\ heard = "speech"
     IN  ~(stt /\ transcribe) /\ stt' = (stt \/ transcribe)
  /\ hal' = AfterUtterance(hal, manual, heard)
  /\ turn' = IF hal = "LISTENING" /\ heard = "silence"
               THEN [turn EXCEPT !.voice = FALSE] ELSE turn
  /\ UNCHANGED <<manual, timers, mic, speechVars, hermesVars, acts>>

-----------------------------------------------------------------------------
(* A prompt. *)

\* sendText.  A route that is not available leaves the turn open, in ERROR.  Without a
\* machine self database the prompt is sent at once: PromptPrepared as the next step.
SendText ==
  LET opens == ~manual /\ turn.origin # "wake"
      shown == IF opens THEN "MANUAL" ELSE hal
  IN  /\ Act /\ preparing < MaxPrompts
      /\ turn' = [CancelSpeechOutput(turn, FALSE)
                    EXCEPT !.complete = FALSE, !.finished = FALSE, !.row = FALSE]
      /\ Silence /\ mic' = SetSpeaking(FALSE)
      /\ manual' = (manual \/ opens)
      /\ task' = FALSE
      /\ \E available \in BOOLEAN :
           /\ hal' = Transition(shown, IF available THEN "THINKING" ELSE "ERROR")
           /\ preparing' = IF available THEN preparing + 1 ELSE preparing
      /\ UNCHANGED <<timers, heard, agent, approvals>>

\* The operator types into the drawer.
TypeText == manual /\ SendText /\ UNCHANGED stt

\* The STT executor's signal: a text, an empty text, or an error.
Transcription ==
  /\ stt /\ stt' = FALSE
  /\ \/ SendText
     \/ /\ hal' = Rest(manual)
        /\ \/ turn' = [turn EXCEPT !.voice = FALSE]  \* _transcription_ready, empty
           \/ UNCHANGED turn                         \* _stt_error
        /\ UNCHANGED <<manual, timers, mic, heard, speechVars, hermesVars, acts>>

\* _machine_prompt_result and HermesService.sendPrompt, which accepts the prompt,
\* refuses it, or keeps it and reports that Hermes is not connected.
PromptPrepared ==
  /\ preparing > 0 /\ preparing' = preparing - 1
  /\ task' \in {task, TRUE}
  /\ \E accepted, refused \in BOOLEAN :
       /\ accepted \/ refused
       /\ accepted => agent.owed < MaxPrompts
       /\ agent' = IF accepted THEN [agent EXCEPT !.owed = @ + 1] ELSE agent
       /\ hal' = IF refused THEN Transition(hal, "ERROR") ELSE hal
  /\ UNCHANGED <<manual, turn, timers, mic, inputVars, speechVars, approvals, acts>>

-----------------------------------------------------------------------------
(* The answer.  Hermes streams it; an interrupted answer ends or does not. *)

Interrupt == agent' \in {agent, [owed |-> 0, streaming |-> FALSE]}

\* The turn's fields, and the rest of the state, after _assistant_started.
Opened(t) ==
  [t EXCEPT !.pending = 0, !.complete = FALSE, !.finished = FALSE,
            !.suppressed = FALSE, !.guarded = 0, !.row = TRUE]

Resumed(h) == IF h = "STANDBY" THEN "THINKING" ELSE h

AssistantStarted ==
  /\ agent.owed > 0 /\ ~agent.streaming
  /\ agent' = [owed |-> agent.owed - 1, streaming |-> TRUE]
  /\ turn' = Opened(turn) /\ hal' = Resumed(hal)
  /\ Silence
  /\ UNCHANGED <<manual, timers, mic, inputVars, preparing, task, approvals, acts>>

\* _assistant_delta and _assistant_interim.  Text with no row opens the turn first.
AssistantText ==
  /\ agent.streaming
  /\ \E said, held \in {0, 1} :
       LET t == IF turn.row THEN turn ELSE Opened(turn)
           base == IF turn.row THEN tts ELSE Cancelled(tts)
           queued == QueueSpeechChunks(t, said, held)
       IN  /\ queued.guarded <= MaxGuarded
           /\ base.jobs + Spoken(t, said) <= MaxJobs
           /\ turn' = queued
           /\ tts' = [base EXCEPT !.jobs = @ + Spoken(t, said)]
  /\ IF turn.row
       THEN UNCHANGED <<hal, buffers, over, phrase>>
       ELSE hal' = Resumed(hal) /\ Stop /\ phrase' = FALSE
  /\ UNCHANGED <<manual, timers, mic, inputVars, hermesVars, acts>>

\* _flush_guarded_speech: how many guarded chunks the TTS may be given.  The truth
\* contract may blank some; the stop flag is not tested again.
FlushGuarded(t) == 0..(IF SpeechAllowed(t) THEN t.guarded ELSE 0)

\* _assistant_completed: the last chunks, then the guarded ones, then the end of the turn.
AssistantCompleted ==
  /\ agent.streaming /\ agent' = [agent EXCEPT !.streaming = FALSE]
  /\ \E said, held \in {0, 1} :
       LET queued == QueueSpeechChunks(turn, said, held)
       IN  \E flushed \in FlushGuarded(queued) :
             /\ queued.guarded <= MaxGuarded
             /\ tts.jobs + Spoken(turn, said) + flushed <= MaxJobs
             /\ tts' = [tts EXCEPT !.jobs = @ + Spoken(turn, said) + flushed]
             /\ MaybeFinishSpeech([queued EXCEPT !.pending = @ + flushed, !.guarded = 0,
                                                 !.complete = TRUE, !.row = TRUE],
                                  buffers, hal)
  /\ UNCHANGED <<manual, inputVars, buffers, over, phrase, preparing, task, approvals, acts>>

\* _tool_activity.  A consequential tool without continuity is interrupted.
ToolActivity ==
  /\ agent.streaming
  /\ \/ /\ hal' = Transition(hal, "TOOL_RUNNING")
        /\ Interrupt
     \/ /\ hal' = IF hal = "TOOL_RUNNING" THEN "THINKING" ELSE hal
        /\ UNCHANGED agent
  /\ UNCHANGED <<manual, turn, timers, mic, inputVars, speechVars, preparing, task,
                 approvals, acts>>

ApprovalRequested ==
  /\ agent.streaming /\ approvals < MaxApprovals
  /\ approvals' = approvals + 1
  /\ manual' = TRUE
  /\ hal' = Transition(IF manual THEN hal ELSE "MANUAL", "WAITING_APPROVAL")
  /\ UNCHANGED <<turn, timers, mic, inputVars, speechVars, preparing, task, agent, acts>>

RespondApproval ==
  /\ approvals > 0 /\ approvals' = approvals - 1
  /\ hal' = Transition(hal, "THINKING")
  /\ UNCHANGED <<manual, turn, timers, mic, inputVars, speechVars, preparing, task, agent, acts>>

\* _error and, once Hermes is connected again, _hermes_status_changed.
HermesError ==
  /\ Act
  /\ hal' = Transition(hal, "ERROR")
  /\ UNCHANGED <<manual, turn, timers, mic, inputVars, speechVars, hermesVars>>

HermesConnected ==
  /\ hal = "ERROR" /\ hal' = Rest(manual)
  /\ UNCHANGED <<manual, turn, timers, mic, inputVars, speechVars, hermesVars, acts>>

-----------------------------------------------------------------------------
(* Stopping. *)

StopGeneration ==
  /\ Act
  /\ turn' = [CancelSpeechOutput(turn, TRUE) EXCEPT !.voice = FALSE, !.origin = ""]
  /\ Silence /\ mic' = SetSpeaking(FALSE)
  /\ Interrupt
  /\ hal' = Rest(manual)
  /\ UNCHANGED <<manual, timers, inputVars, preparing, task, approvals>>

StopSpeech ==
  /\ Act
  /\ turn' = [CancelSpeechOutput(turn, TRUE) EXCEPT !.voice = FALSE]
  /\ Silence /\ mic' = SetSpeaking(FALSE)
  /\ hal' = Rest(manual)
  /\ UNCHANGED <<manual, timers, inputVars, hermesVars>>

\* _stop_for_machine_degradation, once for a task.
StopForMachineDegradation ==
  /\ task /\ task' = FALSE
  /\ turn' = CancelSpeechOutput(turn, TRUE)
  /\ Silence /\ mic' = SetSpeaking(FALSE)
  /\ Interrupt
  /\ hal' = Transition(hal, "ERROR")
  /\ UNCHANGED <<manual, timers, inputVars, preparing, approvals, acts>>

-----------------------------------------------------------------------------
(* Speech: its sources, the TTS executor, the playback thread. *)

TestVoice ==
  /\ Act
  /\ turn' = [CancelSpeechOutput(turn, FALSE) EXCEPT !.finished = FALSE, !.pending = 1]
  /\ tts' = [Cancelled(tts) EXCEPT !.jobs = 1]
  /\ Stop /\ phrase' = FALSE /\ mic' = SetSpeaking(FALSE)
  /\ UNCHANGED <<hal, manual, timers, inputVars, hermesVars>>

\* _speak_machine_phrase: the outbox speaks without a turn.
SpeakMachinePhrase ==
  /\ Act
  /\ ResponseMode # "text_only" /\ tts.jobs < MaxJobs
  /\ phrase' = TRUE
  /\ tts' = [tts EXCEPT !.jobs = @ + 1]
  /\ UNCHANGED <<hal, manual, turn, timers, mic, inputVars, buffers, over, hermesVars>>

\* The executor has one worker.
Synthesize ==
  /\ tts.jobs > 0 /\ tts.running = "none"
  /\ tts' = [tts EXCEPT !.jobs = @ - 1, !.running = "fresh"]
  /\ UNCHANGED <<hal, manual, turn, timers, mic, inputVars, buffers, over, phrase,
                 hermesVars, acts>>

\* _synthesis_done: a stale result is dropped, an error carries no generation.
SynthesisDone ==
  /\ tts.running # "none" /\ Len(tts.results) < MaxResults
  /\ \E kind \in {"audio", "error"} :
       tts' = [tts EXCEPT !.running = "none",
                          !.results = IF tts.running = "stale" THEN @
                                      ELSE Append(@, [kind |-> kind, fresh |-> TRUE])]
  /\ UNCHANGED <<hal, manual, turn, timers, mic, inputVars, buffers, over, phrase,
                 hermesVars, acts>>

HandledResult == [tts EXCEPT !.results = Tail(@)]

Decremented(n) == IF n = 0 THEN 0 ELSE n - 1

\* Mutant: the generation is not compared.
PlayableLate(audio) == ~turn.suppressed

\* _synthesis_ready keeps the audio only of the current generation.
Playable(audio) == ~turn.suppressed /\ audio.fresh

SynthesisReady ==
  /\ tts.results # <<>> /\ Head(tts.results).kind = "audio"
  /\ Len(buffers) < MaxBuffers /\ (buffers # <<>> \/ over < MaxOver)
  /\ tts' = HandledResult
  /\ IF Playable(Head(tts.results))
       THEN /\ turn' = [turn EXCEPT !.pending = Decremented(@)]
            /\ hal' = Transition(hal, "SPEAKING")
            /\ mic' = SetSpeaking(TRUE)
            /\ buffers' = Append(buffers, Head(tts.results).fresh)
       ELSE UNCHANGED <<turn, hal, mic, buffers>>
  /\ UNCHANGED <<manual, timers, inputVars, over, phrase, hermesVars, acts>>

TtsError ==
  /\ tts.results # <<>> /\ Head(tts.results).kind = "error"
  /\ tts' = Cancelled(HandledResult) /\ Stop /\ phrase' = FALSE
  /\ turn' = [turn EXCEPT !.pending = 0, !.complete = TRUE, !.finished = TRUE]
  /\ mic' = SetSpeaking(FALSE)
  /\ hal' = Rest(manual)
  /\ UNCHANGED <<manual, timers, inputVars, hermesVars, acts>>

\* _drain_queue: one buffer played, or failed; finished after the last.
PlayBuffer ==
  /\ buffers # <<>> /\ buffers' = Tail(buffers)
  /\ over' = IF Len(buffers) = 1 THEN over + 1 ELSE over
  /\ UNCHANGED <<hal, manual, turn, timers, mic, inputVars, tts, phrase, hermesVars, acts>>

\* Mutant: the end of playback does not end the turn.
PlaybackFinishedOnly ==
  /\ over > 0 /\ over' = over - 1
  /\ UNCHANGED <<hal, manual, turn, timers, mic, inputVars, tts, buffers, phrase,
                 hermesVars, acts>>

PlaybackFinished ==
  /\ over > 0 /\ over' = over - 1
  /\ MaybeFinishSpeech(turn, buffers, hal)
  /\ UNCHANGED <<manual, inputVars, tts, buffers, phrase, hermesVars, acts>>

-----------------------------------------------------------------------------
Operator ==
  \/ OpenManual \/ CloseManual \/ ToggleManualMic \/ ToggleMute \/ TypeText
  \/ RespondApproval \/ StopGeneration \/ StopSpeech \/ TestVoice

\* HermesService._on_event: what it tells the controller of each frame.
Hermes ==
  \/ AssistantStarted \/ AssistantText \/ AssistantCompleted \/ ToolActivity
  \/ ApprovalRequested \/ HermesError \/ HermesConnected

\* What the program does by itself: the signals that _connect_signals ties to handlers,
\* timers and threads.
Program ==
  \/ FinishBoot \/ FinishRecording \/ WakeDetected \/ BeginWakeRecording
  \/ ContinueVoiceConversation \/ UtteranceReady \/ Transcription \/ PromptPrepared
  \/ StopForMachineDegradation \/ SpeakMachinePhrase
  \/ Synthesize \/ SynthesisDone \/ SynthesisReady \/ TtsError
  \/ PlayBuffer \/ PlaybackFinished

Next == Operator \/ Hermes \/ Program

Spec == Init /\ [][Next]_vars

\* The threads of speech output and the Qt event loop run; nothing is assumed of the
\* operator, of Hermes or of the audio thread.
FairSpec ==
  /\ Spec
  /\ WF_vars(Synthesize) /\ WF_vars(SynthesisDone) /\ WF_vars(PlayBuffer)
  /\ WF_vars(SynthesisReady) /\ WF_vars(TtsError) /\ WF_vars(PlaybackFinished)
  /\ WF_vars(BeginWakeRecording) /\ WF_vars(ContinueVoiceConversation)

-----------------------------------------------------------------------------
(* Properties. *)

\* Chunks of the current generation between the TTS executor and the Qt thread.
InFlight ==
  tts.jobs + (IF tts.running = "fresh" THEN 1 ELSE 0)
    + Cardinality({i \in DOMAIN tts.results : tts.results[i].fresh})

\* _speech_pending counts exactly the chunks still to be heard of, whatever was
\* cancelled, failed or arrived late in between; unless a machine phrase, which the
\* controller does not count, was given to the TTS since the last cancellation.
PendingExact == TypeOK /\ (~phrase => turn.pending = InFlight)

\* No audio of a cancelled generation is played or waits to be, although results that
\* were signalled before the cancellation are handled after it.
OnlyCurrentAudio == \A i \in DOMAIN buffers : buffers[i]

\* After "stop", and until the next answer is opened, nothing is played and no guarded
\* chunk waits for the flush at the end of the answer, which does not test the flag.
SuppressedSilent == turn.suppressed => buffers = <<>> /\ turn.guarded = 0

\* What is heard is the answer under way, and nothing after "stop".
NoStaleAudio == OnlyCurrentAudio /\ SuppressedSilent

\* An unresolved approval keeps the drawer open, and HAL waits for an approval only
\* while there is one.  So return_to_rest never has to go from WAITING_APPROVAL to
\* STANDBY, the only transition it could be refused (it would raise).
ApprovalVisible ==
  /\ approvals > 0 => manual
  /\ hal = "WAITING_APPROVAL" => approvals > 0

\* A complete answer comes to its end: once Hermes has nothing more to say,
\* _maybe_finish_speech is called again after the last chunk was played, dropped or
\* failed, or the turn is replaced by another.
TurnEnds ==
  (turn.complete /\ ~turn.finished /\ ~agent.streaming)
    ~> (turn.finished \/ ~turn.complete \/ agent.streaming)
=============================================================================
