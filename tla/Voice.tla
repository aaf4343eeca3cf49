------------------------------- MODULE Voice -------------------------------
(***************************************************************************)
(* The voice mode of the browser (app.js): a spoken command is streamed to *)
(* the agent, a proposal is read out, and the next thing the user says is  *)
(* taken as yes or no.  The page is single-threaded: an action is one task *)
(* of its event loop, up to the next await or the end of a callback.       *)
(*                                                                         *)
(* Around it: the speech recogniser, which reports its start some time     *)
(* after start(), even when it has been stopped by then, and stops some    *)
(* time after stop(); the player, which reports the end of a cancelled     *)
(* utterance late and the end of a paused clip never; the server, whose    *)
(* session may have proposed before its stream breaks.                     *)
(*                                                                         *)
(* Left out: transcripts, orb and visualiser, the choice of the voice, the *)
(* greeting, the repetition filter of handleVoiceCommand, the expiry of    *)
(* actions (a decision on one fails).  The chunks of an answer are one     *)
(* clip.  The wake-word listener listens whenever its own guard lets it    *)
(* act on what it hears.                                                   *)
(***************************************************************************)
EXTENDS Integers

CONSTANTS
  Commands,   \* bound: runs of handleVoiceCommand
  MaxInputs,  \* bound: what the user says and clicks
  None

\* A session of either endpoint proposes at most one action.
Actions == Commands \X {"stream", "chat"}
Calls   == [action : Actions, approved : BOOLEAN, via : {"button", "voice"}]

\* What a reply is to the tests of handleVoiceConfirmation: all of it matches
\* a pattern, its first word is in a list, it contains "send", "kar" or "bhej".
Reply(whole, first, send) == [whole |-> whole, first |-> first, send |-> send]
Replies == {Reply("yes", "yes", FALSE), Reply("no", "no", FALSE),
            Reply("neither", "no", TRUE), Reply("neither", "other", FALSE)}

\* What is called when an utterance is over: the rest of a command, of a
\* decision, of a question asked again, of an acknowledgement, or nothing.
Thens == Commands \union {"decided", "reprompt", "noaction", "wake", "nothing"}
Speech == [kind : {"utterance", "clip"}, then : Thens]

ASSUME VoiceAssumption == Commands \cap {"decided", "reprompt", "noaction", "wake", "nothing"} = {}
                          /\ None \notin Actions \union Replies \union Speech /\ MaxInputs \in Nat

VARIABLES
  intent,       \* isVoiceListeningIntent
  recognizing,  \* isRecognizing
  engine,       \* the recogniser; "aborting": stopped, its start still to be reported
  restart,      \* timers that will start it again
  heard,        \* speechDebounceTimer and the reply it will handle
  speaking,     \* isVoiceSpeaking
  playing,      \* what can be heard: utterance or clip, and what follows it
  ends,         \* cancelled speech whose end has not been reported
  handling,     \* isHandlingCommand
  awaiting,     \* awaitingConfirmation
  timer,        \* confirmationTimeout is running
  pending,      \* pendingConfirmation
  current,      \* currentVoiceActionId
  card,         \* the approval card is shown
  pc, proposal, \* progress and outcome of each command
  status,       \* pending_actions at the server
  calls,        \* POST /approve requests in flight
  superseded,   \* history: proposals older than the latest command
  cut,          \* history: speech was lost, what should follow it never ran
  inputs        \* what the user has said and clicked so far

mic      == <<recognizing, engine>>
ears     == <<intent, mic, restart, heard>>
mouth    == <<speaking, playing, ends, cut>>
question == <<awaiting, timer, pending, current, card>>
server   == <<status, calls>>
vars == <<ears, mouth, handling, question, pc, proposal, server, superseded, inputs>>

Engines == {"off", "starting", "on", "aborting", "stopping"}

TypeOK ==
  /\ intent \in BOOLEAN /\ recognizing \in BOOLEAN
  /\ engine \in Engines
  /\ restart \subseteq {"end", "toggle"}
  /\ heard \in Replies \union {None}
  /\ speaking \in BOOLEAN
  /\ playing \in Speech \union {None}
  /\ ends \subseteq Thens
  /\ handling \in BOOLEAN /\ awaiting \in BOOLEAN /\ timer \in BOOLEAN
  /\ pending \in Actions \union {None} /\ current \in Actions \union {None}
  /\ card \in BOOLEAN
  /\ pc \in [Commands -> {"idle", "stream", "result", "chat", "playing", "done"}]
  /\ proposal \in [Commands -> Actions \union {None}]
  /\ status \in [Actions -> {"none", "pending", "executed", "rejected", "failed"}]
  /\ calls \subseteq Calls
  /\ superseded \subseteq Actions
  /\ cut \in BOOLEAN
  /\ inputs \in 0..MaxInputs

Init ==
  /\ intent = FALSE /\ recognizing = FALSE /\ engine = "off" /\ restart = {}
  /\ heard = None
  /\ speaking = FALSE /\ playing = None /\ ends = {}
  /\ handling = FALSE /\ awaiting = FALSE /\ timer = FALSE
  /\ pending = None /\ current = None /\ card = FALSE
  /\ pc = [c \in Commands |-> "idle"]
  /\ proposal = [c \in Commands |-> None]
  /\ status = [a \in Actions |-> "none"]
  /\ calls = {} /\ superseded = {} /\ cut = FALSE /\ inputs = 0

-----------------------------------------------------------------------------
(* The recogniser. *)

Input == inputs < MaxInputs /\ inputs' = inputs + 1

\* pauseRecognition
Stop(running) ==
  CASE running = "starting" -> "aborting" [] running = "on" -> "stopping" [] OTHER -> running
Pause ==
  /\ recognizing' = FALSE
  /\ engine' = IF recognizing THEN Stop(engine) ELSE engine

\* resumeRecognitionIfNeeded.  Starting an engine that is not off throws.
Resume(wanted, busy) ==
  LET starts == wanted /\ ~busy /\ ~recognizing /\ engine = "off"
  IN  /\ recognizing' = (recognizing \/ starts)
      /\ engine' = IF starts THEN "starting" ELSE engine

\* rec.onstart: the page wants to listen again, also when it was switched off
\* between the start and its report.
RecStarts ==
  /\ engine \in {"starting", "aborting"}
  /\ engine' = IF engine = "starting" THEN "on" ELSE "stopping"
  /\ recognizing' = TRUE /\ intent' = TRUE
  /\ UNCHANGED <<restart, heard, mouth, handling, question, pc, proposal, server, superseded, inputs>>

\* rec.onresult
Hear(r) ==
  /\ Input
  /\ engine \in {"on", "stopping"} /\ ~speaking /\ ~handling
  /\ heard' = r
  /\ UNCHANGED <<intent, mic, restart, mouth, handling, question, pc, proposal, server, superseded>>

\* Mutant: continuous recognition is trusted to be continuous.
EngineEndsForGood ==
  /\ engine # "off"
  /\ engine' = "off" /\ recognizing' = FALSE
  /\ UNCHANGED <<intent, restart, heard, mouth, handling, question, pc, proposal, server, superseded, inputs>>

\* rec.onend
EngineEnds ==
  /\ engine # "off"
  /\ engine' = "off" /\ recognizing' = FALSE
  /\ restart' = IF intent /\ ~speaking /\ ~handling THEN restart \union {"end"} ELSE restart
  /\ UNCHANGED <<intent, heard, mouth, handling, question, pc, proposal, server, superseded, inputs>>

RestartAfterEnd ==
  /\ "end" \in restart
  /\ restart' = restart \ {"end"}
  /\ IF intent /\ ~speaking /\ ~handling /\ ~recognizing
       THEN recognizing' = TRUE /\ engine' = IF engine = "off" THEN "starting" ELSE engine
       ELSE UNCHANGED mic
  /\ UNCHANGED <<intent, heard, mouth, handling, question, pc, proposal, server, superseded, inputs>>

RestartAfterToggle ==
  /\ "toggle" \in restart
  /\ restart' = restart \ {"toggle"}
  /\ recognizing' = (recognizing \/ engine = "off")
  /\ engine' = IF engine = "off" THEN "starting" ELSE engine
  /\ UNCHANGED <<intent, heard, mouth, handling, question, pc, proposal, server, superseded, inputs>>

-----------------------------------------------------------------------------
(* The player. *)

\* speechSynthesis.cancel() and currentVoiceAudio.pause(): an utterance ends
\* with an error event; a clip only if it had not started.
Cancelled ==
  \/ /\ playing # None
     /\ ends' = ends \union {playing.then}
     /\ UNCHANGED cut
  \/ /\ playing # None => playing.kind = "clip"
     /\ cut' = (cut \/ playing # None)
     /\ UNCHANGED ends

\* speakWithBrowser and playVoiceAudio
Speak(kind, then) ==
  /\ playing' = [kind |-> kind, then |-> then]
  /\ speaking' = TRUE
  /\ Cancelled

Say(kind, then) == Speak(kind, then) /\ Pause

\* interruptVoicePlayback
Interrupt ==
  /\ playing' = None
  /\ speaking' = FALSE
  /\ Cancelled

\* The rest of a command: ask for the confirmation, or be ready again.
EnterConfirming ==
  /\ awaiting' = TRUE /\ timer' = TRUE /\ intent' = TRUE /\ handling' = FALSE
  /\ Resume(TRUE, FALSE)
  /\ UNCHANGED <<pending, current, card>>

Ready ==
  /\ awaiting' = FALSE /\ handling' = FALSE
  /\ Resume(intent, FALSE)
  /\ UNCHANGED <<intent, timer, pending, current, card>>

Done(t) ==
  \/ t \in Commands /\ proposal[t] # None /\ EnterConfirming
  \/ t \in Commands /\ proposal[t] = None /\ Ready
  \/ /\ t \in {"decided", "noaction"}
     /\ handling' = FALSE
     /\ Resume(intent, FALSE)
     /\ UNCHANGED <<intent, question>>
  \/ /\ t \in {"reprompt", "nothing"}
     /\ Resume(intent, handling)
     /\ UNCHANGED <<intent, handling, question>>
  \/ /\ t = "wake"
     /\ intent' = TRUE
     /\ Resume(TRUE, handling)
     /\ UNCHANGED <<handling, question>>

Finished(t) ==
  /\ Done(t)
  /\ speaking' = FALSE
  /\ pc' = IF t \in Commands THEN [pc EXCEPT ![t] = "done"] ELSE pc
  /\ UNCHANGED <<restart, heard, cut, proposal, server, superseded, inputs>>

SpeechEnds ==
  /\ playing # None
  /\ playing' = None
  /\ Finished(playing.then)
  /\ UNCHANGED ends

\* The late report: it resets isVoiceSpeaking whatever is playing by now.
\* Without a callback the error handler does not resume the recogniser.
CancelReported(t) ==
  /\ t \in ends
  /\ ends' = ends \ {t}
  /\ IF t = "nothing"
       THEN /\ speaking' = FALSE
            /\ UNCHANGED <<ears, cut, handling, question, pc, proposal, server, superseded, inputs>>
       ELSE Finished(t)
  /\ UNCHANGED playing

\* An utterance nobody waits for fails.
SpeechFails ==
  /\ playing # None /\ playing.then = "nothing"
  /\ playing' = None /\ speaking' = FALSE /\ cut' = TRUE
  /\ UNCHANGED <<ears, ends, handling, question, pc, proposal, server, superseded, inputs>>

-----------------------------------------------------------------------------
(* A command: streamed, and asked again through /agents/voice/chat when    *)
(* the stream fails.                                                       *)

Shown == {a \in Actions : status[a] # "none"}

\* Mutant: the card and the question of the command before are left alone.
CommandKeepsCard(c) ==
  /\ pc[c] = "idle"
  /\ pc' = [pc EXCEPT ![c] = "stream"]
  /\ handling' = TRUE
  /\ superseded' = superseded \union Shown
  /\ UNCHANGED <<question, mouth, proposal, server>>

\* handleVoiceCommand up to the request.
Command(c) ==
  /\ pc[c] = "idle"
  /\ pc' = [pc EXCEPT ![c] = "stream"]
  /\ card' = FALSE /\ pending' = None /\ current' = None /\ timer' = FALSE
  /\ handling' = TRUE
  /\ superseded' = superseded \union Shown
  /\ UNCHANGED <<awaiting, mouth, proposal, server>>

Propose(a) ==
  /\ status' = [status EXCEPT ![a] = "pending"]
  /\ pending' = a /\ current' = a /\ card' = TRUE

\* voice_result: an answer, or a proposal and its card.
Result(c, how) ==
  \/ /\ proposal' = [proposal EXCEPT ![c] = <<c, how>>]
     /\ Propose(<<c, how>>)
     /\ UNCHANGED <<awaiting, timer>>
  \/ /\ proposal' = [proposal EXCEPT ![c] = None]
     /\ UNCHANGED <<status, question>>

VoiceResult(c) ==
  /\ pc[c] = "stream"
  /\ pc' = [pc EXCEPT ![c] = "result"]
  /\ Result(c, "stream")
  /\ UNCHANGED <<ears, mouth, handling, calls, superseded, inputs>>

\* The stream is refused, fails or breaks, perhaps after its session proposed.
StreamBreaks(c) ==
  /\ pc[c] \in {"stream", "result"}
  /\ pc' = [pc EXCEPT ![c] = "chat"]
  /\ \/ UNCHANGED status
     \/ pc[c] = "stream" /\ status' = [status EXCEPT ![<<c, "stream">>] = "pending"]
  /\ UNCHANGED <<ears, mouth, handling, question, proposal, calls, superseded, inputs>>

StreamEnds(c) ==
  /\ pc[c] = "result"
  /\ pc' = [pc EXCEPT ![c] = "playing"]
  /\ \E kind \in {"utterance", "clip"} : Say(kind, c)
  /\ UNCHANGED <<intent, restart, heard, handling, question, proposal, server, superseded, inputs>>

ChatAnswers(c) ==
  /\ pc[c] = "chat"
  /\ pc' = [pc EXCEPT ![c] = "playing"]
  /\ Result(c, "chat")
  /\ \E kind \in {"utterance", "clip"} : Say(kind, c)
  /\ UNCHANGED <<intent, restart, heard, handling, calls, superseded, inputs>>

\* Mutant: the catch block does not clear isHandlingCommand.
ChatFailsBusy(c) ==
  /\ pc[c] = "chat"
  /\ pc' = [pc EXCEPT ![c] = "done"]
  /\ UNCHANGED <<ears, mouth, handling, question, proposal, server, superseded, inputs>>

\* catch: with or without an action the answer of which was lost.
ChatFails(c) ==
  /\ pc[c] = "chat"
  /\ pc' = [pc EXCEPT ![c] = "done"]
  /\ handling' = FALSE
  /\ Resume(intent, speaking)
  /\ status' \in {status, [status EXCEPT ![<<c, "chat">>] = "pending"]}
  /\ UNCHANGED <<intent, restart, heard, mouth, question, proposal, calls, superseded, inputs>>

-----------------------------------------------------------------------------
(* Yes or no. *)

\* The decision as the code takes it: hasHindiYesIntent comes before the noes.
Decision(r) ==
  CASE r.whole = "yes" -> "yes"
    [] r.whole = "no"  -> "no"
    [] r.whole = "neither" /\ (r.first = "yes" \/ r.send) -> "yes"
    [] r.whole = "neither" /\ r.first = "no" /\ ~r.send -> "no"
    [] OTHER -> "unclear"

\* decideVoiceAction up to the request.
Decide(a, approved, via) ==
  /\ calls' = calls \union {[action |-> a, approved |-> approved, via |-> via]}
  /\ current' = None /\ card' = FALSE
  /\ handling' = TRUE

\* handleVoiceConfirmation
Confirmation(r) ==
  LET a == IF pending # None THEN pending ELSE current
  IN  \/ /\ Decision(r) = "unclear"
         /\ Speak("utterance", "reprompt")
         /\ UNCHANGED <<handling, question, calls>>
      \/ /\ Decision(r) # "unclear"
         /\ awaiting' = FALSE /\ timer' = FALSE /\ pending' = None
         /\ IF a = None
              THEN /\ card' = FALSE /\ handling' = TRUE
                   /\ Speak("utterance", "noaction")
                   /\ UNCHANGED <<current, calls>>
              ELSE /\ Decide(a, Decision(r) = "yes", "voice")
                   /\ UNCHANGED mouth

\* The silence timer fires: what was heard is a reply or a command; rec.stop().
HeardSettles ==
  /\ heard # None
  /\ heard' = None
  /\ recognizing' = FALSE /\ engine' = Stop(engine)
  /\ \/ /\ awaiting
        /\ Confirmation(heard)
        /\ UNCHANGED <<pc, proposal, status, superseded>>
     \/ /\ ~awaiting
        /\ \E c \in Commands : Command(c)
  /\ UNCHANGED <<intent, restart, inputs>>

\* The buttons of the card.
Click(approved) ==
  /\ Input
  /\ card /\ current # None
  /\ Decide(current, approved, "button")
  /\ Pause
  /\ UNCHANGED <<intent, restart, heard, mouth, awaiting, timer, pending, pc, proposal, status, superseded>>

\* The server decides once (decide_action) and executes.
Decided(k, new) ==
  IF status[k.action] # "pending" THEN new = status[k.action]
  ELSE IF k.approved THEN new \in {"executed", "failed"} ELSE new = "rejected"

\* The answer: only executed and rejected are announced, the rest is an error.
DecideAnswer(k) ==
  /\ k \in calls
  /\ calls' = calls \ {k}
  /\ \E new \in {"executed", "rejected", "failed"} :
       /\ Decided(k, new)
       /\ status' = [status EXCEPT ![k.action] = new]
       /\ IF new = "rejected" \/ (new = "executed" /\ status[k.action] = "pending")
            THEN Say("utterance", "decided") /\ UNCHANGED handling
            ELSE handling' = FALSE /\ Resume(intent, speaking) /\ UNCHANGED mouth
  /\ UNCHANGED <<intent, restart, heard, question, pc, proposal, superseded, inputs>>

\* The answer is lost: an error, whatever the server did.
DecideFails(k) ==
  /\ k \in calls
  /\ calls' = calls \ {k}
  /\ \/ UNCHANGED status
     \/ \E new \in {"executed", "rejected", "failed"} :
          Decided(k, new) /\ status' = [status EXCEPT ![k.action] = new]
  /\ handling' = FALSE
  /\ Resume(intent, speaking)
  /\ UNCHANGED <<intent, restart, heard, mouth, question, pc, proposal, superseded, inputs>>

\* No reply in time.
ConfirmationTimesOut ==
  /\ timer
  /\ timer' = FALSE
  /\ IF awaiting
       THEN /\ awaiting' = FALSE /\ pending' = None /\ card' = FALSE
            /\ Say("utterance", "nothing")
       ELSE UNCHANGED <<awaiting, pending, card, mouth, mic>>
  /\ UNCHANGED <<intent, restart, heard, handling, current, pc, proposal, server, superseded, inputs>>

-----------------------------------------------------------------------------
(* The user. *)

\* The stop button, and rec.onspeechstart while something is spoken.
StopSpeech ==
  /\ Input
  /\ speaking
  /\ Interrupt
  /\ Resume(intent, handling)
  /\ UNCHANGED <<intent, restart, heard, handling, question, pc, proposal, server, superseded>>

\* Mutant: the question stays open without its timer.
SwitchOffMuted ==
  /\ Input
  /\ intent
  /\ intent' = FALSE /\ timer' = FALSE /\ heard' = None
  /\ engine' = Stop(engine)
  /\ Interrupt
  /\ UNCHANGED <<recognizing, restart, handling, awaiting, pending, current, card, pc, proposal, server, superseded>>

\* toggleVoiceListening, also called by openVoiceModal and the voice tab.
SwitchOff ==
  /\ Input
  /\ intent
  /\ intent' = FALSE /\ awaiting' = FALSE /\ timer' = FALSE /\ heard' = None
  /\ engine' = Stop(engine)
  /\ Interrupt
  /\ UNCHANGED <<recognizing, restart, handling, pending, current, card, pc, proposal, server, superseded>>

SwitchOn ==
  /\ Input
  /\ ~intent
  /\ intent' = TRUE /\ awaiting' = FALSE /\ recognizing' = TRUE
  /\ Interrupt
  /\ IF engine = "off" THEN engine' = "starting" /\ UNCHANGED restart
                       ELSE engine' = Stop(engine) /\ restart' = restart \union {"toggle"}
  /\ UNCHANGED <<heard, handling, timer, pending, current, card, pc, proposal, server, superseded>>

\* closeVoiceModal
Close ==
  /\ Input
  /\ timer' = FALSE /\ awaiting' = FALSE /\ pending' = None /\ heard' = None
  /\ Interrupt
  /\ intent' = FALSE
  /\ recognizing' = (recognizing /\ ~intent)
  /\ LET resumed == IF engine = "off" /\ ~handling /\ ~recognizing THEN "starting" ELSE engine
     IN engine' = IF intent THEN Stop(resumed) ELSE engine
  /\ UNCHANGED <<restart, handling, current, card, pc, proposal, server, superseded>>

\* rec.onresult of the wake-word listener: with a command or without.
WakeWord ==
  /\ Input
  /\ ~speaking /\ ~handling /\ ~intent
  /\ Pause
  /\ \/ \E c \in Commands : Command(c)
     \/ /\ Speak("utterance", "wake")
        /\ UNCHANGED <<handling, question, pc, proposal, server, superseded>>
  /\ UNCHANGED <<intent, restart, heard>>

-----------------------------------------------------------------------------
Browser ==
  \/ RecStarts \/ EngineEnds \/ RestartAfterEnd \/ RestartAfterToggle
  \/ SpeechEnds \/ HeardSettles
  \/ \E t \in Thens : CancelReported(t)

Answers ==
  \/ \E c \in Commands : VoiceResult(c) \/ StreamBreaks(c) \/ StreamEnds(c) \/ ChatAnswers(c) \/ ChatFails(c)
  \/ \E k \in calls : DecideAnswer(k) \/ DecideFails(k)

User ==
  \/ \E r \in Replies : Hear(r)
  \/ \E approved \in BOOLEAN : Click(approved)
  \/ StopSpeech \/ SwitchOff \/ SwitchOn \/ Close \/ WakeWord

Next == Browser \/ Answers \/ User \/ SpeechFails \/ ConfirmationTimesOut

Spec == Init /\ [][Next]_vars

\* Timers fire, speech ends, cancelled speech is reported, requests are answered
\* or fail.  A recogniser that was not stopped need not end.
Fairness ==
  /\ WF_vars(EngineEnds /\ engine \in {"aborting", "stopping"})
  /\ WF_vars(RestartAfterEnd) /\ WF_vars(RestartAfterToggle)
  /\ WF_vars(SpeechEnds \/ SpeechFails)
  /\ WF_vars(HeardSettles)
  /\ \A t \in Thens : WF_vars(CancelReported(t))
  /\ WF_vars(Answers)

FairSpec == Spec /\ Fairness

-----------------------------------------------------------------------------
(* Properties *)

\* What a newer command superseded is not decided by a late yes or click: the
\* page forgets the proposals of earlier commands, whatever path led here.
SupersededIsOver ==
  [][\A k \in calls' \ calls : k.action \notin superseded]_vars

\* No question stays open for ever: whatever overlaps, a page that takes the
\* next words as yes or no has its time limit running.
QuestionsExpire == awaiting => timer

\* While isHandlingCommand keeps the page from hearing, something is under way
\* the end of which clears it, however speech, decisions and commands overlap:
\* a request, or speech that is heard or was cancelled and not reported yet.
Clears == Commands \union {"decided", "noaction"}
CommandIsUnderWay ==
  handling /\ ~cut =>
    \/ \E c \in Commands : pc[c] \in {"stream", "result", "chat"}
    \/ calls # {}
    \/ playing # None /\ playing.then \in Clears
    \/ ends \intersect Clears # {}

\* A page that is meant to listen and does not has a timer, a command or speech
\* before it, after which it listens: no callback starts a recogniser that is
\* still stopping and leaves it at that.
HearingIsUnderWay ==
  intent /\ ~cut => engine # "off" \/ restart # {} \/ handling \/ playing # None

\* However recogniser, speech, requests and buttons overlap, no callback leaves
\* the page waiting for what will not come: a reply without a time limit, the
\* end of nothing, or a recogniser that nobody starts.
NothingIsStuck == QuestionsExpire /\ CommandIsUnderWay /\ HearingIsUnderWay

\* isHandlingCommand blocks every way to be heard; it is released again
\* unless a clip was stopped whose end the browser does not report.
CommandsEnd == handling ~> (~handling \/ cut)

\* While the page is meant to listen the recogniser runs again in the end, or has
\* been started.
ListensAgain == intent ~> (~intent \/ engine \in {"starting", "on"} \/ cut)

\* The comment in speakWithBrowser: "Half-duplex: pause recognition while
\* speaking to prevent echo self-trigger".
HalfDuplex == playing # None => engine \notin {"starting", "on"}

\* Not kept either: a start that is reported late does not switch on again what
\* the user has switched off ("user wants mic on (intent)").
OffStaysOff == [][RecStarts => intent]_vars

\* The comment in handleVoiceConfirmation: a yes that is not spelled out counts,
\* "But ensure not mixed with no".  A reply that begins with a no is no approval.
RefusalIsRespected ==
  [][\A k \in calls' \ calls : k.via = "voice" /\ k.approved => heard.first # "no"]_vars
=============================================================================
