---------------------------- MODULE VoiceProofs ----------------------------
(***************************************************************************)
(* Voice mode for any number of commands and of things said and clicked:   *)
(* a page that waits for a yes has its time limit running, a page that     *)
(* does not hear has something under way after which it does, and what a   *)
(* newer command superseded is never decided.                              *)
(*                                                                         *)
(* The first needs to know that the mode is on while a question is open:   *)
(* the command of a wake word stops the timer and leaves                   *)
(* awaitingConfirmation as it is.  The second needs to know what the page  *)
(* believes of recogniser and player is true of them.  The third needs to  *)
(* know that the page remembers no superseded proposal, and that what a    *)
(* session which still runs may propose is new.                            *)
(***************************************************************************)
EXTENDS Voice, TLAPS

\* The two halves of TypeOK, for provers that are good at one of them each.
BooleansOK ==
  /\ intent \in BOOLEAN /\ recognizing \in BOOLEAN /\ speaking \in BOOLEAN /\ handling \in BOOLEAN
  /\ awaiting \in BOOLEAN /\ timer \in BOOLEAN /\ card \in BOOLEAN /\ cut \in BOOLEAN

DataOK ==
  /\ engine \in Engines
  /\ restart \subseteq {"end", "toggle"}
  /\ heard \in Replies \union {None}
  /\ playing \in Speech \union {None}
  /\ ends \subseteq Thens
  /\ pending \in Actions \union {None} /\ current \in Actions \union {None}
  /\ pc \in [Commands -> {"idle", "stream", "result", "chat", "playing", "done"}]
  /\ proposal \in [Commands -> Actions \union {None}]
  /\ status \in [Actions -> {"none", "pending", "executed", "rejected", "failed"}]
  /\ calls \subseteq Calls
  /\ superseded \subseteq Actions
  /\ inputs \in 0..MaxInputs

LEMMA TypeParts == TypeOK <=> BooleansOK /\ DataOK
BY Zenon DEF TypeOK, BooleansOK, DataOK

LEMMA BooleansStep == BooleansOK /\ [Next]_vars => BooleansOK'
<1> SUFFICES ASSUME BooleansOK, [Next]_vars PROVE BooleansOK'
  OBVIOUS
<1> USE Zenon DEF BooleansOK, ears, mic, mouth, question
<1>d. ASSUME NEW t, Finished(t) PROVE BooleansOK'
  <2>1. CASE EnterConfirming  BY <1>d, <2>1 DEF EnterConfirming, Resume, Finished
  <2>2. CASE Ready  BY <1>d, <2>2 DEF Ready, Resume, Finished
  <2>3. CASE /\ UNCHANGED question /\ (intent' = intent \/ intent' = TRUE)
             /\ handling' = handling \/ handling' = FALSE
             /\ \E wanted, busy : Resume(wanted, busy)
    BY <1>d, <2>3 DEF Resume, Finished
  <2>4. QED  BY <1>d, <2>1, <2>2, <2>3 DEF Done, Finished
<1>s. ASSUME NEW kind, NEW t, Speak(kind, t) PROVE speaking' \in BOOLEAN /\ cut' \in BOOLEAN
  BY <1>s DEF Speak, Cancelled
<1>i. ASSUME Interrupt PROVE speaking' \in BOOLEAN /\ cut' \in BOOLEAN
  BY <1>i DEF Interrupt, Cancelled
<1>p. ASSUME Pause PROVE recognizing' \in BOOLEAN
  BY <1>p DEF Pause
<1>m. ASSUME NEW wanted, NEW busy, Resume(wanted, busy) PROVE recognizing' \in BOOLEAN
  BY <1>m DEF Resume
<1>r. ASSUME NEW c \in Commands, NEW how, Result(c, how)
      PROVE  awaiting' \in BOOLEAN /\ timer' \in BOOLEAN /\ card' \in BOOLEAN
  BY <1>r DEF Result, Propose
<1>c. ASSUME NEW c \in Commands, Command(c)
      PROVE  /\ awaiting' \in BOOLEAN /\ timer' \in BOOLEAN /\ card' \in BOOLEAN /\ handling' \in BOOLEAN
             /\ speaking' \in BOOLEAN /\ cut' \in BOOLEAN
  BY <1>c DEF Command
<1>1. CASE Browser
  <2>1. CASE RecStarts \/ EngineEnds  BY <2>1 DEF RecStarts, EngineEnds
  <2>2. CASE RestartAfterEnd  BY <2>2 DEF RestartAfterEnd
  <2>3. CASE RestartAfterToggle  BY <2>3 DEF RestartAfterToggle
  <2>4. CASE SpeechEnds  BY <2>4, <1>d DEF SpeechEnds
  <2>5. CASE HeardSettles
    <3>1. intent' \in BOOLEAN /\ recognizing' \in BOOLEAN  BY <2>5 DEF HeardSettles
    <3>2. CASE Confirmation(heard)
      <4>1. CASE Speak("utterance", "reprompt") /\ UNCHANGED <<handling, question>>
        BY <3>1, <4>1, <1>s
      <4>2. CASE /\ awaiting' = FALSE /\ timer' = FALSE
                 /\ card' = FALSE /\ handling' = TRUE /\ Speak("utterance", "noaction")
        BY <3>1, <4>2, <1>s
      <4>3. CASE /\ awaiting' = FALSE /\ timer' = FALSE /\ UNCHANGED mouth
                 /\ \E a, approved, via : Decide(a, approved, via)
        BY <3>1, <4>3 DEF Decide
      <4>4. QED  BY <3>2, <4>1, <4>2, <4>3 DEF Confirmation
    <3>3. CASE \E c \in Commands : Command(c)  BY <3>1, <3>3, <1>c
    <3>4. QED  BY <2>5, <3>2, <3>3 DEF HeardSettles
  <2>6. ASSUME NEW t \in Thens, CancelReported(t) PROVE BooleansOK'
    BY <2>6, <1>d DEF CancelReported
  <2>7. QED  BY <1>1, <2>1, <2>2, <2>3, <2>4, <2>5, <2>6 DEF Browser
<1>2. CASE Answers
  <2>1. ASSUME NEW c \in Commands, VoiceResult(c) PROVE BooleansOK'
    BY <2>1, <1>r DEF VoiceResult
  <2>2. ASSUME NEW c \in Commands, StreamBreaks(c) PROVE BooleansOK'
    BY <2>2 DEF StreamBreaks
  <2>3. ASSUME NEW c \in Commands, StreamEnds(c) PROVE BooleansOK'
    BY <2>3, <1>s, <1>p DEF StreamEnds, Say
  <2>4. ASSUME NEW c \in Commands, ChatAnswers(c) PROVE BooleansOK'
    BY <2>4, <1>r, <1>s, <1>p DEF ChatAnswers, Say
  <2>5. ASSUME NEW c \in Commands, ChatFails(c) PROVE BooleansOK'
    BY <2>5, <1>m DEF ChatFails
  <2>6. ASSUME NEW k \in calls, DecideAnswer(k) PROVE BooleansOK'
    <3>1. CASE Say("utterance", "decided") /\ UNCHANGED handling
      BY <2>6, <3>1, <1>s, <1>p DEF DecideAnswer, Say
    <3>2. CASE handling' = FALSE /\ Resume(intent, speaking) /\ UNCHANGED mouth
      BY <2>6, <3>2, <1>m DEF DecideAnswer
    <3>3. QED  BY <2>6, <3>1, <3>2 DEF DecideAnswer
  <2>7. ASSUME NEW k \in calls, DecideFails(k) PROVE BooleansOK'
    BY <2>7, <1>m DEF DecideFails
  <2>8. QED  BY <1>2, <2>1, <2>2, <2>3, <2>4, <2>5, <2>6, <2>7 DEF Answers
<1>3. CASE User
  <2>1. ASSUME NEW r \in Replies, Hear(r) PROVE BooleansOK'
    BY <2>1 DEF Hear
  <2>2. ASSUME NEW approved \in BOOLEAN, Click(approved) PROVE BooleansOK'
    BY <2>2, <1>p DEF Click, Decide
  <2>3. CASE StopSpeech  BY <2>3, <1>i, <1>m DEF StopSpeech
  <2>4. CASE SwitchOff  BY <2>4, <1>i DEF SwitchOff
  <2>5. CASE SwitchOn  BY <2>5, <1>i DEF SwitchOn
  <2>6. CASE Close  BY <2>6, <1>i DEF Close
  <2>7. CASE WakeWord
    <3>1. intent' = intent /\ recognizing' \in BOOLEAN  BY <2>7, <1>p DEF WakeWord
    <3>2. CASE \E c \in Commands : Command(c)  BY <3>1, <3>2, <1>c
    <3>3. CASE Speak("utterance", "wake") /\ UNCHANGED <<handling, question>>  BY <3>1, <3>3, <1>s
    <3>4. QED  BY <2>7, <3>2, <3>3 DEF WakeWord
  <2>8. QED  BY <1>3, <2>1, <2>2, <2>3, <2>4, <2>5, <2>6, <2>7 DEF User
<1>4. CASE SpeechFails  BY <1>4 DEF SpeechFails
<1>5. CASE ConfirmationTimesOut
  <2>1. CASE awaiting  BY <1>5, <2>1, <1>s, <1>p DEF ConfirmationTimesOut, Say
  <2>2. CASE ~awaiting  BY <1>5, <2>2 DEF ConfirmationTimesOut
  <2>3. QED  BY <2>1, <2>2
<1>6. CASE UNCHANGED vars  BY <1>6 DEF vars
<1>7. QED  BY <1>1, <1>2, <1>3, <1>4, <1>5, <1>6 DEF Next

LEMMA SpeechData ==
  ASSUME DataOK, NEW kind \in {"utterance", "clip"}, NEW t \in Thens, Speak(kind, t) \/ Interrupt
  PROVE  playing' \in Speech \union {None} /\ ends' \subseteq Thens
<1>1. playing # None => playing.then \in Thens
  BY DEF DataOK, Speech
<1>2. ends' \subseteq Thens
  BY <1>1 DEF Speak, Interrupt, Cancelled, DataOK
<1>3. playing' \in Speech \union {None}
  BY DEF Speak, Interrupt, Speech
<1>4. QED  BY <1>2, <1>3

LEMMA Stopped == \A e \in Engines : Stop(e) \in Engines /\ (e # "off" => Stop(e) # "off")
BY DEF Engines, Stop

LEMMA DataStep == DataOK /\ [Next]_vars => DataOK'
<1> SUFFICES ASSUME DataOK, [Next]_vars PROVE DataOK'
  OBVIOUS
<1> USE DEF DataOK, ears, mic, mouth, question, server
<1>t. {"decided", "reprompt", "noaction", "wake", "nothing"} \union Commands \subseteq Thens
  BY DEF Thens
<1>p. ASSUME Pause PROVE engine' \in Engines
  BY <1>p, Stopped DEF Pause
<1>m. ASSUME NEW wanted, NEW busy, Resume(wanted, busy) PROVE engine' \in Engines
  BY <1>m DEF Resume, Engines
<1>n. ASSUME Input PROVE inputs' \in 0..MaxInputs
  BY <1>n, VoiceAssumption DEF Input
<1>r. ASSUME NEW c \in Commands, NEW how \in {"stream", "chat"}, Result(c, how)
      PROVE  /\ proposal' \in [Commands -> Actions \union {None}]
             /\ status' \in [Actions -> {"none", "pending", "executed", "rejected", "failed"}]
             /\ pending' \in Actions \union {None} /\ current' \in Actions \union {None}
  <2>1. <<c, how>> \in Actions
    BY DEF Actions
  <2>2. QED  BY <1>r, <2>1 DEF Result, Propose
<1>c. ASSUME NEW c \in Commands, Command(c)
      PROVE  /\ pc' \in [Commands -> {"idle", "stream", "result", "chat", "playing", "done"}]
             /\ superseded' \subseteq Actions
             /\ pending' = None /\ current' = None
             /\ UNCHANGED <<mouth, proposal, server>>
  BY <1>c DEF Command, Shown
<1>k. ASSUME NEW a \in Actions, NEW approved \in BOOLEAN, NEW via \in {"button", "voice"},
             Decide(a, approved, via)
      PROVE  calls' \subseteq Calls /\ current' = None
  BY <1>k DEF Decide, Calls
<1>1. CASE Browser
  <2>1. CASE RecStarts \/ EngineEnds  BY <2>1 DEF RecStarts, EngineEnds, Engines
  <2>2. CASE RestartAfterEnd  BY <2>2 DEF RestartAfterEnd, Engines
  <2>3. CASE RestartAfterToggle  BY <2>3 DEF RestartAfterToggle, Engines
  <2>4. CASE SpeechEnds
    <3>1. Finished(playing.then) /\ playing' = None /\ UNCHANGED ends
      BY <2>4 DEF SpeechEnds
    <3>2. UNCHANGED <<pending, current>>
      BY <3>1, Zenon DEF Finished, Done, EnterConfirming, Ready
    <3>3. \E wanted, busy : Resume(wanted, busy)
      BY <3>1, Zenon DEF Finished, Done, EnterConfirming, Ready
    <3>4. QED  BY <3>1, <3>2, <3>3, <1>m DEF Finished
  <2>5. CASE HeardSettles
    <3>1. /\ engine' \in Engines /\ heard' = None
          /\ UNCHANGED <<restart, inputs>>
      BY <2>5, Stopped DEF HeardSettles
    <3>2. CASE Confirmation(heard) /\ UNCHANGED <<pc, proposal, status, superseded>>
      <4> DEFINE a == IF pending # None THEN pending ELSE current
      <4>1. CASE Speak("utterance", "reprompt") /\ UNCHANGED <<question, calls>>
        BY <3>1, <3>2, <4>1, <1>t, SpeechData
      <4>2. CASE pending' = None /\ Speak("utterance", "noaction") /\ UNCHANGED <<current, calls>>
        BY <3>1, <3>2, <4>2, <1>t, SpeechData
      <4>3. CASE pending' = None /\ a # None /\ Decide(a, Decision(heard) = "yes", "voice") /\ UNCHANGED mouth
        <5>1. a \in Actions
          BY <4>3
        <5>2. (Decision(heard) = "yes") \in BOOLEAN
          OBVIOUS
        <5>3. QED  BY <3>1, <3>2, <4>3, <5>1, <5>2, <1>k
      <4>4. QED  BY <3>2, <4>1, <4>2, <4>3, Zenon DEF Confirmation
    <3>3. CASE \E c \in Commands : Command(c)  BY <3>1, <3>3, <1>c
    <3>4. QED  BY <2>5, <3>2, <3>3, Zenon DEF HeardSettles
  <2>6. ASSUME NEW t \in Thens, CancelReported(t) PROVE DataOK'
    <3>1. CASE t = "nothing"  BY <2>6, <3>1 DEF CancelReported
    <3>2. CASE t # "nothing"
      <4>1. Finished(t) /\ ends' = ends \ {t} /\ UNCHANGED playing
        BY <2>6, <3>2 DEF CancelReported
      <4>2. UNCHANGED <<pending, current>>
        BY <4>1, Zenon DEF Finished, Done, EnterConfirming, Ready
      <4>3. \E wanted, busy : Resume(wanted, busy)
        BY <4>1, Zenon DEF Finished, Done, EnterConfirming, Ready
      <4>4. QED  BY <4>1, <4>2, <4>3, <1>m DEF Finished
    <3>3. QED  BY <3>1, <3>2
  <2>7. QED  BY <1>1, <2>1, <2>2, <2>3, <2>4, <2>5, <2>6, Zenon DEF Browser
<1>2. CASE Answers
  <2>1. ASSUME NEW c \in Commands, VoiceResult(c) PROVE DataOK'
    BY <2>1, <1>r DEF VoiceResult
  <2>2. ASSUME NEW c \in Commands, StreamBreaks(c) PROVE DataOK'
    BY <2>2 DEF StreamBreaks
  <2>3. ASSUME NEW c \in Commands, StreamEnds(c) PROVE DataOK'
    BY <2>3, <1>t, <1>p, SpeechData DEF StreamEnds, Say
  <2>4. ASSUME NEW c \in Commands, ChatAnswers(c) PROVE DataOK'
    BY <2>4, <1>t, <1>r, <1>p, SpeechData DEF ChatAnswers, Say
  <2>5. ASSUME NEW c \in Commands, ChatFails(c) PROVE DataOK'
    BY <2>5, <1>m DEF ChatFails
  <2>6. ASSUME NEW k \in calls, DecideAnswer(k) PROVE DataOK'
    <3>1. CASE Say("utterance", "decided")
      BY <2>6, <3>1, <1>t, <1>p, SpeechData DEF DecideAnswer, Say
    <3>2. CASE Resume(intent, speaking) /\ UNCHANGED mouth
      BY <2>6, <3>2, <1>m DEF DecideAnswer
    <3>3. QED  BY <2>6, <3>1, <3>2, Zenon DEF DecideAnswer
  <2>7. ASSUME NEW k \in calls, DecideFails(k) PROVE DataOK'
    BY <2>7, <1>m DEF DecideFails
  <2>8. QED  BY <1>2, <2>1, <2>2, <2>3, <2>4, <2>5, <2>6, <2>7, Zenon DEF Answers
<1>3. CASE User
  <2>1. ASSUME NEW r \in Replies, Hear(r) PROVE DataOK'
    BY <2>1, <1>n DEF Hear
  <2>2. ASSUME NEW approved \in BOOLEAN, Click(approved) PROVE DataOK'
    <3>1. current \in Actions /\ Decide(current, approved, "button")
      BY <2>2 DEF Click
    <3>2. QED  BY <2>2, <3>1, <1>n, <1>p, <1>k DEF Click
  <2>3. CASE StopSpeech  BY <2>3, <1>n, <1>m, <1>t, SpeechData DEF StopSpeech
  <2>4. CASE SwitchOff  BY <2>4, <1>n, <1>t, SpeechData, Stopped DEF SwitchOff
  <2>5. CASE SwitchOn  BY <2>5, <1>n, <1>t, SpeechData, Stopped DEF SwitchOn, Engines
  <2>6. CASE Close  BY <2>6, <1>n, <1>t, SpeechData, Stopped DEF Close, Engines
  <2>7. CASE WakeWord
    <3>1. engine' \in Engines /\ inputs' \in 0..MaxInputs /\ UNCHANGED <<restart, heard>>
      BY <2>7, <1>p, <1>n DEF WakeWord
    <3>2. CASE \E c \in Commands : Command(c)  BY <3>1, <3>2, <1>c
    <3>3. CASE Speak("utterance", "wake") /\ UNCHANGED <<question, pc, proposal, server, superseded>>
      BY <3>1, <3>3, <1>t, SpeechData
    <3>4. QED  BY <2>7, <3>2, <3>3, Zenon DEF WakeWord
  <2>8. QED  BY <1>3, <2>1, <2>2, <2>3, <2>4, <2>5, <2>6, <2>7, Zenon DEF User
<1>4. CASE SpeechFails  BY <1>4 DEF SpeechFails
<1>5. CASE ConfirmationTimesOut
  <2>1. CASE awaiting  BY <1>5, <2>1, <1>t, <1>p, SpeechData DEF ConfirmationTimesOut, Say
  <2>2. CASE ~awaiting  BY <1>5, <2>2 DEF ConfirmationTimesOut
  <2>3. QED  BY <2>1, <2>2
<1>6. CASE UNCHANGED vars  BY <1>6 DEF vars
<1>7. QED  BY <1>1, <1>2, <1>3, <1>4, <1>5, <1>6, Zenon DEF Next

\* The state of the voice mode has its types: whatever overlaps, the page
\* remembers actions of sessions it had and waits for calls it made.
THEOREM VoiceTypes == Spec => []TypeOK
<1>1. Init => BooleansOK /\ DataOK
  <2>1. Init => BooleansOK  BY Zenon DEF Init, BooleansOK
  <2>2. Init => DataOK  BY VoiceAssumption DEF Init, DataOK, Engines
  <2>3. QED  BY <2>1, <2>2
<1>2. BooleansOK /\ [Next]_vars => BooleansOK'
  BY BooleansStep
<1>3. DataOK /\ [Next]_vars => DataOK'
  BY DataStep
<1>4. BooleansOK /\ DataOK => TypeOK
  BY TypeParts
<1>5. QED  BY <1>1, <1>2, <1>3, <1>4, PTL DEF Spec

-----------------------------------------------------------------------------
(* Questions. *)

\* A question is open only while its timer runs and the mode is on.
FlagsOK == awaiting \in BOOLEAN /\ timer \in BOOLEAN /\ intent \in BOOLEAN

QuestionInv == FlagsOK /\ QuestionsExpire /\ (awaiting => intent)

LEMMA QuestionStep == QuestionInv /\ [Next]_vars => QuestionInv'
<1> SUFFICES ASSUME QuestionInv, [Next]_vars PROVE QuestionInv'
  OBVIOUS
<1> USE Zenon DEF QuestionInv, FlagsOK, QuestionsExpire, question, ears
<1>d. ASSUME NEW t, Finished(t) PROVE QuestionInv'
  <2>1. CASE EnterConfirming  BY <2>1 DEF EnterConfirming
  <2>2. CASE Ready  BY <2>2 DEF Ready
  <2>3. CASE UNCHANGED question /\ (intent' = intent \/ intent' = TRUE)  BY <2>3
  <2>4. QED  BY <1>d, <2>1, <2>2, <2>3 DEF Done, Finished
<1>r. ASSUME NEW c \in Commands, NEW how, Result(c, how), UNCHANGED intent PROVE QuestionInv'
  <2>1. CASE UNCHANGED <<awaiting, timer>>  BY <1>r, <2>1
  <2>2. CASE UNCHANGED question  BY <1>r, <2>2
  <2>3. QED  BY <1>r, <2>1, <2>2 DEF Result
<1>c. ASSUME NEW c \in Commands, Command(c), ~awaiting, UNCHANGED intent PROVE QuestionInv'
  BY <1>c DEF Command
<1>1. CASE Browser
  <2>1. CASE RecStarts \/ EngineEnds
    <3>1. CASE RecStarts  BY <3>1 DEF RecStarts
    <3>2. CASE EngineEnds  BY <3>2 DEF EngineEnds, mic
    <3>3. QED  BY <2>1, <3>1, <3>2
  <2>2. CASE RestartAfterEnd  BY <2>2 DEF RestartAfterEnd
  <2>3. CASE RestartAfterToggle  BY <2>3 DEF RestartAfterToggle
  <2>4. CASE SpeechEnds  BY <2>4, <1>d DEF SpeechEnds
  <2>5. CASE HeardSettles
    <3>1. CASE awaiting /\ Confirmation(heard)
      <4>1. CASE UNCHANGED question  BY <2>5, <4>1 DEF HeardSettles
      <4>2. CASE awaiting' = FALSE /\ timer' = FALSE  BY <2>5, <4>2 DEF HeardSettles
      <4>3. QED  BY <3>1, <4>1, <4>2 DEF Confirmation
    <3>2. CASE ~awaiting /\ \E c \in Commands : Command(c)  BY <2>5, <3>2, <1>c DEF HeardSettles
    <3>3. QED  BY <2>5, <3>1, <3>2 DEF HeardSettles
  <2>6. ASSUME NEW t \in Thens, CancelReported(t) PROVE QuestionInv'
    BY <2>6, <1>d DEF CancelReported
  <2>7. QED  BY <1>1, <2>1, <2>2, <2>3, <2>4, <2>5, <2>6 DEF Browser
<1>2. CASE Answers
  <2>1. ASSUME NEW c \in Commands, VoiceResult(c) PROVE QuestionInv'
    BY <2>1, <1>r DEF VoiceResult
  <2>2. ASSUME NEW c \in Commands, StreamBreaks(c) PROVE QuestionInv'
    BY <2>2 DEF StreamBreaks
  <2>3. ASSUME NEW c \in Commands, StreamEnds(c) PROVE QuestionInv'
    BY <2>3 DEF StreamEnds
  <2>4. ASSUME NEW c \in Commands, ChatAnswers(c) PROVE QuestionInv'
    BY <2>4, <1>r DEF ChatAnswers
  <2>5. ASSUME NEW c \in Commands, ChatFails(c) PROVE QuestionInv'
    BY <2>5 DEF ChatFails
  <2>6. ASSUME NEW k \in calls, DecideAnswer(k) PROVE QuestionInv'
    BY <2>6 DEF DecideAnswer
  <2>7. ASSUME NEW k \in calls, DecideFails(k) PROVE QuestionInv'
    BY <2>7 DEF DecideFails
  <2>8. QED  BY <1>2, <2>1, <2>2, <2>3, <2>4, <2>5, <2>6, <2>7 DEF Answers
<1>3. CASE User
  <2>1. ASSUME NEW r \in Replies, Hear(r) PROVE QuestionInv'
    BY <2>1 DEF Hear
  <2>2. ASSUME NEW approved \in BOOLEAN, Click(approved) PROVE QuestionInv'
    BY <2>2 DEF Click
  <2>3. CASE StopSpeech  BY <2>3 DEF StopSpeech
  <2>4. CASE SwitchOff  BY <2>4 DEF SwitchOff
  <2>5. CASE SwitchOn  BY <2>5 DEF SwitchOn
  <2>6. CASE Close  BY <2>6 DEF Close
  <2>7. CASE WakeWord
    <3>1. UNCHANGED intent /\ ~intent  BY <2>7 DEF WakeWord
    <3>2. CASE \E c \in Commands : Command(c)  BY <3>1, <3>2, <1>c
    <3>3. CASE UNCHANGED question  BY <3>1, <3>3
    <3>4. QED  BY <2>7, <3>2, <3>3 DEF WakeWord
  <2>8. QED  BY <1>3, <2>1, <2>2, <2>3, <2>4, <2>5, <2>6, <2>7 DEF User
<1>4. CASE SpeechFails  BY <1>4 DEF SpeechFails
<1>5. CASE ConfirmationTimesOut
  <2>1. CASE awaiting  BY <1>5, <2>1 DEF ConfirmationTimesOut
  <2>2. CASE ~awaiting  BY <1>5, <2>2 DEF ConfirmationTimesOut
  <2>3. QED  BY <2>1, <2>2
<1>6. CASE UNCHANGED vars  BY <1>6 DEF vars
<1>7. QED  BY <1>1, <1>2, <1>3, <1>4, <1>5, <1>6 DEF Next

\* A page that takes the next words as yes or no gives up on them in time
\* (app.js 2684): no other callback stops the timer and leaves the question.
THEOREM QuestionsHaveTimers == Spec => []QuestionsExpire
<1>1. Init => QuestionInv
  BY DEF Init, QuestionInv, FlagsOK, QuestionsExpire
<1>2. QuestionInv /\ [Next]_vars => QuestionInv'
  BY QuestionStep
<1>3. QuestionInv => QuestionsExpire
  BY DEF QuestionInv
<1>4. QED  BY <1>1, <1>2, <1>3, PTL DEF Spec

-----------------------------------------------------------------------------
(* Being heard. *)

\* What the page believes of the recogniser and of the player is never more
\* than there is: it may take a stopping one for stopped, not the other way.
HearingInv ==
  /\ BooleansOK
  /\ recognizing => engine # "off"
  /\ speaking => playing # None
  /\ HearingIsUnderWay

LEMMA HearingStep == HearingInv /\ [Next]_vars => HearingInv'
<1> SUFFICES ASSUME HearingInv, [Next]_vars PROVE HearingInv'
  OBVIOUS
<1>b. BooleansOK'
  BY BooleansStep, Zenon DEF HearingInv
<1>k. /\ "off" # "on" /\ "off" # "starting" /\ "off" # "stopping" /\ "off" # "aborting"
      /\ restart \union {"end"} # {} /\ restart \union {"toggle"} # {}
  OBVIOUS
<1>v. \A kind \in {"utterance", "clip"}, t \in Thens : [kind |-> kind, then |-> t] # None
  BY VoiceAssumption DEF Speech
<1>w. {"decided", "reprompt", "noaction", "wake", "nothing"} \union Commands \subseteq Thens
  BY DEF Thens
<1> USE Zenon, <1>b DEF HearingInv, HearingIsUnderWay, ears, mic, mouth, question
<1>q. \A e : e # "off" => Stop(e) # "off"
  BY SMT DEF Stop
<1>p. ASSUME Pause PROVE ~recognizing' /\ (engine # "off" => engine' # "off")
  BY <1>p, <1>q DEF Pause
<1>m. ASSUME NEW wanted, NEW busy, Resume(wanted, busy)
      PROVE  /\ recognizing' => engine' # "off"
             /\ wanted /\ ~busy => engine' # "off"
             /\ engine # "off" => engine' # "off"
  BY <1>m, <1>k DEF Resume, BooleansOK
<1>h. ASSUME NEW wanted, Resume(wanted, handling)
      PROVE  (recognizing' => engine' # "off") /\ (~wanted \/ handling \/ engine' # "off")
  BY <1>h, <1>k DEF Resume, BooleansOK
<1>y. ASSUME Resume(intent, speaking)
      PROVE  (recognizing' => engine' # "off") /\ (~intent \/ speaking \/ engine' # "off")
  BY <1>y, <1>k DEF Resume, BooleansOK
<1>s. ASSUME NEW kind \in {"utterance", "clip"}, NEW t \in Thens, Speak(kind, t)
      PROVE  playing' # None /\ (cut => cut')
  BY <1>s, <1>v DEF Speak, Cancelled, BooleansOK
<1>i. ASSUME Interrupt PROVE speaking' = FALSE /\ (cut' \/ cut' = cut)
  BY <1>i DEF Interrupt, Cancelled, BooleansOK
<1>d. ASSUME NEW t, Finished(t) PROVE HearingInv'
  <2>1. CASE EnterConfirming  BY <1>d, <1>m, <2>1 DEF EnterConfirming, Finished
  <2>2. CASE Ready  BY <1>d, <1>m, <2>2 DEF Ready, Finished
  <2>3. CASE handling' = FALSE /\ Resume(intent, FALSE) /\ UNCHANGED intent
    BY <1>d, <1>m, <2>3 DEF Finished
  <2>4. CASE Resume(intent, handling) /\ UNCHANGED <<intent, handling>>
    BY <1>d, <1>h, <2>4 DEF Finished
  <2>5. CASE Resume(TRUE, handling) /\ UNCHANGED handling
    BY <1>d, <1>h, <2>5 DEF Finished
  <2>6. QED  BY <1>d, <2>1, <2>2, <2>3, <2>4, <2>5 DEF Done, Finished
<1>c. ASSUME NEW c \in Commands, Command(c) PROVE handling' = TRUE /\ UNCHANGED mouth
  BY <1>c DEF Command
<1>1. CASE Browser
  <2>1. CASE RecStarts \/ EngineEnds
    <3>1. CASE RecStarts
      <4>1. engine' # "off" /\ recognizing' = TRUE  BY <3>1, <1>k DEF RecStarts
      <4>2. UNCHANGED mouth  BY <3>1 DEF RecStarts
      <4>3. QED  BY <4>1, <4>2
    <3>2. CASE EngineEnds  BY <3>2, <1>k DEF EngineEnds
    <3>3. QED  BY <2>1, <3>1, <3>2
  <2>2. CASE RestartAfterEnd  BY <2>2, <1>k DEF RestartAfterEnd
  <2>3. CASE RestartAfterToggle  BY <2>3, <1>k DEF RestartAfterToggle
  <2>4. CASE SpeechEnds  BY <2>4, <1>d DEF SpeechEnds
  <2>5. CASE HeardSettles
    <3>1. recognizing' = FALSE  BY <2>5 DEF HeardSettles
    <3>2. CASE Confirmation(heard)
      <4>1. CASE Speak("utterance", "reprompt")  BY <3>1, <4>1, <1>s, <1>w
      <4>2. CASE Speak("utterance", "noaction")  BY <3>1, <4>2, <1>s, <1>w
      <4>3. CASE UNCHANGED mouth /\ \E a, approved, via : Decide(a, approved, via)
        BY <3>1, <4>3 DEF Decide
      <4>4. QED  BY <3>2, <4>1, <4>2, <4>3 DEF Confirmation
    <3>3. CASE \E c \in Commands : Command(c)  BY <3>1, <3>3, <1>c
    <3>4. QED  BY <2>5, <3>2, <3>3 DEF HeardSettles
  <2>6. ASSUME NEW t \in Thens, CancelReported(t) PROVE HearingInv'
    BY <2>6, <1>d DEF CancelReported
  <2>7. QED  BY <1>1, <2>1, <2>2, <2>3, <2>4, <2>5, <2>6 DEF Browser
<1>2. CASE Answers
  <2>1. ASSUME NEW c \in Commands, VoiceResult(c) PROVE HearingInv'
    BY <2>1 DEF VoiceResult
  <2>2. ASSUME NEW c \in Commands, StreamBreaks(c) PROVE HearingInv'
    BY <2>2 DEF StreamBreaks
  <2>3. ASSUME NEW c \in Commands, StreamEnds(c) PROVE HearingInv'
    BY <2>3, <1>s, <1>p, <1>w DEF StreamEnds, Say
  <2>4. ASSUME NEW c \in Commands, ChatAnswers(c) PROVE HearingInv'
    BY <2>4, <1>s, <1>p, <1>w DEF ChatAnswers, Say
  <2>5. ASSUME NEW c \in Commands, ChatFails(c) PROVE HearingInv'
    BY <2>5, <1>y DEF ChatFails
  <2>6. ASSUME NEW k \in calls, DecideAnswer(k) PROVE HearingInv'
    <3>1. CASE Say("utterance", "decided")
      BY <2>6, <3>1, <1>s, <1>p, <1>w DEF DecideAnswer, Say
    <3>2. CASE Resume(intent, speaking) /\ UNCHANGED mouth
      BY <2>6, <3>2, <1>y DEF DecideAnswer
    <3>3. QED  BY <2>6, <3>1, <3>2 DEF DecideAnswer
  <2>7. ASSUME NEW k \in calls, DecideFails(k) PROVE HearingInv'
    BY <2>7, <1>y DEF DecideFails
  <2>8. QED  BY <1>2, <2>1, <2>2, <2>3, <2>4, <2>5, <2>6, <2>7 DEF Answers
<1>3. CASE User
  <2>1. ASSUME NEW r \in Replies, Hear(r) PROVE HearingInv'
    BY <2>1 DEF Hear
  <2>2. ASSUME NEW approved \in BOOLEAN, Click(approved) PROVE HearingInv'
    BY <2>2, <1>p DEF Click, Decide
  <2>3. CASE StopSpeech  BY <2>3, <1>i, <1>h DEF StopSpeech
  <2>4. CASE SwitchOff  BY <2>4, <1>i, <1>q DEF SwitchOff
  <2>5. CASE SwitchOn  BY <2>5, <1>i, <1>k, <1>q DEF SwitchOn
  <2>6. CASE Close  BY <2>6, <1>i, <1>k, <1>q DEF Close
  <2>7. CASE WakeWord
    <3>1. intent' = intent /\ ~intent /\ recognizing' = FALSE  BY <2>7 DEF WakeWord, Pause
    <3>2. CASE \E c \in Commands : Command(c)  BY <3>1, <3>2, <1>c
    <3>3. CASE Speak("utterance", "wake")  BY <3>1, <3>3, <1>s, <1>w
    <3>4. QED  BY <2>7, <3>2, <3>3 DEF WakeWord
  <2>8. QED  BY <1>3, <2>1, <2>2, <2>3, <2>4, <2>5, <2>6, <2>7 DEF User
<1>4. CASE SpeechFails  BY <1>4 DEF SpeechFails
<1>5. CASE ConfirmationTimesOut
  <2>1. CASE awaiting  BY <1>5, <2>1, <1>s, <1>p, <1>w DEF ConfirmationTimesOut, Say
  <2>2. CASE ~awaiting  BY <1>5, <2>2 DEF ConfirmationTimesOut
  <2>3. QED  BY <2>1, <2>2
<1>6. CASE UNCHANGED vars  BY <1>6 DEF vars
<1>7. QED  BY <1>1, <1>2, <1>3, <1>4, <1>5, <1>6 DEF Next

\* No callback starts a recogniser that is still stopping and leaves it at
\* that: a page meant to listen that does not has a timer, a command or speech
\* before it (resumeRecognitionIfNeeded and its callers, app.js 2107).
THEOREM HearingReturns == Spec => []HearingIsUnderWay
<1>1. Init => HearingInv
  BY Zenon DEF Init, HearingInv, BooleansOK, HearingIsUnderWay
<1>2. HearingInv /\ [Next]_vars => HearingInv'
  BY HearingStep
<1>3. HearingInv => HearingIsUnderWay
  BY Zenon DEF HearingInv
<1>4. QED  BY <1>1, <1>2, <1>3, PTL DEF Spec

-----------------------------------------------------------------------------
(* Commands under way. *)

\* The two reasons for which isHandlingCommand may be set.
Requested == (\E c \in Commands : pc[c] \in {"stream", "result", "chat"}) \/ calls # {}
Spoken    == (playing # None /\ playing.then \in Clears) \/ ends \intersect Clears # {}

CommandInv == BooleansOK /\ DataOK /\ CommandIsUnderWay

LEMMA Reasons == CommandIsUnderWay <=> (handling /\ ~cut => Requested \/ Spoken)
BY Zenon DEF CommandIsUnderWay, Requested, Spoken

\* Speech that is cancelled by other speech, or by nothing, is lost or reported.
LEMMA SpokenStep ==
  ASSUME BooleansOK, NEW kind \in {"utterance", "clip"}, NEW t \in Thens, Speak(kind, t) \/ Interrupt
  PROVE  (Spoken => Spoken' \/ cut') /\ (cut => cut')
<1>1. CASE playing # None /\ ends' = ends \union {playing.then} /\ UNCHANGED cut
  <2>1. Spoken => ends' \intersect Clears # {}
    BY <1>1 DEF Spoken
  <2>2. QED  BY <1>1, <2>1, Zenon DEF Spoken
<1>2. CASE UNCHANGED ends /\ cut' = (cut \/ playing # None)
  <2>1. (cut => cut') /\ (playing # None => cut')
    BY <1>2, Zenon DEF BooleansOK
  <2>2. Spoken /\ playing = None => ends' \intersect Clears # {}
    BY <1>2, Zenon DEF Spoken
  <2>3. QED  BY <2>1, <2>2, Zenon DEF Spoken
<1>3. QED  BY <1>1, <1>2, Zenon DEF Speak, Interrupt, Cancelled

LEMMA SpokenFor ==
  ASSUME NEW kind \in {"utterance", "clip"}, NEW t \in Clears, Speak(kind, t)
  PROVE  Spoken'
<1>1. playing' = [kind |-> kind, then |-> t] /\ t \in Thens
  BY DEF Speak, Clears, Thens
<1>2. playing' # None /\ playing'.then = t
  BY <1>1, VoiceAssumption DEF Speech
<1>3. QED  BY <1>2, Zenon DEF Spoken

\* Speech that clears isHandlingCommand ends, or speech that does not.
LEMMA FinishedClears ==
  ASSUME DataOK, NEW t \in Thens, Finished(t), handling, ~cut, handling'
  PROVE  t \notin Clears /\ (Requested => Requested') /\ ~cut'
<1>1. t \in {"reprompt", "nothing"} \/ t = "wake"
  BY Zenon DEF Finished, Done, EnterConfirming, Ready
<1>3. t \notin Clears
  BY <1>1, VoiceAssumption DEF Clears
<1>2. UNCHANGED <<pc, calls, cut>>
  BY <1>3 DEF Finished, Clears, server
<1>4. QED  BY <1>2, <1>3, Zenon DEF Requested

LEMMA CommandInvStep == CommandInv /\ [Next]_vars => CommandInv'
<1> SUFFICES ASSUME CommandInv, [Next]_vars PROVE CommandInv'
  OBVIOUS
<1> SUFFICES ASSUME handling', ~cut' PROVE Requested' \/ Spoken'
  <2>1. BooleansOK' /\ DataOK'
    BY BooleansStep, DataStep, Zenon DEF CommandInv
  <2>2. CommandIsUnderWay' <=> (handling' /\ ~cut' => Requested' \/ Spoken')
    BY Zenon DEF CommandIsUnderWay, Requested, Spoken
  <2>3. QED  BY <2>1, <2>2, Zenon DEF CommandInv
<1>b. BooleansOK /\ DataOK /\ (handling /\ ~cut => Requested \/ Spoken)
  BY Reasons, Zenon DEF CommandInv
<1>w. {"decided", "reprompt", "noaction", "wake", "nothing"} \union Commands \subseteq Thens
  BY DEF Thens
<1>x. {"decided", "noaction"} \union Commands \subseteq Clears
  BY DEF Clears
<1>q. ASSUME UNCHANGED <<pc, calls>> PROVE Requested => Requested'
  BY <1>q DEF Requested
<1>u. ASSUME UNCHANGED <<playing, ends>> PROVE Spoken => Spoken'
  BY <1>u DEF Spoken
<1>c. ASSUME NEW c \in Commands, Command(c) PROVE Requested'
  <2>1. pc'[c] = "stream"
    BY <1>c, <1>b DEF Command, DataOK
  <2>2. QED  BY <2>1, Zenon DEF Requested
<1>a. ASSUME NEW c \in Commands, NEW new \in {"result", "chat"}, pc' = [pc EXCEPT ![c] = new]
      PROVE  Requested'
  <2>1. pc'[c] = new
    BY <1>a, <1>b DEF DataOK
  <2>2. QED  BY <2>1 DEF Requested
<1>f. ASSUME NEW a, NEW approved, NEW via, Decide(a, approved, via) PROVE Requested'
  BY <1>f DEF Decide, Requested
<1> HIDE DEF CommandInv
<1> USE Zenon, <1>b DEF ears, mic, mouth, question, server
<1>s. ASSUME NEW kind \in {"utterance", "clip"}, NEW t \in Thens, Speak(kind, t) \/ Interrupt
      PROVE  (Spoken => Spoken') /\ ~cut
  BY <1>s, SpokenStep
<1>t. ASSUME NEW kind \in {"utterance", "clip"}, NEW t \in Clears, Speak(kind, t)
      PROVE  Spoken'
  BY <1>t, SpokenFor
<1>1. CASE Browser
  <2>1. CASE RecStarts \/ EngineEnds  BY <2>1, <1>q, <1>u DEF RecStarts, EngineEnds
  <2>2. CASE RestartAfterEnd  BY <2>2, <1>q, <1>u DEF RestartAfterEnd
  <2>3. CASE RestartAfterToggle  BY <2>3, <1>q, <1>u DEF RestartAfterToggle
  <2>4. CASE SpeechEnds
    <3>1. playing.then \in Thens /\ Finished(playing.then) /\ UNCHANGED <<ends, cut>> /\ (handling' => handling)
      <4>1. playing.then \in Thens
        BY <2>4, SMT DEF SpeechEnds, DataOK, Speech
      <4>2. QED  BY <2>4, <4>1 DEF SpeechEnds, Finished, Done, EnterConfirming, Ready
    <3>2. playing.then \notin Clears /\ (Requested => Requested')
      BY <3>1, FinishedClears
    <3>3. Spoken => Spoken'
      BY <3>1, <3>2 DEF Spoken
    <3>4. QED  BY <3>1, <3>2, <3>3
  <2>5. CASE HeardSettles
    <3>1. CASE awaiting /\ Confirmation(heard) /\ UNCHANGED pc
      <4>1. CASE Speak("utterance", "reprompt") /\ UNCHANGED <<handling, calls>>
        BY <3>1, <4>1, <1>s, <1>w, <1>q
      <4>2. CASE Speak("utterance", "noaction")  BY <4>2, <1>t, <1>x
      <4>3. CASE \E a, approved, via : Decide(a, approved, via)  BY <4>3, <1>f
      <4>4. QED  BY <3>1, <4>1, <4>2, <4>3 DEF Confirmation
    <3>2. CASE \E c \in Commands : Command(c)  BY <3>2, <1>c
    <3>3. QED  BY <2>5, <3>1, <3>2 DEF HeardSettles
  <2>6. ASSUME NEW t \in Thens, CancelReported(t) PROVE Requested' \/ Spoken'
    <3>1. CASE t = "nothing"
      <4>1. /\ UNCHANGED <<pc, calls, handling, cut, playing>>
            /\ ends' = ends \ {"nothing"}
        BY <2>6, <3>1 DEF CancelReported
      <4>2. "nothing" \notin Clears
        BY SMT, VoiceAssumption DEF Clears
      <4>3. Spoken => Spoken'
        BY <4>1, <4>2 DEF Spoken
      <4>4. QED  BY <4>1, <4>3, <1>q
    <3>2. CASE t # "nothing"
      <4>1. Finished(t) /\ ends' = ends \ {t} /\ UNCHANGED <<playing, cut>> /\ (handling' => handling)
        BY <2>6, <3>2 DEF CancelReported, Finished, Done, EnterConfirming, Ready
      <4>2. t \notin Clears /\ (Requested => Requested')
        BY <4>1, FinishedClears
      <4>3. Spoken => Spoken'
        BY <4>1, <4>2 DEF Spoken
      <4>4. QED  BY <4>1, <4>2, <4>3
    <3>3. QED  BY <3>1, <3>2
  <2>7. QED  BY <1>1, <2>1, <2>2, <2>3, <2>4, <2>5, <2>6 DEF Browser
<1>2. CASE Answers
  <2>1. ASSUME NEW c \in Commands, VoiceResult(c) PROVE Requested' \/ Spoken'
    BY <2>1, <1>a DEF VoiceResult
  <2>2. ASSUME NEW c \in Commands, StreamBreaks(c) PROVE Requested' \/ Spoken'
    BY <2>2, <1>a DEF StreamBreaks
  <2>3. ASSUME NEW c \in Commands, StreamEnds(c) PROVE Requested' \/ Spoken'
    BY <2>3, <1>t, <1>x DEF StreamEnds, Say
  <2>4. ASSUME NEW c \in Commands, ChatAnswers(c) PROVE Requested' \/ Spoken'
    BY <2>4, <1>t, <1>x DEF ChatAnswers, Say
  <2>5. ASSUME NEW c \in Commands, ChatFails(c) PROVE Requested' \/ Spoken'
    BY <2>5 DEF ChatFails
  <2>6. ASSUME NEW k \in calls, DecideAnswer(k) PROVE Requested' \/ Spoken'
    <3>1. CASE Say("utterance", "decided")  BY <3>1, <1>t, <1>x DEF Say
    <3>2. CASE handling' = FALSE  BY <3>2
    <3>3. QED  BY <2>6, <3>1, <3>2 DEF DecideAnswer
  <2>7. ASSUME NEW k \in calls, DecideFails(k) PROVE Requested' \/ Spoken'
    BY <2>7 DEF DecideFails
  <2>8. QED  BY <1>2, <2>1, <2>2, <2>3, <2>4, <2>5, <2>6, <2>7 DEF Answers
<1>3. CASE User
  <2>1. ASSUME NEW r \in Replies, Hear(r) PROVE Requested' \/ Spoken'
    BY <2>1, <1>q, <1>u DEF Hear
  <2>2. ASSUME NEW approved \in BOOLEAN, Click(approved) PROVE Requested' \/ Spoken'
    BY <2>2, <1>f DEF Click
  <2>3. CASE StopSpeech  BY <2>3, <1>q, <1>s, <1>w DEF StopSpeech
  <2>4. CASE SwitchOff  BY <2>4, <1>q, <1>s, <1>w DEF SwitchOff
  <2>5. CASE SwitchOn  BY <2>5, <1>q, <1>s, <1>w DEF SwitchOn
  <2>6. CASE Close  BY <2>6, <1>q, <1>s, <1>w DEF Close
  <2>7. CASE WakeWord
    <3>1. CASE \E c \in Commands : Command(c)  BY <3>1, <1>c
    <3>2. CASE Speak("utterance", "wake") /\ UNCHANGED <<handling, pc, server>>
      BY <3>2, <1>q, <1>s, <1>w
    <3>3. QED  BY <2>7, <3>1, <3>2 DEF WakeWord
  <2>8. QED  BY <1>3, <2>1, <2>2, <2>3, <2>4, <2>5, <2>6, <2>7 DEF User
<1>4. CASE SpeechFails  BY <1>4 DEF SpeechFails
<1>5. CASE ConfirmationTimesOut
  <2>1. CASE awaiting  BY <1>5, <2>1, <1>q, <1>s, <1>w DEF ConfirmationTimesOut, Say
  <2>2. CASE ~awaiting  BY <1>5, <2>2, <1>q, <1>u DEF ConfirmationTimesOut
  <2>3. QED  BY <2>1, <2>2
<1>6. CASE UNCHANGED vars  BY <1>6, <1>q, <1>u DEF vars
<1>7. QED  BY <1>1, <1>2, <1>3, <1>4, <1>5, <1>6 DEF Next, CommandInv

\* While isHandlingCommand keeps the page from hearing, a request is out, or
\* speech the end of which clears it: however commands, decisions and cancelled
\* speech overlap, none of them leaves the flag to nobody (app.js 2380-2544).
THEOREM CommandsAreUnderWay == Spec => []CommandIsUnderWay
<1>1. Init => CommandInv
  <2>1. Init => BooleansOK /\ CommandIsUnderWay
    BY Zenon DEF Init, BooleansOK, CommandIsUnderWay
  <2>2. Init => DataOK
    BY VoiceAssumption DEF Init, DataOK, Engines
  <2>3. QED  BY <2>1, <2>2 DEF CommandInv
<1>2. CommandInv /\ [Next]_vars => CommandInv'
  BY CommandInvStep
<1>3. CommandInv => CommandIsUnderWay
  BY DEF CommandInv
<1>4. QED  BY <1>1, <1>2, <1>3, PTL DEF Spec

\* No callback of the voice mode leaves the page waiting for what will not
\* come (the callbacks, timers and buttons of app.js 2098-3168).
THEOREM NeverStuck == Spec => []NothingIsStuck
<1>1. NothingIsStuck <=> QuestionsExpire /\ CommandIsUnderWay /\ HearingIsUnderWay
  BY Zenon DEF NothingIsStuck
<1>2. QED  BY <1>1, QuestionsHaveTimers, CommandsAreUnderWay, HearingReturns, PTL

-----------------------------------------------------------------------------
(* Superseded proposals. *)

\* The part of TypeOK the argument uses.
TypesOK ==
  /\ pc \in [Commands -> {"idle", "stream", "result", "chat", "playing", "done"}]
  /\ status \in [Actions -> {"none", "pending", "executed", "rejected", "failed"}]
  /\ calls \subseteq Calls
  /\ superseded \subseteq Actions
  /\ pending \in Actions \union {None} /\ current \in Actions \union {None}

\* Only what exists is superseded, a session that may still propose has not
\* proposed, and the page remembers nothing that is superseded.
SupersededInv ==
  /\ TypesOK
  /\ \A a \in superseded : status[a] # "none"
  /\ \A c \in Commands :
       /\ pc[c] \in {"idle", "stream"} => status[<<c, "stream">>] = "none"
       /\ pc[c] \in {"idle", "stream", "result", "chat"} => status[<<c, "chat">>] = "none"
  /\ pending \notin superseded /\ current \notin superseded

\* Nothing superseded is decided in a step.
NoLateDecision == \A k \in calls' \ calls : k.action \notin superseded

\* The variables the invariant is about.
memory == <<pc, status, calls, superseded, pending, current>>

LEMMA QuietStep == SupersededInv /\ UNCHANGED memory => SupersededInv' /\ NoLateDecision
BY DEF SupersededInv, TypesOK, NoLateDecision, memory

\* Speech that ends moves at most a command that was speaking.
LEMMA FinishedStep ==
  ASSUME NEW t, SupersededInv, Finished(t)
  PROVE  SupersededInv' /\ NoLateDecision
<1>1. UNCHANGED <<pending, current>>
  BY Zenon DEF Finished, Done, EnterConfirming, Ready, question
<1>2. UNCHANGED <<status, calls, superseded>>
  BY DEF Finished, server
<1>3. pc' = [c \in Commands |-> IF c = t THEN "done" ELSE pc[c]]
  BY DEF Finished, SupersededInv, TypesOK
<1>4. QED  BY <1>1, <1>2, <1>3 DEF SupersededInv, TypesOK, NoLateDecision

\* A new command supersedes what exists, and the page forgets it.
LEMMA CommandStep ==
  ASSUME NEW c \in Commands, SupersededInv, Command(c)
  PROVE  SupersededInv' /\ NoLateDecision
BY VoiceAssumption DEF Command, Shown, SupersededInv, TypesOK, NoLateDecision, server, Actions

\* A session proposes an action that did not exist, or answers without one.
LEMMA ResultStep ==
  ASSUME NEW c \in Commands, NEW how \in {"stream", "chat"}, SupersededInv,
         pc[c] = how, pc' = [pc EXCEPT ![c] = IF how = "stream" THEN "result" ELSE "playing"],
         Result(c, how), UNCHANGED <<calls, superseded>>
  PROVE  SupersededInv' /\ NoLateDecision
<1>1. CASE Propose(<<c, how>>)
  BY <1>1 DEF Propose, SupersededInv, TypesOK, NoLateDecision, Actions
<1>2. CASE UNCHANGED <<status, question>>
  BY <1>2 DEF question, SupersededInv, TypesOK, NoLateDecision
<1>3. QED  BY <1>1, <1>2, Zenon DEF Result

\* A session proposes although its answer never reaches the page.
LEMMA LostProposalStep ==
  ASSUME NEW c \in Commands, NEW how \in {"stream", "chat"}, NEW new \in {"chat", "done"},
         SupersededInv, pc[c] \in {how, "result"}, how = "chat" => pc[c] = "chat" /\ new = "done",
         pc' = [pc EXCEPT ![c] = new],
         status' = status \/ (pc[c] = how /\ status' = [status EXCEPT ![<<c, how>>] = "pending"]),
         UNCHANGED <<calls, superseded, pending, current>>
  PROVE  SupersededInv' /\ NoLateDecision
<1>1. CASE UNCHANGED status
  BY <1>1 DEF SupersededInv, TypesOK, NoLateDecision
<1>2. CASE pc[c] = how /\ status' = [status EXCEPT ![<<c, how>>] = "pending"]
  BY <1>2 DEF SupersededInv, TypesOK, NoLateDecision, Actions
<1>3. QED  BY <1>1, <1>2

\* A decision on the action that is on show.
LEMMA DecideStep ==
  ASSUME NEW a \in Actions, NEW approved \in BOOLEAN, NEW via \in {"button", "voice"},
         SupersededInv, a \in {pending, current}, Decide(a, approved, via),
         pending' \in {pending, None}, UNCHANGED <<pc, status, superseded>>
  PROVE  SupersededInv' /\ NoLateDecision
BY VoiceAssumption DEF Decide, SupersededInv, TypesOK, NoLateDecision, Calls

\* The server decides on an action that exists.
LEMMA ServerStep ==
  ASSUME NEW k \in calls, SupersededInv, calls' = calls \ {k},
         NEW new \in {"executed", "rejected", "failed"}, Decided(k, new),
         status' = [status EXCEPT ![k.action] = new],
         UNCHANGED <<pc, superseded, pending, current>>
  PROVE  SupersededInv' /\ NoLateDecision
<1>1. k.action \in Actions /\ status[k.action] # "none"
  BY DEF Decided, SupersededInv, TypesOK, Calls
<1>2. QED  BY <1>1 DEF SupersededInv, TypesOK, NoLateDecision, Actions

\* A reply that settles: a decision, or nothing to decide on.
LEMMA ConfirmationStep ==
  ASSUME NEW r, SupersededInv, Confirmation(r), UNCHANGED <<pc, status, superseded>>
  PROVE  SupersededInv' /\ NoLateDecision
<1> DEFINE a == IF pending # None THEN pending ELSE current
<1>1. CASE UNCHANGED <<question, calls>>
  BY <1>1, QuietStep DEF question, memory
<1>2. CASE pending' = None /\ a = None /\ UNCHANGED <<current, calls>>
  BY <1>2, VoiceAssumption DEF SupersededInv, TypesOK, NoLateDecision
<1>3. CASE pending' = None /\ a # None /\ Decide(a, Decision(r) = "yes", "voice")
  <2>1. a \in Actions /\ a \in {pending, current}
    BY <1>3, VoiceAssumption DEF SupersededInv, TypesOK
  <2>2. (Decision(r) = "yes") \in BOOLEAN
    OBVIOUS
  <2>3. QED  BY <1>3, <2>1, <2>2, DecideStep
<1>4. QED  BY <1>1, <1>2, <1>3, Zenon DEF Confirmation

LEMMA SupersededStep == SupersededInv /\ [Next]_vars => SupersededInv' /\ NoLateDecision
<1> SUFFICES ASSUME SupersededInv, [Next]_vars PROVE SupersededInv' /\ NoLateDecision
  OBVIOUS
<1> USE QuietStep DEF memory, question, server
<1>1. CASE Browser
  <2>1. CASE RecStarts \/ EngineEnds  BY <2>1 DEF RecStarts, EngineEnds
  <2>2. CASE RestartAfterEnd  BY <2>2 DEF RestartAfterEnd
  <2>3. CASE RestartAfterToggle  BY <2>3 DEF RestartAfterToggle
  <2>4. CASE SpeechEnds  BY <2>4, FinishedStep DEF SpeechEnds
  <2>5. CASE HeardSettles
    <3>1. CASE Confirmation(heard) /\ UNCHANGED <<pc, proposal, status, superseded>>
      BY <3>1, ConfirmationStep
    <3>2. CASE \E c \in Commands : Command(c)  BY <3>2, CommandStep
    <3>3. QED  BY <2>5, <3>1, <3>2, Zenon DEF HeardSettles
  <2>6. ASSUME NEW t \in Thens, CancelReported(t) PROVE SupersededInv' /\ NoLateDecision
    <3>1. CASE t = "nothing"  BY <2>6, <3>1 DEF CancelReported
    <3>2. CASE t # "nothing"  BY <2>6, <3>2, FinishedStep DEF CancelReported
    <3>3. QED  BY <3>1, <3>2
  <2>7. QED  BY <1>1, <2>1, <2>2, <2>3, <2>4, <2>5, <2>6, Zenon DEF Browser
<1>2. CASE Answers
  <2>1. ASSUME NEW c \in Commands, VoiceResult(c) PROVE SupersededInv' /\ NoLateDecision
    BY <2>1, ResultStep DEF VoiceResult
  <2>2. ASSUME NEW c \in Commands, StreamBreaks(c) PROVE SupersededInv' /\ NoLateDecision
    BY <2>2, LostProposalStep DEF StreamBreaks
  <2>3. ASSUME NEW c \in Commands, StreamEnds(c) PROVE SupersededInv' /\ NoLateDecision
    BY <2>3 DEF StreamEnds, SupersededInv, TypesOK, NoLateDecision
  <2>4. ASSUME NEW c \in Commands, ChatAnswers(c) PROVE SupersededInv' /\ NoLateDecision
    BY <2>4, ResultStep DEF ChatAnswers
  <2>5. ASSUME NEW c \in Commands, ChatFails(c) PROVE SupersededInv' /\ NoLateDecision
    BY <2>5, LostProposalStep DEF ChatFails
  <2>6. ASSUME NEW k \in calls, DecideAnswer(k) PROVE SupersededInv' /\ NoLateDecision
    BY <2>6, ServerStep DEF DecideAnswer
  <2>7. ASSUME NEW k \in calls, DecideFails(k) PROVE SupersededInv' /\ NoLateDecision
    <3>1. CASE UNCHANGED status
      BY <2>7, <3>1 DEF DecideFails, SupersededInv, TypesOK, NoLateDecision
    <3>2. CASE ~UNCHANGED status  BY <2>7, <3>2, ServerStep DEF DecideFails
    <3>3. QED  BY <3>1, <3>2
  <2>8. QED  BY <1>2, <2>1, <2>2, <2>3, <2>4, <2>5, <2>6, <2>7, Zenon DEF Answers
<1>3. CASE User
  <2>1. ASSUME NEW r \in Replies, Hear(r) PROVE SupersededInv' /\ NoLateDecision
    BY <2>1 DEF Hear
  <2>2. ASSUME NEW approved \in BOOLEAN, Click(approved) PROVE SupersededInv' /\ NoLateDecision
    <3>1. current \in Actions
      BY <2>2 DEF Click, SupersededInv, TypesOK
    <3>2. QED  BY <2>2, <3>1, DecideStep DEF Click
  <2>3. CASE StopSpeech  BY <2>3 DEF StopSpeech
  <2>4. CASE SwitchOff  BY <2>4 DEF SwitchOff
  <2>5. CASE SwitchOn  BY <2>5 DEF SwitchOn
  <2>6. CASE Close
    BY <2>6, VoiceAssumption DEF Close, SupersededInv, TypesOK, NoLateDecision
  <2>7. CASE WakeWord
    <3>1. CASE \E c \in Commands : Command(c)  BY <3>1, CommandStep
    <3>2. CASE UNCHANGED <<question, pc, server, superseded>>  BY <3>2
    <3>3. QED  BY <2>7, <3>1, <3>2, Zenon DEF WakeWord
  <2>8. QED  BY <1>3, <2>1, <2>2, <2>3, <2>4, <2>5, <2>6, <2>7, Zenon DEF User
<1>4. CASE SpeechFails  BY <1>4 DEF SpeechFails
<1>5. CASE ConfirmationTimesOut
  BY <1>5, VoiceAssumption DEF ConfirmationTimesOut, SupersededInv, TypesOK, NoLateDecision
<1>6. CASE UNCHANGED vars  BY <1>6 DEF vars
<1>7. QED  BY <1>1, <1>2, <1>3, <1>4, <1>5, <1>6, Zenon DEF Next

\* Once a newer command was given, neither a late yes nor a click on a card
\* that stayed decides what came before (handleVoiceCommand forgets it at
\* app.js 2391, whichever endpoint proposed it and however its stream ended).
THEOREM SupersededStaysSuperseded == Spec => SupersededIsOver
<1>1. Init => SupersededInv
  BY VoiceAssumption DEF Init, SupersededInv, TypesOK, Actions
<1>2. SupersededInv /\ [Next]_vars => SupersededInv' /\ NoLateDecision
  BY SupersededStep
<1>3. SupersededInv /\ [Next]_vars => [\A k \in calls' \ calls : k.action \notin superseded]_vars
  BY <1>2 DEF NoLateDecision
<1>4. QED  BY <1>1, <1>2, <1>3, PTL DEF Spec, SupersededIsOver
=============================================================================
