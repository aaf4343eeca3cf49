--------------------------- MODULE AgentLoopProofs ---------------------------
(***************************************************************************)
(* Safety of the reasoning loop for any number of texts and contacts and   *)
(* any number of rounds.  Sound ties the budget of a session to its round  *)
(* and its place in it, and what it created to how it ended.  Each step of *)
(* a session takes a completion (Counted) and ends it, begins the next     *)
(* round or proposes: the lemmas below say so once, for records, and the   *)
(* steps cite them.  ClientInv says which sessions of a text can exist     *)
(* while the browser does what it does.                                    *)
(***************************************************************************)
EXTENDS AgentLoop, TLAPS

Endings == ReplyTypes \ {"none", "approval"}

Sound(r) ==
  /\ r \in Runs
  /\ r.calls <= 3 * r.round + 1
  /\ r.pc \in {"idle", "new", "reviewing"} => r.round = 0 /\ r.calls = 0
  /\ r.pc = "asking" => r.attempt \in {1, 2} /\ r.calls + 3 <= 3 * r.round + r.attempt
  /\ r.pc \in {"correcting", "pausing"} => r.calls <= 3 * r.round
  /\ r.reply = "approval" => r.made = 1
  /\ r.made > 0 => r.pc = "done" /\ r.made = 1 /\ r.reply \in {"approval", "error"}
  /\ r.pc # "done" => r.reply = "none"

\* A session with an answer of a model in its hands.
Counted(r) == r \in Runs /\ r.calls <= 3 * r.round + 1 /\ r.made = 0 /\ r.reply = "none"

\* A session that has begun: it never goes back to where no endpoint was called.
Begun(r) == Sound(r) /\ r.pc # "idle"

ClientInv ==
  \A t \in Texts :
    /\ client[t] = "idle" => run[<<t, "stream">>].pc = "idle"
    /\ client[t] \in {"idle", "streaming"} => run[<<t, "buffered">>].pc = "idle"
    /\ run[<<t, "composer">>].pc # "idle" =>
         client[t] = "answered" /\ run[<<t, "stream">>].pc = "idle" /\ run[<<t, "buffered">>].pc = "idle"

LoopInv ==
  /\ run \in [Sessions -> Runs] /\ \A s \in Sessions : Sound(run[s])
  /\ client \in [Texts -> {"idle", "streaming", "fallback", "answered", "failed"}]
  /\ lastContact \in Contacts \union {None} /\ archive \in BOOLEAN /\ newest \in Contacts \union {None}
  /\ ClientInv

-----------------------------------------------------------------------------
(* Records *)

LEMMA ReplySound ==
  ASSUME NEW r, Counted(r), NEW type \in Endings
  PROVE  Begun(Reply(r, type))
<1> USE RoundsAssumption DEF Counted
<1> DEFINE a == [r EXCEPT !.pc = "done"]
           b == [a EXCEPT !.reply = type]
<1>1. a \in Runs /\ a.pc = "done" /\ a.made = 0 /\ a.calls = r.calls /\ a.round = r.round  BY DEF Runs
<1>2. type \in ReplyTypes /\ type # "approval"  BY DEF Endings
<1> HIDE DEF a
<1>3. b \in Runs /\ b.pc = "done" /\ b.made = 0 /\ b.calls = a.calls /\ b.round = a.round /\ b.reply = type
  BY <1>1, <1>2 DEF Runs
<1>4. Reply(r, type) = b  BY DEF Reply, Runs, a
<1> HIDE DEF b
<1>5. Begun(b)  BY <1>1, <1>2, <1>3 DEF Begun, Sound
<1>6. QED  BY <1>4, <1>5

LEMMA NextRoundSound ==
  ASSUME NEW r, Counted(r)
  PROVE  Begun(NextRound(r))
<1> USE RoundsAssumption
<1>1. CASE r.round < MaxRounds
  <2> DEFINE a == [r EXCEPT !.pc = "asking"]
             b == [a EXCEPT !.round = @ + 1]
             c == [b EXCEPT !.attempt = 1]
  <2>1. a \in Runs /\ a.pc = "asking" /\ a.made = 0 /\ a.reply = "none" /\ a.calls = r.calls /\ a.round = r.round
    BY DEF Counted, Runs
  <2> HIDE DEF a
  <2>2. a.round + 1 \in 0..MaxRounds  BY <1>1, <2>1 DEF Runs
  <2>3. b \in Runs /\ b.pc = "asking" /\ b.made = 0 /\ b.reply = "none" /\ b.calls = a.calls /\ b.round = a.round + 1
    BY <2>1, <2>2 DEF Runs
  <2> HIDE DEF b
  <2>4. c \in Runs /\ c.pc = "asking" /\ c.made = 0 /\ c.reply = "none" /\ c.calls = b.calls /\ c.round = b.round
        /\ c.attempt = 1
    BY <2>3 DEF Runs
  <2>5. NextRound(r) = c  BY <1>1 DEF NextRound, Counted, Runs, a, b
  <2> HIDE DEF c
  <2>6. r.calls \in Nat /\ r.round \in Nat /\ r.calls <= 3 * r.round + 1  BY DEF Counted, Runs
  <2>7. c.calls + 3 <= 3 * c.round + c.attempt /\ c.calls <= 3 * c.round + 1  BY <2>1, <2>3, <2>4, <2>6
  <2>8. Begun(c)  BY <2>4, <2>7 DEF Begun, Sound
  <2>9. QED  BY <2>5, <2>8
<1>2. CASE ~(r.round < MaxRounds)
  <2>1. NextRound(r) = Reply(r, IF r.filter THEN "filtered" ELSE "error")  BY <1>2 DEF NextRound
  <2>2. (IF r.filter THEN "filtered" ELSE "error") \in Endings  BY DEF Endings, ReplyTypes
  <2>3. QED  BY <2>1, <2>2, ReplySound
<1>3. QED  BY <1>1, <1>2

LEMMA AnsweredSound ==
  ASSUME NEW r, Counted(r), NEW claims \in BOOLEAN
  PROVE  Begun(Answered(r, claims))
<1> USE RoundsAssumption
<1> DEFINE g == IF r.needs # "tool" THEN "absent" ELSE IF Citable(r) THEN "yes" ELSE "no"
           a == Reply(r, "answer")
           b == [a EXCEPT !.claims = claims]
           c == [b EXCEPT !.grounded = g]
<1>1. Begun(a) /\ a.pc = "done" /\ a.reply = "answer"
  <2>1. "answer" \in Endings  BY DEF Endings, ReplyTypes
  <2>2. QED  BY <2>1, ReplySound DEF Reply, Counted, Runs
<1>2. a \in Runs /\ a.made = 0
  <2>1. a \in Runs /\ a.made \in Nat  BY <1>1 DEF Begun, Sound, Runs
  <2>2. ~(a.made > 0)  BY <1>1 DEF Begun, Sound
  <2>3. QED  BY <2>1, <2>2
<1>3. g \in {"absent", "yes", "no"}  OBVIOUS
<1>4. Answered(r, claims) = c
  BY <1>2 DEF Answered, Runs
<1> HIDE DEF g, a
<1>5. b \in Runs /\ b.pc = a.pc /\ b.made = a.made /\ b.calls = a.calls /\ b.round = a.round /\ b.reply = a.reply
  BY <1>2 DEF Runs
<1> HIDE DEF b
<1>6. c \in Runs /\ c.pc = b.pc /\ c.made = b.made /\ c.calls = b.calls /\ c.round = b.round /\ c.reply = b.reply
  BY <1>3, <1>5 DEF Runs
<1> HIDE DEF c
<1>7. Begun(c)  BY <1>1, <1>2, <1>5, <1>6 DEF Begun, Sound
<1>8. QED  BY <1>4, <1>7

\* The one step that creates an action ends the session.
LEMMA ProposedSound ==
  ASSUME NEW r, Counted(r), archive \in BOOLEAN
  PROVE  Begun(Proposed(r))
<1> USE RoundsAssumption
<1> DEFINE type == IF archive THEN "approval" ELSE "error"
           a == [r EXCEPT !.pc = "done"]
           b == [a EXCEPT !.reply = type]
           c == [b EXCEPT !.made = @ + 1]
<1>1. a \in Runs /\ a.pc = "done" /\ a.made = 0 /\ a.calls = r.calls /\ a.round = r.round  BY DEF Counted, Runs
<1>2. type \in ReplyTypes /\ type \in {"approval", "error"}  BY DEF ReplyTypes
<1>3. Proposed(r) = c  BY DEF Proposed, Reply, Counted, Runs
<1> HIDE DEF a, type
<1>4. b \in Runs /\ b.pc = "done" /\ b.made = 0 /\ b.calls = a.calls /\ b.round = a.round /\ b.reply = type
  BY <1>1, <1>2 DEF Runs
<1> HIDE DEF b
<1>5. c \in Runs /\ c.pc = "done" /\ c.made = 1 /\ c.calls = b.calls /\ c.round = b.round /\ c.reply = type
  BY <1>4 DEF Runs
<1> HIDE DEF c
<1>6. c.calls <= 3 * c.round + 1  BY <1>1, <1>4, <1>5 DEF Counted
<1>7. Begun(c)  BY <1>2, <1>5, <1>6 DEF Begun, Sound
<1>8. QED  BY <1>3, <1>7

\* A completion is paid for: it fits the round whatever the session does next.
LEMMA AskedCounted ==
  ASSUME NEW s \in Sessions, Sound(run[s]), run[s].pc \in {"asking", "correcting"}
  PROVE  /\ Counted(Asked(s)) /\ Counted(Streamed(s))
         /\ Asked(s).pc = run[s].pc /\ Streamed(s).pc = run[s].pc
         /\ Asked(s).round = run[s].round /\ Streamed(s).round = run[s].round
         /\ Asked(s).calls = run[s].calls + 1 /\ Streamed(s).calls = run[s].calls + 1
         /\ Streamed(s).shown = run[s].shown + 1
         /\ run[s].pc = "asking" => Asked(s).calls <= 3 * run[s].round
<1> USE RoundsAssumption
<1> DEFINE r == run[s]
           a == [r EXCEPT !.calls = @ + 1]
           b == [a EXCEPT !.shown = @ + 1]
<1>1. Asked(s) = a /\ Streamed(s) = b  BY DEF Asked, Streamed
<1>2. r \in Runs /\ r.reply = "none" /\ r.made = 0
  <2>1. r \in Runs /\ r.made \in Nat /\ r.pc # "done"  BY DEF Sound, Runs
  <2>2. ~(r.made > 0) /\ r.reply = "none"  BY <2>1 DEF Sound
  <2>3. QED  BY <2>1, <2>2
<1>3. r.calls <= 3 * r.round /\ (r.pc = "asking" => r.calls + 1 <= 3 * r.round)
  <2>1. r.calls \in Nat /\ r.round \in Nat  BY <1>2 DEF Runs
  <2>2. CASE r.pc = "asking"
    <3>1. r.attempt \in {1, 2} /\ r.calls + 3 <= 3 * r.round + r.attempt  BY <2>2 DEF Sound
    <3>2. QED  BY <2>1, <3>1
  <2>3. CASE r.pc = "correcting"  BY <2>3 DEF Sound
  <2>4. QED  BY <2>2, <2>3
<1>4. a \in Runs /\ a.calls = r.calls + 1 /\ a.round = r.round /\ a.made = 0 /\ a.reply = "none" /\ a.pc = r.pc
      /\ a.shown = r.shown
  BY <1>2 DEF Runs
<1> HIDE DEF a
<1>5. b \in Runs /\ b.calls = a.calls /\ b.round = a.round /\ b.made = 0 /\ b.reply = "none" /\ b.pc = a.pc
      /\ b.shown = a.shown + 1
  BY <1>4 DEF Runs
<1> HIDE DEF b
<1>6. r.calls \in Nat /\ r.round \in Nat  BY <1>2 DEF Runs
<1>7. QED  BY <1>1, <1>2, <1>3, <1>4, <1>5, <1>6 DEF Counted

-----------------------------------------------------------------------------
(* Steps of a session *)

Named == Contacts \union {None}

LEMMA LoopInit == Init => LoopInv
<1> SUFFICES ASSUME Init PROVE LoopInv
  OBVIOUS
<1> USE ContactsAssumption, RoundsAssumption DEF Init
<1>1. NewRun \in Runs
  <2>1. <<>> \in Seq(Lookups)  OBVIOUS
  <2>2. QED  BY <2>1 DEF NewRun, Runs, Needs, ReplyTypes
<1>2. Sound(NewRun) /\ NewRun.pc = "idle"
  <2>1. /\ NewRun.pc = "idle" /\ NewRun.round = 0 /\ NewRun.calls = 0 /\ NewRun.made = 0
        /\ NewRun.reply = "none"
    BY DEF NewRun
  <2>2. QED  BY <1>1, <2>1 DEF Sound
<1> HIDE DEF NewRun
<1>3. run \in [Sessions -> Runs] /\ \A s \in Sessions : Sound(run[s]) /\ run[s].pc = "idle"  BY <1>1, <1>2
<1>4. \A t \in Texts, m \in Modes : <<t, m>> \in Sessions  BY DEF Sessions
<1>5. ClientInv  BY <1>3, <1>4 DEF ClientInv, Modes
<1>6. QED  BY <1>3, <1>5 DEF LoopInv

\* A session that has begun takes a step; no other session, and no browser, does.
LEMMA OneSession ==
  ASSUME LoopInv, NEW s \in Sessions, run[s].pc # "idle", NEW r, Begun(r), run' = [run EXCEPT ![s] = r],
         client' = client, lastContact' \in Named, archive' \in BOOLEAN, newest' \in Named
  PROVE  LoopInv'
<1>1. r \in Runs /\ Sound(r) /\ r.pc # "idle"  BY DEF Begun, Sound
<1>2. run \in [Sessions -> Runs] /\ \A q \in Sessions : Sound(run[q])  BY DEF LoopInv
<1>3. /\ run' \in [Sessions -> Runs] /\ \A q \in Sessions : run'[q] = IF q = s THEN r ELSE run[q]
  BY <1>1, <1>2
<1>4. \A q \in Sessions : Sound(run'[q]) /\ (run'[q].pc = "idle" <=> run[q].pc = "idle")  BY <1>1, <1>2, <1>3
<1>5. \A t \in Texts, m \in Modes : <<t, m>> \in Sessions  BY DEF Sessions
<1>6. ClientInv'  BY <1>4, <1>5 DEF LoopInv, ClientInv, Modes
<1>7. QED  BY <1>3, <1>4, <1>6 DEF LoopInv, Named

\* _create_mutating_action: refused, or proposed.
LEMMA MutatingSound ==
  ASSUME LoopInv, NEW s \in Sessions, NEW c \in Contacts, NEW deletes \in BOOLEAN, NEW r, Counted(r),
         MutatingAction(s, c, deletes, r)
  PROVE  /\ \E q : Begun(q) /\ run' = [run EXCEPT ![s] = q]
         /\ lastContact' \in Named
<1>1. Begun(Reply(r, "blocked"))
  <2>1. "blocked" \in Endings  BY DEF Endings, ReplyTypes
  <2>2. QED  BY <2>1, ReplySound
<1>2. Begun(Proposed(r))  BY ProposedSound DEF LoopInv
<1>3. lastContact \in Named  BY DEF LoopInv, Named
<1>4. QED  BY <1>1, <1>2, <1>3 DEF MutatingAction, Named

\* Before the loop: the request is counted once the supervisor was asked.
LEMMA BeforeLoopStep ==
  ASSUME LoopInv, NEW s \in Sessions,
         Begin(s) \/ AnswerLocally(s) \/ Understood(s) \/ FastPathSend(s)
  PROVE  LoopInv'
<1> USE ContactsAssumption, RoundsAssumption
<1>1. /\ client' = client /\ archive' = archive /\ archive \in BOOLEAN /\ newest' \in Named
      /\ lastContact \in Named /\ run[s].pc \in {"new", "reviewing"} /\ Sound(run[s])
  BY DEF Begin, AnswerLocally, Understood, FastPathSend, LoopInv, Named
<1>2. run[s] \in Runs /\ run[s].made = 0 /\ run[s].reply = "none" /\ run[s].calls = 0 /\ run[s].round = 0
  <2>1. run[s] \in Runs /\ run[s].made \in Nat /\ run[s].pc # "done"  BY <1>1 DEF Sound, Runs
  <2>2. ~(run[s].made > 0)  BY <1>1, <2>1 DEF Sound
  <2>3. QED  BY <1>1, <2>1, <2>2 DEF Sound
<1>3. ASSUME NEW n \in Needs, NEW x \in Named
      PROVE  /\ Counted([run[s] EXCEPT !.calls = @ + 1, !.needs = n, !.context = x])
             /\ Counted([run[s] EXCEPT !.calls = @ + 1, !.needs = n])
  <2> DEFINE a == [run[s] EXCEPT !.calls = @ + 1]
             b == [a EXCEPT !.needs = n]
             c == [b EXCEPT !.context = x]
  <2>1. a \in Runs /\ a.made = 0 /\ a.reply = "none" /\ a.calls = 1 /\ a.round = 0  BY <1>2 DEF Runs
  <2>2. [run[s] EXCEPT !.calls = @ + 1, !.needs = n] = b
        /\ [run[s] EXCEPT !.calls = @ + 1, !.needs = n, !.context = x] = c
    BY <1>2 DEF Runs
  <2> HIDE DEF a
  <2>3. b \in Runs /\ b.made = 0 /\ b.reply = "none" /\ b.calls = 1 /\ b.round = 0  BY <2>1 DEF Runs
  <2> HIDE DEF b
  <2>4. c \in Runs /\ c.made = 0 /\ c.reply = "none" /\ c.calls = 1 /\ c.round = 0  BY <2>3 DEF Runs, Named
  <2> HIDE DEF c
  <2>5. Counted(b) /\ Counted(c)  BY <2>3, <2>4 DEF Counted
  <2>6. QED  BY <2>2, <2>5
<1>4. CASE Begin(s)
  <2>1. PICK n \in Needs : run' = [run EXCEPT ![s] = [run[s] EXCEPT !.pc = "reviewing", !.needs = n]]
    BY <1>4 DEF Begin
  <2> DEFINE a == [run[s] EXCEPT !.pc = "reviewing"]
             b == [a EXCEPT !.needs = n]
  <2>2. a \in Runs /\ a.made = 0 /\ a.reply = "none" /\ a.calls = 0 /\ a.round = 0 /\ a.pc = "reviewing"
    BY <1>2 DEF Runs
  <2>3. [run[s] EXCEPT !.pc = "reviewing", !.needs = n] = b  BY <1>2 DEF Runs
  <2> HIDE DEF a
  <2>4. b \in Runs /\ b.made = 0 /\ b.reply = "none" /\ b.calls = 0 /\ b.round = 0 /\ b.pc = "reviewing"
    BY <2>2 DEF Runs
  <2> HIDE DEF b
  <2>5. Begun(b)  BY <2>4 DEF Begun, Sound
  <2>6. lastContact' \in Named  BY <1>1, <1>4 DEF Begin
  <2>7. run' = [run EXCEPT ![s] = b] /\ run[s].pc # "idle"  BY <1>1, <2>1, <2>3
  <2>8. QED  BY <1>1, <2>5, <2>6, <2>7, OneSession
<1>5. CASE AnswerLocally(s)
  <2>1. PICK type \in {"answer", "error"} : run' = [run EXCEPT ![s] = Reply(run[s], type)]
    BY <1>5 DEF AnswerLocally
  <2>2. type \in Endings  BY DEF Endings, ReplyTypes
  <2>3. Counted(run[s])  BY <1>2 DEF Counted
  <2>4. Begun(Reply(run[s], type))  BY <2>2, <2>3, ReplySound
  <2>5. lastContact' \in Named  BY <1>1, <1>5 DEF AnswerLocally
  <2>6. QED  BY <1>1, <2>1, <2>4, <2>5, OneSession
<1>6. CASE Understood(s)
  <2>1. PICK n \in Needs, pronoun \in BOOLEAN :
          LET noted == pronoun /\ lastContact # None
              r == [run[s] EXCEPT !.calls = @ + 1,
                                  !.needs = IF noted THEN "tool" ELSE n,
                                  !.context = IF noted THEN lastContact ELSE None]
          IN run' = [run EXCEPT ![s] =
                       IF r.needs = "tool" /\ ~archive THEN Reply(r, "error") ELSE NextRound(r)]
    BY <1>6 DEF Understood
  <2> DEFINE noted == pronoun /\ lastContact # None
             m == IF noted THEN "tool" ELSE n
             x == IF noted THEN lastContact ELSE None
             r == [run[s] EXCEPT !.calls = @ + 1, !.needs = m, !.context = x]
  <2>2. m \in Needs /\ x \in Named  BY <1>1 DEF Needs, Named
  <2>3. run' = [run EXCEPT ![s] = IF r.needs = "tool" /\ ~archive THEN Reply(r, "error") ELSE NextRound(r)]
    BY <2>1
  <2> HIDE DEF m, x
  <2>4. Counted(r)  BY <1>3, <2>2
  <2> HIDE DEF r
  <2>5. "error" \in Endings  BY DEF Endings, ReplyTypes
  <2>6. Begun(Reply(r, "error")) /\ Begun(NextRound(r))  BY <2>4, <2>5, ReplySound, NextRoundSound
  <2>7. \E q : Begun(q) /\ run' = [run EXCEPT ![s] = q]  BY <2>3, <2>6
  <2>8. lastContact' \in Named  BY <1>1, <1>6 DEF Understood
  <2>9. QED  BY <1>1, <2>7, <2>8, OneSession
<1>7. CASE FastPathSend(s)
  <2>1. PICK n \in Needs, c \in Contacts :
          MutatingAction(s, c, FALSE, [run[s] EXCEPT !.calls = @ + 1, !.needs = n])
    BY <1>7 DEF FastPathSend
  <2>2. Counted([run[s] EXCEPT !.calls = @ + 1, !.needs = n])  BY <1>3 DEF Named
  <2>3. /\ \E q : Begun(q) /\ run' = [run EXCEPT ![s] = q]
        /\ lastContact' \in Named
    BY <2>1, <2>2, MutatingSound
  <2>4. QED  BY <1>1, <2>3, OneSession
<1>8. QED  BY <1>4, <1>5, <1>6, <1>7

\* Whatever the model answers, the session ends or goes on to its next round.
LEMMA AnswerStep ==
  ASSUME LoopInv, NEW s \in Sessions,
         \/ EmptyReply(s) \/ TextReply(s) \/ CorrectionFails(s) \/ JsonAnswer(s) \/ BadProposal(s)
         \/ MutatingTool(s) \/ Resume(s)
  PROVE  LoopInv'
<1> USE ContactsAssumption
<1>1. /\ client' = client /\ archive' = archive /\ archive \in BOOLEAN /\ newest' \in Named
      /\ lastContact \in Named /\ Sound(run[s]) /\ run[s].pc \in {"asking", "correcting", "pausing"}
  BY DEF EmptyReply, TextReply, CorrectionFails, JsonAnswer, BadProposal, MutatingTool, Resume, JsonReply,
         LoopInv, Named
<1>2. run[s].pc # "pausing" => Counted(Asked(s)) /\ Counted(Streamed(s))  BY <1>1, AskedCounted
<1>3. "error" \in Endings  BY DEF Endings, ReplyTypes
<1>4. SUFFICES (\E q : Begun(q) /\ run' = [run EXCEPT ![s] = q]) /\ lastContact' \in Named
  BY <1>1, OneSession
<1>5. CASE EmptyReply(s)
  BY <1>1, <1>2, <1>5, NextRoundSound DEF EmptyReply
<1>6. CASE BadProposal(s)
  BY <1>1, <1>2, <1>6, NextRoundSound DEF BadProposal, JsonReply
<1>7. CASE CorrectionFails(s)
  BY <1>1, <1>2, <1>3, <1>7, ReplySound DEF CorrectionFails
<1>8. CASE JsonAnswer(s)
  BY <1>1, <1>2, <1>8, AnsweredSound DEF JsonAnswer, JsonReply
<1>9. CASE MutatingTool(s)
  <2>1. PICK c \in Contacts, deletes \in BOOLEAN : MutatingAction(s, c, deletes, Asked(s))
    BY <1>9 DEF MutatingTool
  <2>2. Counted(Asked(s))  BY <1>2, <1>9 DEF MutatingTool, JsonReply
  <2>3. QED  BY <2>1, <2>2, MutatingSound
<1>10. CASE Resume(s)
  <2>1. run[s].pc = "pausing"  BY <1>10 DEF Resume
  <2>2. run[s] \in Runs /\ run[s].made \in Nat  BY <1>1 DEF Sound, Runs
  <2>3. run[s].reply = "none" /\ ~(run[s].made > 0)  BY <1>1, <2>1 DEF Sound
  <2>4. Counted(run[s])  BY <1>1, <2>2, <2>3 DEF Counted, Sound
  <2>5. QED  BY <1>1, <1>10, <2>4, NextRoundSound DEF Resume
<1>11. CASE TextReply(s)
  <2> DEFINE r == Streamed(s)
  <2>1. Counted(r)  BY <1>2, <1>11 DEF TextReply
  <2>2. Promoted(r) \in Named
    <3>1. r.lookups \in Seq(Lookups)  BY <2>1 DEF Counted, Runs
    <3> HIDE DEF r
    <3>2. CASE r.lookups = <<>>  BY <3>2 DEF Promoted, Named
    <3>3. CASE r.lookups # <<>>
      <4>1. Len(r.lookups) \in 1..Len(r.lookups)  BY <3>1, <3>3
      <4>2. r.lookups[Len(r.lookups)] \in Lookups  BY <3>1, <4>1
      <4>3. QED  BY <3>3, <4>2 DEF Promoted, Lookups, Named
    <3>4. QED  BY <3>2, <3>3
  <2>3. PICK claims \in BOOLEAN :
          \/ /\ Ungrounded(r, claims)
             /\ run' = [run EXCEPT ![s] = NextRound(r)]
             /\ UNCHANGED lastContact
          \/ /\ ~Ungrounded(r, claims)
             /\ run' = [run EXCEPT ![s] =
                  IF Promoted(r) # None /\ ~archive THEN Reply(r, "error") ELSE Answered(r, claims)]
             /\ lastContact' = IF Promoted(r) # None /\ archive THEN Promoted(r) ELSE lastContact
    BY <1>11 DEF TextReply
  <2> HIDE DEF r
  <2>4. Begun(NextRound(r)) /\ Begun(Reply(r, "error")) /\ Begun(Answered(r, claims))
    BY <1>3, <2>1, NextRoundSound, ReplySound, AnsweredSound
  <2>5. QED  BY <1>1, <2>2, <2>3, <2>4
<1>12. QED  BY <1>5, <1>6, <1>7, <1>8, <1>9, <1>10, <1>11

\* A failed completion is retried within its round, once, ends the session, or
\* is the provider's filter, which costs a round; a broken reply is corrected.
LEMMA FailureStep ==
  ASSUME LoopInv, NEW s \in Sessions,
         FirstTokenFails(s) \/ CompletionFails(s) \/ FilterRefuses(s) \/ MalformedReply(s)
  PROVE  LoopInv'
<1> USE ContactsAssumption
<1>1. /\ UNCHANGED <<client, lastContact, archive, newest>> /\ run[s].pc = "asking"
      /\ Sound(run[s]) /\ run[s] \in Runs
  BY DEF FirstTokenFails, CompletionFails, FilterRefuses, MalformedReply, LoopInv, Sound
<1>2. /\ Counted(Asked(s)) /\ Counted(Streamed(s))
      /\ Asked(s).round = run[s].round /\ Streamed(s).round = run[s].round
      /\ Asked(s).calls = run[s].calls + 1 /\ Streamed(s).calls = run[s].calls + 1
      /\ Asked(s).calls <= 3 * run[s].round
  BY <1>1, AskedCounted
<1>3. "error" \in Endings /\ "filtered" \in Endings  BY DEF Endings, ReplyTypes
<1>4. SUFFICES \E q : Begun(q) /\ run' = [run EXCEPT ![s] = q]
  <2>1. lastContact' \in Named /\ archive' \in BOOLEAN /\ newest' \in Named /\ client' = client
    BY <1>1 DEF LoopInv, Named
  <2>2. QED  BY <1>1, <1>4, <2>1, OneSession
<1>5. CASE FirstTokenFails(s)
  <2> DEFINE r == Asked(s)
             a == [r EXCEPT !.attempt = 2]
  <2>1. run[s].attempt = 1 /\ run' = [run EXCEPT ![s] = a]  BY <1>5 DEF FirstTokenFails
  <2>2. r \in Runs /\ r.pc = "asking" /\ r.made = 0 /\ r.reply = "none" /\ r.calls + 3 <= 3 * r.round + 2
    <3>1. r.pc = "asking"  BY <1>1, AskedCounted
    <3>2. run[s].calls + 3 <= 3 * run[s].round + 1  BY <1>1, <2>1 DEF Sound
    <3>3. run[s].calls \in Nat /\ run[s].round \in Nat  BY <1>1, RoundsAssumption DEF Runs
    <3>4. QED  BY <1>2, <3>1, <3>2, <3>3 DEF Counted
  <2> HIDE DEF r
  <2>3. a \in Runs /\ a.pc = "asking" /\ a.made = 0 /\ a.reply = "none" /\ a.calls = r.calls /\ a.round = r.round
        /\ a.attempt = 2
    <3>1. r \in Runs /\ r.pc = "asking" /\ r.made = 0 /\ r.reply = "none"  BY <2>2
    <3>2. 2 \in 0..2  OBVIOUS
    <3>3. QED  BY ONLY <3>1, <3>2 DEF Runs
  <2> HIDE DEF a
  <2>4. Begun(a)
    <3>1. r.calls \in Nat /\ r.round \in Nat  BY <2>2, RoundsAssumption DEF Runs
    <3>2. a.calls + 3 <= 3 * a.round + a.attempt /\ a.calls <= 3 * a.round + 1  BY <2>2, <2>3, <3>1
    <3>3. QED  BY <2>3, <3>2 DEF Begun, Sound
  <2>5. QED  BY <2>1, <2>4
<1>6. CASE CompletionFails(s)
  <2>1. PICK r \in {Asked(s), Streamed(s)} : run' = [run EXCEPT ![s] = Reply([r EXCEPT !.filter = FALSE], "error")]
    BY <1>6 DEF CompletionFails
  <2> DEFINE a == [r EXCEPT !.filter = FALSE]
  <2>2. Counted(r)  BY <1>2
  <2>3. a \in Runs /\ a.made = 0 /\ a.reply = "none" /\ a.calls = r.calls /\ a.round = r.round
    BY <2>2 DEF Counted, Runs
  <2> HIDE DEF a
  <2>4. Counted(a)  BY <2>2, <2>3 DEF Counted
  <2>5. QED  BY <1>3, <2>1, <2>4, ReplySound DEF a
<1>7. CASE FilterRefuses(s)
  <2>1. PICK r0 \in {Asked(s), Streamed(s)} :
          LET r == [r0 EXCEPT !.filter = TRUE]
              again == [r EXCEPT !.retries = @ + 1]
          IN run' = [run EXCEPT ![s] =
               IF r.retries = 2 THEN Reply(r, "filtered")
               ELSE IF r.retries = 0 /\ r.lookups # <<>>
                    THEN NextRound([again EXCEPT !.lookups = <<>>])
                    ELSE [again EXCEPT !.pc = "pausing"]]
    BY <1>7 DEF FilterRefuses
  <2> DEFINE r == [r0 EXCEPT !.filter = TRUE]
             again == [r EXCEPT !.retries = @ + 1]
             fresh == [again EXCEPT !.lookups = <<>>]
             pause == [again EXCEPT !.pc = "pausing"]
  <2>2. Counted(r0) /\ r0.calls <= 3 * r0.round  BY <1>2
  <2>3. r \in Runs /\ r.made = 0 /\ r.reply = "none" /\ r.calls = r0.calls /\ r.round = r0.round
    BY <2>2 DEF Counted, Runs
  <2>4. run' = [run EXCEPT ![s] = IF r.retries = 2 THEN Reply(r, "filtered")
                                  ELSE IF r.retries = 0 /\ r.lookups # <<>> THEN NextRound(fresh) ELSE pause]
    BY <2>1
  <2> HIDE DEF r
  <2>5. Counted(r) /\ r.calls <= 3 * r.round  BY <2>2, <2>3 DEF Counted
  <2>6. CASE r.retries = 2  BY <1>3, <2>4, <2>5, <2>6, ReplySound
  <2>7. CASE r.retries # 2
    <3>1. r.retries \in 0..2 /\ r.retries + 1 \in 0..2  BY <2>3, <2>7 DEF Runs
    <3>2. again \in Runs /\ again.made = 0 /\ again.reply = "none" /\ again.calls = r.calls /\ again.round = r.round
      BY <2>3, <3>1 DEF Runs
    <3> HIDE DEF again
    <3>3. fresh \in Runs /\ fresh.made = 0 /\ fresh.reply = "none" /\ fresh.calls = r.calls /\ fresh.round = r.round
      <4>1. <<>> \in Seq(Lookups)  OBVIOUS
      <4>2. QED  BY <3>2, <4>1 DEF Runs
    <3>4. pause \in Runs /\ pause.made = 0 /\ pause.reply = "none" /\ pause.calls = r.calls /\ pause.round = r.round
          /\ pause.pc = "pausing"
      BY <3>2 DEF Runs
    <3> HIDE DEF fresh, pause
    <3>5. Begun(NextRound(fresh))
      <4>1. Counted(fresh)  BY <2>5, <3>3 DEF Counted
      <4>2. QED  BY <4>1, NextRoundSound
    <3>6. Begun(pause)  BY <2>5, <3>4 DEF Counted, Begun, Sound
    <3>7. QED  BY <2>4, <2>7, <3>5, <3>6
  <2>8. QED  BY <2>6, <2>7
<1>8. CASE MalformedReply(s)
  <2> DEFINE r == Asked(s)
             a == [r EXCEPT !.pc = "correcting"]
  <2>1. run' = [run EXCEPT ![s] = a]  BY <1>8 DEF MalformedReply
  <2>2. Counted(r) /\ r.calls <= 3 * r.round  BY <1>2
  <2> HIDE DEF r
  <2>3. a \in Runs /\ a.made = 0 /\ a.reply = "none" /\ a.calls = r.calls /\ a.round = r.round /\ a.pc = "correcting"
    BY <2>2 DEF Counted, Runs
  <2> HIDE DEF a
  <2>4. Begun(a)  BY <2>2, <2>3 DEF Counted, Begun, Sound
  <2>5. QED  BY <2>1, <2>4
<1>9. QED  BY <1>5, <1>6, <1>7, <1>8

LEMMA ReadToolStep ==
  ASSUME LoopInv, NEW s \in Sessions, ReadTool(s)
  PROVE  LoopInv'
<1> USE ContactsAssumption
<1>1. PICK l \in Lookups :
        /\ run' = [run EXCEPT ![s] = NextRound([Asked(s) EXCEPT !.lookups = Append(@, l)])]
        /\ newest' = IF l.jid = None THEN newest ELSE l.jid
  BY DEF ReadTool
<1>2. /\ UNCHANGED <<client, lastContact, archive>> /\ run[s].pc \in {"asking", "correcting"} /\ Sound(run[s])
  BY DEF ReadTool, JsonReply, LoopInv
<1> DEFINE r == Asked(s)
           a == [r EXCEPT !.lookups = Append(@, l)]
<1>3. Counted(r)  BY <1>2, AskedCounted
<1>4. Append(r.lookups, l) \in Seq(Lookups)  BY <1>3 DEF Counted, Runs
<1> HIDE DEF r
<1>5. a \in Runs /\ a.made = 0 /\ a.reply = "none" /\ a.calls = r.calls /\ a.round = r.round
  BY <1>3, <1>4 DEF Counted, Runs
<1>6. run' = [run EXCEPT ![s] = NextRound(a)]  BY <1>1 DEF r
<1> HIDE DEF a
<1>7. Begun(NextRound(a))
  <2>1. Counted(a)  BY <1>3, <1>5 DEF Counted
  <2>2. QED  BY <2>1, NextRoundSound
<1>8. newest' \in Named /\ lastContact' \in Named /\ archive' \in BOOLEAN
  BY <1>1, <1>2 DEF LoopInv, Named, Lookups
<1>9. QED  BY <1>2, <1>6, <1>7, <1>8, OneSession

-----------------------------------------------------------------------------
(* Steps of the browser and the endpoints *)

\* One session of a text is moved to another control point by an endpoint.
LEMMA MovedSound ==
  ASSUME NEW r, Sound(r), r.pc # "done", NEW pc \in {"new", "cancelled"}, pc = "new" => r.pc = "idle"
  PROVE  Begun([r EXCEPT !.pc = pc])
<1> USE RoundsAssumption
<1> DEFINE a == [r EXCEPT !.pc = pc]
<1>1. r \in Runs /\ r.made \in Nat  BY DEF Sound, Runs
<1>2. a \in Runs /\ a.made = r.made /\ a.reply = r.reply /\ a.calls = r.calls /\ a.round = r.round /\ a.pc = pc
  BY <1>1 DEF Runs
<1> HIDE DEF a
<1>3. r.reply = "none" /\ ~(r.made > 0)  BY DEF Sound
<1>4. Begun(a)  BY <1>1, <1>2, <1>3 DEF Begun, Sound
<1>5. QED  BY <1>4 DEF a

LEMMA BrowserStep ==
  ASSUME LoopInv, NEW t \in Texts,
         Send(t) \/ SendDraft(t) \/ Receive(t) \/ StreamBreaks(t) \/ GiveUp(t) \/ CancelStream(t)
  PROVE  LoopInv'
<1> USE ContactsAssumption
<1>1. /\ run \in [Sessions -> Runs] /\ \A s \in Sessions : Sound(run[s])
      /\ client \in [Texts -> {"idle", "streaming", "fallback", "answered", "failed"}] /\ ClientInv
  BY DEF LoopInv
<1>2. \A u \in Texts, m \in Modes : <<u, m>> \in Sessions  BY DEF Sessions
<1>3. \A m \in {"stream", "buffered", "composer"} : <<t, m>> \in Sessions  BY <1>2 DEF Modes
<1>4. /\ lastContact' \in Named /\ archive' \in BOOLEAN /\ newest' \in Named
      /\ \E x \in {"idle", "streaming", "fallback", "answered", "failed"} : client' = [client EXCEPT ![t] = x]
  <2>1. /\ archive' = archive /\ newest' = newest /\ archive \in BOOLEAN /\ newest \in Named /\ lastContact \in Named
    BY DEF Send, SendDraft, Receive, StreamBreaks, GiveUp, CancelStream, LoopInv, Named
  <2>2. lastContact' \in Named
    BY <2>1 DEF Send, SendDraft, Receive, StreamBreaks, GiveUp, CancelStream, MutatingAction, Named
  <2>3. \E x \in {"idle", "streaming", "fallback", "answered", "failed"} : client' = [client EXCEPT ![t] = x]
    <3>1. CASE CancelStream(t)
      <4>1. client' = [client EXCEPT ![t] = client[t]]  BY <1>1, <3>1 DEF CancelStream
      <4>2. QED  BY <1>1, <4>1
    <3>2. CASE ~CancelStream(t)  BY <3>2 DEF Send, SendDraft, Receive, StreamBreaks, GiveUp
    <3>3. QED  BY <3>1, <3>2
  <2>4. QED  BY <2>1, <2>2, <2>3
<1>5. client' \in [Texts -> {"idle", "streaming", "fallback", "answered", "failed"}]
      /\ \A u \in Texts \ {t} : client'[u] = client[u]
  BY <1>1, <1>4
<1>6. ASSUME NEW m \in Modes, NEW r, Begun(r), run' = [run EXCEPT ![<<t, m>>] = r],
             \/ m = "stream" /\ run[<<t, "composer">>].pc = "idle" /\ client'[t] # "idle"
                  /\ (client'[t] = "streaming" => run[<<t, "buffered">>].pc = "idle")
             \/ m = "buffered" /\ run[<<t, "composer">>].pc = "idle" /\ client'[t] \notin {"idle", "streaming"}
             \/ m = "composer" /\ client'[t] = "answered" /\ run[<<t, "stream">>].pc = "idle"
                  /\ run[<<t, "buffered">>].pc = "idle"
      PROVE  LoopInv'
  <2>1. r \in Runs /\ Sound(r) /\ r.pc # "idle"  BY <1>6 DEF Begun, Sound
  <2>2. run' \in [Sessions -> Runs] /\ \A q \in Sessions : run'[q] = IF q = <<t, m>> THEN r ELSE run[q]
    BY <1>1, <1>2, <1>6, <2>1
  <2>3. \A q \in Sessions : Sound(run'[q])  BY <1>1, <2>1, <2>2
  <2>4. \A u \in Texts \ {t}, n \in Modes : run'[<<u, n>>] = run[<<u, n>>]  BY <1>2, <2>2
  <2>5. \A n \in Modes : run'[<<t, n>>] = IF n = m THEN r ELSE run[<<t, n>>]  BY <1>2, <2>2
  <2>6. ClientInv'
    <3>1. ASSUME NEW u \in Texts \ {t}
          PROVE  /\ client'[u] = "idle" => run'[<<u, "stream">>].pc = "idle"
                 /\ client'[u] \in {"idle", "streaming"} => run'[<<u, "buffered">>].pc = "idle"
                 /\ run'[<<u, "composer">>].pc # "idle" =>
                      /\ client'[u] = "answered" /\ run'[<<u, "stream">>].pc = "idle"
                      /\ run'[<<u, "buffered">>].pc = "idle"
      BY <1>1, <1>5, <2>4 DEF ClientInv, Modes
    <3>2. /\ client'[t] = "idle" => run'[<<t, "stream">>].pc = "idle"
          /\ client'[t] \in {"idle", "streaming"} => run'[<<t, "buffered">>].pc = "idle"
          /\ run'[<<t, "composer">>].pc # "idle" =>
               /\ client'[t] = "answered" /\ run'[<<t, "stream">>].pc = "idle"
               /\ run'[<<t, "buffered">>].pc = "idle"
      <4>1. CASE m = "stream"
        <5>1. run'[<<t, "buffered">>] = run[<<t, "buffered">>] /\ run'[<<t, "composer">>] = run[<<t, "composer">>]
          BY <2>5, <4>1 DEF Modes
        <5>2. QED  BY <1>6, <4>1, <5>1
      <4>2. CASE m = "buffered"
        <5>1. run'[<<t, "composer">>] = run[<<t, "composer">>]  BY <2>5, <4>2 DEF Modes
        <5>2. QED  BY <1>6, <4>2, <5>1
      <4>3. CASE m = "composer"
        <5>1. run'[<<t, "stream">>] = run[<<t, "stream">>] /\ run'[<<t, "buffered">>] = run[<<t, "buffered">>]
          BY <2>5, <4>3 DEF Modes
        <5>2. QED  BY <1>6, <4>3, <5>1
      <4>4. QED  BY <4>1, <4>2, <4>3 DEF Modes
    <3>3. QED  BY <3>1, <3>2 DEF ClientInv
  <2>7. QED  BY <1>4, <1>5, <2>2, <2>3, <2>6 DEF LoopInv, Named
<1>7. CASE Send(t)
  <2>1. client[t] = "idle" /\ client'[t] = "streaming" /\ run' = [run EXCEPT ![<<t, "stream">>].pc = "new"]
    BY <1>1, <1>7 DEF Send
  <2>2. run[<<t, "stream">>].pc = "idle" /\ run[<<t, "buffered">>].pc = "idle" /\ run[<<t, "composer">>].pc = "idle"
    BY <1>1, <2>1 DEF ClientInv
  <2>3. Begun([run[<<t, "stream">>] EXCEPT !.pc = "new"])  BY <1>1, <1>3, <2>2, MovedSound
  <2>4. run' = [run EXCEPT ![<<t, "stream">>] = [run[<<t, "stream">>] EXCEPT !.pc = "new"]]  BY <2>1
  <2>5. QED  BY <1>6, <2>1, <2>2, <2>3, <2>4 DEF Modes
<1>8. CASE SendDraft(t)
  <2> DEFINE s == <<t, "composer">>
  <2>1. client[t] = "idle" /\ client'[t] = "answered" /\ \E c \in Contacts : MutatingAction(s, c, FALSE, run[s])
    BY <1>1, <1>8 DEF SendDraft
  <2>2. run[<<t, "stream">>].pc = "idle" /\ run[<<t, "buffered">>].pc = "idle" /\ run[s].pc = "idle"
    BY <1>1, <2>1 DEF ClientInv
  <2>3. s \in Sessions /\ Counted(run[s])
    <3>1. s \in Sessions /\ Sound(run[s])  BY <1>1, <1>3
    <3>2. run[s] \in Runs /\ run[s].made \in Nat  BY <3>1 DEF Sound, Runs
    <3>3. run[s].reply = "none" /\ ~(run[s].made > 0)  BY <2>2, <3>1 DEF Sound
    <3>4. QED  BY <3>1, <3>2, <3>3 DEF Counted, Sound
  <2>4. PICK q : Begun(q) /\ run' = [run EXCEPT ![s] = q]  BY <2>1, <2>3, MutatingSound
  <2>5. QED  BY <1>6, <2>1, <2>2, <2>4 DEF Modes
<1>9. CASE StreamBreaks(t)
  <2>1. client[t] = "streaming" /\ client'[t] = "fallback" /\ run' = [run EXCEPT ![<<t, "buffered">>].pc = "new"]
    BY <1>1, <1>9 DEF StreamBreaks
  <2>2. run[<<t, "buffered">>].pc = "idle" /\ run[<<t, "composer">>].pc = "idle"  BY <1>1, <2>1 DEF ClientInv
  <2>3. Begun([run[<<t, "buffered">>] EXCEPT !.pc = "new"])  BY <1>1, <1>3, <2>2, MovedSound
  <2>4. run' = [run EXCEPT ![<<t, "buffered">>] = [run[<<t, "buffered">>] EXCEPT !.pc = "new"]]  BY <2>1
  <2>5. QED  BY <1>6, <2>1, <2>2, <2>3, <2>4 DEF Modes
<1>10. CASE CancelStream(t)
  <2> DEFINE r == run[<<t, "stream">>]
  <2>1. /\ client' = client /\ client[t] \in {"fallback", "failed", "answered"} /\ r.pc \notin {"idle", "done"}
        /\ run' = [run EXCEPT ![<<t, "stream">>].pc = "cancelled"]
    BY <1>10 DEF CancelStream
  <2>2. run[<<t, "composer">>].pc = "idle"  BY <1>1, <2>1 DEF ClientInv
  <2>3. Begun([r EXCEPT !.pc = "cancelled"])  BY <1>1, <1>3, <2>1, MovedSound
  <2>4. run' = [run EXCEPT ![<<t, "stream">>] = [r EXCEPT !.pc = "cancelled"]]  BY <2>1
  <2>5. QED  BY <1>6, <2>1, <2>2, <2>3, <2>4 DEF Modes
<1>11. CASE Receive(t) \/ GiveUp(t)
  <2>1. run' = run /\ client[t] \in {"streaming", "fallback"} /\ client'[t] \in {"answered", "failed"}
    BY <1>1, <1>11 DEF Receive, GiveUp
  <2>2. run[<<t, "composer">>].pc = "idle"  BY <1>1, <2>1 DEF ClientInv
  <2>3. ClientInv'  BY <1>1, <1>5, <2>1, <2>2 DEF ClientInv
  <2>4. QED  BY <1>1, <1>4, <1>5, <2>1, <2>3 DEF LoopInv, Named
<1>12. QED  BY <1>7, <1>8, <1>9, <1>10, <1>11

LEMMA LoopStep == LoopInv /\ [Next]_vars => LoopInv'
<1> SUFFICES ASSUME LoopInv, [Next]_vars PROVE LoopInv'
  OBVIOUS
<1>1. ASSUME NEW s \in Sessions, Think(s) PROVE LoopInv'
  BY <1>1, BeforeLoopStep, AnswerStep, FailureStep, ReadToolStep DEF Think
<1>2. ArchiveChanges \/ UNCHANGED vars => LoopInv'
  <2> SUFFICES ASSUME ArchiveChanges \/ UNCHANGED vars PROVE LoopInv'
    OBVIOUS
  <2>1. UNCHANGED <<client, run, lastContact, newest>> /\ archive' \in BOOLEAN
    BY DEF ArchiveChanges, vars, LoopInv
  <2>2. QED  BY <2>1 DEF LoopInv, ClientInv
<1>3. QED  BY <1>1, <1>2, BrowserStep DEF Next

\* The invariant holds in every reachable state.
THEOREM LoopInvariance == Spec => []LoopInv
BY LoopInit, LoopStep, PTL DEF Spec

-----------------------------------------------------------------------------
(* What follows *)

\* Every variable keeps its type in every reachable state.
THEOREM LoopTypes == Spec => []TypeOK
<1>1. LoopInv => TypeOK  BY DEF LoopInv, TypeOK
<1>2. QED  BY LoopInvariance, <1>1, PTL

\* The composer, the stream and the fallback of one text put two pending actions
\* on the table at most, two only when a broken stream had made its own.
THEOREM TwoProposalsAtMost == Spec => []TextProposals
<1>1. ASSUME LoopInv, NEW t \in Texts
      PROVE  LET made(m) == run[<<t, m>>].made IN
               /\ made("stream") + made("buffered") + made("composer") <= 2
               /\ made("stream") + made("buffered") + made("composer") = 2 =>
                    made("stream") = 1 /\ made("buffered") = 1 /\ client[t] # "streaming"
  <2> DEFINE a == run[<<t, "stream">>]
             b == run[<<t, "buffered">>]
             c == run[<<t, "composer">>]
  <2>1. Sound(a) /\ Sound(b) /\ Sound(c)  BY <1>1 DEF LoopInv, Sessions, Modes
  <2>2. a.made \in Nat /\ b.made \in Nat /\ c.made \in Nat  BY <2>1 DEF Sound, Runs
  <2>3. c.made > 0 => a.pc = "idle" /\ b.pc = "idle"
    <3>1. c.made > 0 => c.pc # "idle"  BY <2>1 DEF Sound
    <3>2. QED  BY <1>1, <3>1 DEF LoopInv, ClientInv
  <2>4. b.made > 0 => client[t] # "streaming"
    <3>1. b.made > 0 => b.pc # "idle"  BY <2>1 DEF Sound
    <3>2. QED  BY <1>1, <3>1 DEF LoopInv, ClientInv
  <2>5. /\ a.made > 0 => a.made = 1 /\ a.pc = "done"
        /\ b.made > 0 => b.made = 1 /\ b.pc = "done"
        /\ c.made > 0 => c.made = 1
    BY <2>1 DEF Sound
  <2> HIDE DEF a, b, c
  <2>6. /\ a.made + b.made + c.made <= 2
        /\ a.made + b.made + c.made = 2 => a.made = 1 /\ b.made = 1 /\ client[t] # "streaming"
    BY <2>2, <2>3, <2>4, <2>5
  <2>7. QED  BY <2>6 DEF a, b, c
<1>2. LoopInv => TextProposals  BY <1>1 DEF TextProposals
<1>3. QED  BY LoopInvariance, <1>2, PTL

\* A message costs three calls of the model a round and one more, for every
\* number of rounds: the retry before the first token and the JSON correction
\* are once a round, the filter and the guard use rounds up.
THEOREM CallsAreBounded == Spec => []CallsBounded
<1>1. ASSUME LoopInv, NEW s \in Sessions PROVE run[s].calls <= 3 * MaxRounds + 1
  <2>1. run[s] \in Runs /\ run[s].calls <= 3 * run[s].round + 1  BY <1>1 DEF LoopInv, Sound
  <2>2. run[s].calls \in Nat /\ run[s].round \in Nat /\ run[s].round <= MaxRounds  BY <2>1, RoundsAssumption DEF Runs
  <2>3. QED  BY <2>1, <2>2, RoundsAssumption
<1>2. LoopInv => CallsBounded  BY <1>1 DEF CallsBounded
<1>3. QED  BY LoopInvariance, <1>2, PTL

=============================================================================
