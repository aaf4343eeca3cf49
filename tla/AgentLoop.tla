----------------------------- MODULE AgentLoop -----------------------------
(***************************************************************************)
(* The reasoning loop of the agent service (handle_request and             *)
(* _create_mutating_action in agent-service/app/agent.py), the streaming   *)
(* and the buffered endpoint in front of it (app/main.py) and the browser  *)
(* that falls back from one to the other (app/static/app.js).              *)
(*                                                                         *)
(* A session is one run of handle_request.  It gives up the event loop     *)
(* only where it awaits a model (the supervisor, a completion, the JSON    *)
(* correction) or sleeps: everything from one such await to the next is    *)
(* one step, the tools included, whose executors never suspend.  The       *)
(* supervisor is enabled, as it is by default.                             *)
(*                                                                         *)
(* Texts are abstracted to what the code tells apart: whether a request    *)
(* calls for WhatsApp data, whether a reply claims any.                    *)
(***************************************************************************)
EXTENDS Naturals, Sequences, FiniteSets

CONSTANTS
  Texts,        \* messages the user types, each sent once
  Contacts,     \* chat JIDs
  Known,        \* those that have a chat in the archive
  Phones,       \* those that are well-formed phone JIDs
  None,         \* no contact
  MaxRounds,    \* llm_max_tool_rounds
  MayBreak      \* bound: the texts whose connection may break

ASSUME ContactsAssumption == Known \subseteq Contacts /\ Phones \subseteq Contacts /\ None \notin Contacts
ASSUME RoundsAssumption == MaxRounds \in Nat \ {0}

VARIABLES
  client,       \* what the browser does about each text
  run,          \* the sessions
  lastContact,  \* context_entities.last_contact_jid
  archive,      \* messages.db can be read
  newest        \* history: the contact of the newest lookup that named one

vars == <<client, run, lastContact, archive, newest>>

Modes == {"stream", "buffered", "composer"}
Sessions == Texts \X Modes

\* none: chat.  contact: only names a known contact.  tool: _requires_whatsapp_tool.
Needs == {"none", "contact", "tool"}
\* What a read-only tool returned: rows of a chat, an empty list, an error.
Lookups == [jid : Contacts \union {None}, data : {"some", "empty", "error"}]
ReplyTypes == {"none", "answer", "approval", "blocked", "error", "filtered"}

\* lookups: the <tool_result> bodies in the prompt.  shown: completions whose
\* text was streamed to the client.  calls: model calls so far.  made: pending
\* actions created.  claims: the answer speaks of WhatsApp data.
NewRun ==
  [pc |-> "idle", needs |-> "none", context |-> None, round |-> 0, attempt |-> 0,
   retries |-> 0, filter |-> FALSE, lookups |-> <<>>, shown |-> 0, calls |-> 0,
   made |-> 0, claims |-> FALSE,
   reply |-> "none", grounded |-> "absent"]

Init ==
  /\ client = [t \in Texts |-> "idle"]
  /\ run = [s \in Sessions |-> NewRun]
  /\ lastContact \in {None} \union Known
  /\ archive \in BOOLEAN
  /\ newest = lastContact

-----------------------------------------------------------------------------
(* What a step does to a session's record *)

Reply(r, type) == [r EXCEPT !.pc = "done", !.reply = type]

\* The for loop: one more completion, or too many rounds.
NextRound(r) ==
  IF r.round < MaxRounds
  THEN [r EXCEPT !.pc = "asking", !.round = @ + 1, !.attempt = 1]
  ELSE Reply(r, IF r.filter THEN "filtered" ELSE "error")

\* Citations come from any result body that is a list, an empty one too.
Citable(r) == \E i \in 1..Len(r.lookups) : r.lookups[i].data # "error"

\* _finish_answer; claims: the text speaks of WhatsApp data.
Answered(r, claims) ==
  [Reply(r, "answer") EXCEPT
     !.claims = claims,
     !.grounded = IF r.needs # "tool" THEN "absent" ELSE IF Citable(r) THEN "yes" ELSE "no"]

\* The contact a plain-text answer promotes: the one in the newest body.
Promoted(r) ==
  IF r.lookups # <<>> THEN r.lookups[Len(r.lookups)].jid ELSE None

\* _create_mutating_action for chat c.  A send or a call is refused when its
\* recipient is no chat of the archive (some unknown ones pass) or, without the
\* archive, no phone JID; a delete when its target is not there or not ours.
Refused(c, deletes) == deletes \/ c \notin IF archive THEN Known ELSE Phones
Accepted(c, deletes) == archive \/ (c \in Phones /\ ~deletes)

\* Mutant: the model goes on after its proposal.
ProposedAndOn(r) == [NextRound(r) EXCEPT !.made = @ + 1]

\* The action is created, then the name of the contact is read from the
\* archive, unguarded: without the archive the session ends in an error.
Proposed(r) ==
  [Reply(r, IF archive THEN "approval" ELSE "error") EXCEPT !.made = @ + 1]

MutatingAction(s, c, deletes, r) ==
  \/ /\ Refused(c, deletes)
     /\ run' = [run EXCEPT ![s] = Reply(r, "blocked")]
     /\ UNCHANGED lastContact
  \/ /\ Accepted(c, deletes)
     /\ run' = [run EXCEPT ![s] = Proposed(r)]
     /\ lastContact' = IF archive THEN c ELSE lastContact

-----------------------------------------------------------------------------
(* Before the loop *)

Begin(s) ==
  /\ run[s].pc = "new"
  /\ \E n \in Needs : run' = [run EXCEPT ![s] = [@ EXCEPT !.pc = "reviewing", !.needs = n]]
  /\ UNCHANGED <<client, lastContact, archive, newest>>

\* A greeting is answered on the spot; so is a service without a model key.
AnswerLocally(s) ==
  /\ run[s].pc = "new"
  /\ \E type \in {"answer", "error"} : run' = [run EXCEPT ![s] = Reply(@, type)]
  /\ UNCHANGED <<client, lastContact, archive, newest>>

\* The supervisor's verdict, or its failure, and what follows: the pronoun is
\* resolved against the last contact (the note it adds makes the request one
\* that needs a tool), and a request that needs the archive stops without it.
Understood(s) ==
  /\ run[s].pc = "reviewing"
  /\ \E n \in Needs, pronoun \in BOOLEAN :
       LET noted == pronoun /\ lastContact # None
           r == [run[s] EXCEPT !.calls = @ + 1,
                               !.needs = IF noted THEN "tool" ELSE n,
                               !.context = IF noted THEN lastContact ELSE None]
       IN run' = [run EXCEPT ![s] =
                    IF r.needs = "tool" /\ ~archive THEN Reply(r, "error") ELSE NextRound(r)]
  /\ UNCHANGED <<client, lastContact, archive, newest>>

\* The one-hop send: the verdict carries the recipient.
FastPathSend(s) ==
  /\ run[s].pc = "reviewing"
  /\ \E n \in Needs, c \in Contacts :
       /\ n = "tool" => archive
       /\ MutatingAction(s, c, FALSE, [run[s] EXCEPT !.calls = @ + 1, !.needs = n])
  /\ UNCHANGED <<client, archive, newest>>

-----------------------------------------------------------------------------
(* One round.  A completion that is not JSON is streamed while it arrives. *)

Asked(s) == [run[s] EXCEPT !.calls = @ + 1]
Streamed(s) == [Asked(s) EXCEPT !.shown = @ + 1]

\* Mutant: every failure before the first token is retried.
FirstTokenRetries(s) ==
  /\ run[s].pc = "asking"
  /\ run' = [run EXCEPT ![s] = [Asked(s) EXCEPT !.attempt = 2]]
  /\ UNCHANGED <<client, lastContact, archive, newest>>

\* Nothing came yet: _stream_completion silently tries once more.
FirstTokenFails(s) ==
  /\ run[s].pc = "asking" /\ run[s].attempt = 1
  /\ run' = [run EXCEPT ![s] = [Asked(s) EXCEPT !.attempt = 2]]
  /\ UNCHANGED <<client, lastContact, archive, newest>>

\* Any other failure: a second one before the first token, or one after it.
CompletionFails(s) ==
  /\ run[s].pc = "asking"
  /\ \E r \in {Asked(s), Streamed(s)} :
       run' = [run EXCEPT ![s] = Reply([r EXCEPT !.filter = FALSE], "error")]
  /\ UNCHANGED <<client, lastContact, archive, newest>>

\* The provider's content filter.  The first refusal drops the bodies of the
\* tool results, if there are any; otherwise, and the second time, the session
\* sleeps; either way the retry uses up a round.
FilterRefuses(s) ==
  /\ run[s].pc = "asking"
  /\ \E r0 \in {Asked(s), Streamed(s)} :
       LET r == [r0 EXCEPT !.filter = TRUE]
           again == [r EXCEPT !.retries = @ + 1]
       IN run' = [run EXCEPT ![s] =
            IF r.retries = 2 THEN Reply(r, "filtered")
            ELSE IF r.retries = 0 /\ r.lookups # <<>>
                 THEN NextRound([again EXCEPT !.lookups = <<>>])
                 ELSE [again EXCEPT !.pc = "pausing"]]
  /\ UNCHANGED <<client, lastContact, archive, newest>>

\* Mutant: the second pause has no end.
ResumeOnce(s) ==
  /\ run[s].pc = "pausing" /\ run[s].retries = 1
  /\ run' = [run EXCEPT ![s] = NextRound(@)]
  /\ UNCHANGED <<client, lastContact, archive, newest>>

Resume(s) ==
  /\ run[s].pc = "pausing"
  /\ run' = [run EXCEPT ![s] = NextRound(@)]
  /\ UNCHANGED <<client, lastContact, archive, newest>>

\* An empty reply: nudged.
EmptyReply(s) ==
  /\ run[s].pc = "asking"
  /\ run' = [run EXCEPT ![s] = NextRound(Asked(s))]
  /\ UNCHANGED <<client, lastContact, archive, newest>>

\* The hallucination guard: a reply that claims WhatsApp data, no result in the
\* prompt, and no resolved pronoun.
Ungrounded(r, claims) ==
  claims /\ r.needs # "none" /\ r.lookups = <<>> /\ r.context = None

\* A plain text: sent back by the guard, or the answer.  The answer promotes
\* its newest lookup, whose name it reads from the archive.
TextReply(s) ==
  /\ run[s].pc = "asking"
  /\ \E claims \in BOOLEAN : LET r == Streamed(s) IN
       \/ /\ Ungrounded(r, claims)
          /\ run' = [run EXCEPT ![s] = NextRound(r)]
          /\ UNCHANGED lastContact
       \/ /\ ~Ungrounded(r, claims)
          /\ run' = [run EXCEPT ![s] =
               IF Promoted(r) # None /\ ~archive THEN Reply(r, "error") ELSE Answered(r, claims)]
          /\ lastContact' = IF Promoted(r) # None /\ archive THEN Promoted(r) ELSE lastContact
  /\ UNCHANGED <<client, archive, newest>>

\* A reply that starts with a brace: usable as it is, or after one correction.
JsonReply(s) == run[s].pc \in {"asking", "correcting"}

MalformedReply(s) ==
  /\ run[s].pc = "asking"
  /\ run' = [run EXCEPT ![s] = [Asked(s) EXCEPT !.pc = "correcting"]]
  /\ UNCHANGED <<client, lastContact, archive, newest>>

CorrectionFails(s) ==
  /\ run[s].pc = "correcting"
  /\ run' = [run EXCEPT ![s] = Reply(Asked(s), "error")]
  /\ UNCHANGED <<client, lastContact, archive, newest>>

\* {"type": "answer"}
JsonAnswer(s) ==
  /\ JsonReply(s)
  /\ \E claims \in BOOLEAN : run' = [run EXCEPT ![s] = Answered(Asked(s), claims)]
  /\ UNCHANGED <<client, lastContact, archive, newest>>

\* Unknown type, unknown tool, invalid arguments: told so.
BadProposal(s) ==
  /\ JsonReply(s)
  /\ run' = [run EXCEPT ![s] = NextRound(Asked(s))]
  /\ UNCHANGED <<client, lastContact, archive, newest>>

\* A read-only tool: list_chats, get_messages, search_chats.
ReadTool(s) ==
  /\ JsonReply(s)
  /\ \E l \in Lookups :
       /\ l.data = "some" => l.jid \in Known
       /\ l.data = "error" => l.jid = None
       /\ archive <=> l.data # "error"
       /\ run' = [run EXCEPT ![s] =
                    NextRound([Asked(s) EXCEPT !.lookups = Append(@, l)])]
       /\ newest' = IF l.jid = None THEN newest ELSE l.jid
  /\ UNCHANGED <<client, lastContact, archive>>

\* A mutating tool becomes a pending action or is refused.
MutatingTool(s) ==
  /\ JsonReply(s)
  /\ \E c \in Contacts, deletes \in BOOLEAN : MutatingAction(s, c, deletes, Asked(s))
  /\ UNCHANGED <<client, archive, newest>>

-----------------------------------------------------------------------------
(* The browser and the endpoints *)

Mode(t) == IF client[t] = "streaming" THEN "stream" ELSE "buffered"

\* send: POST /agents/whatsapp/stream.
Send(t) ==
  /\ client[t] = "idle"
  /\ client' = [client EXCEPT ![t] = "streaming"]
  /\ run' = [run EXCEPT ![<<t, "stream">>].pc = "new"]
  /\ UNCHANGED <<lastContact, archive, newest>>

\* sendDraft: POST /agents/whatsapp/send, no model and no await.
SendDraft(t) ==
  /\ client[t] = "idle"
  /\ client' = [client EXCEPT ![t] = "answered"]
  /\ \E c \in Contacts : MutatingAction(<<t, "composer">>, c, FALSE, run[<<t, "composer">>])
  /\ UNCHANGED <<archive, newest>>

\* The terminal event, or the response of the buffered endpoint, arrives.
Receive(t) ==
  /\ client[t] \in {"streaming", "fallback"} /\ run[<<t, Mode(t)>>].pc = "done"
  /\ client' = [client EXCEPT ![t] = "answered"]
  /\ UNCHANGED <<run, lastContact, archive, newest>>

\* The stream cannot be opened or breaks: the browser asks the buffered endpoint.
StreamBreaks(t) ==
  /\ client[t] = "streaming" /\ t \in MayBreak
  /\ client' = [client EXCEPT ![t] = "fallback"]
  /\ run' = [run EXCEPT ![<<t, "buffered">>].pc = "new"]
  /\ UNCHANGED <<lastContact, archive, newest>>

\* The user closes the page, or the fallback fails too.
GiveUp(t) ==
  /\ client[t] \in {"streaming", "fallback"} /\ t \in MayBreak
  /\ client' = [client EXCEPT ![t] = "failed"]
  /\ UNCHANGED <<run, lastContact, archive, newest>>

\* The server notices that the reader of the stream is gone: task.cancel() at
\* the await the session is at.  A buffered session is not cancelled.
CancelStream(t) ==
  /\ client[t] \in {"fallback", "failed", "answered"}
  /\ run[<<t, "stream">>].pc \notin {"idle", "done", "cancelled"}
  /\ run' = [run EXCEPT ![<<t, "stream">>].pc = "cancelled"]
  /\ UNCHANGED <<client, lastContact, archive, newest>>

\* The bridge creates messages.db, moves it away or keeps it locked.
ArchiveChanges ==
  /\ archive' = ~archive
  /\ UNCHANGED <<client, run, lastContact, newest>>

Think(s) ==
  \/ Begin(s) \/ AnswerLocally(s) \/ Understood(s) \/ FastPathSend(s)
  \/ FirstTokenFails(s) \/ CompletionFails(s) \/ FilterRefuses(s) \/ Resume(s)
  \/ EmptyReply(s) \/ TextReply(s) \/ MalformedReply(s) \/ CorrectionFails(s)
  \/ JsonAnswer(s) \/ BadProposal(s) \/ ReadTool(s) \/ MutatingTool(s)

Next ==
  \/ \E s \in Sessions : Think(s)
  \/ \E t \in Texts : \/ Send(t) \/ SendDraft(t) \/ Receive(t) \/ StreamBreaks(t)
                      \/ GiveUp(t) \/ CancelStream(t)
  \/ ArchiveChanges

Spec == Init /\ [][Next]_vars

\* Every model call ends (the client has a read timeout) and the event loop
\* runs what is ready; the network delivers an answer that is there unless the
\* connection breaks.
Fairness ==
  /\ \A s \in Sessions : WF_vars(Think(s))
  /\ \A t \in Texts : WF_vars(Receive(t))

FairSpec == Spec /\ Fairness

-----------------------------------------------------------------------------
(* Properties *)

Runs ==
  [pc : {"idle", "new", "reviewing", "asking", "pausing", "correcting", "done", "cancelled"},
   needs : Needs, context : Contacts \union {None}, round : 0..MaxRounds, attempt : 0..2,
   retries : 0..2, filter : BOOLEAN, lookups : Seq(Lookups), shown : Nat, calls : Nat,
   made : Nat, claims : BOOLEAN, reply : ReplyTypes, grounded : {"absent", "yes", "no"}]

TypeOK ==
  /\ client \in [Texts -> {"idle", "streaming", "fallback", "answered", "failed"}]
  /\ run \in [Sessions -> Runs]
  /\ lastContact \in Contacts \union {None}
  /\ archive \in BOOLEAN
  /\ newest \in Contacts \union {None}

\* What the browser retries, a broken stream, may put a second pending action on
\* the table for one text, never a third, and only after the fallback.
TextProposals ==
  \A t \in Texts : LET made(m) == run[<<t, m>>].made IN
    /\ made("stream") + made("buffered") + made("composer") <= 2
    /\ made("stream") + made("buffered") + made("composer") = 2 =>
         made("stream") = 1 /\ made("buffered") = 1 /\ client[t] # "streaming"

\* One user message costs at most three model calls a round and the
\* supervisor's one, whatever the filter, the guard and the corrections do.
CallsBounded == \A s \in Sessions : run[s].calls <= 3 * MaxRounds + 1

\* The browser always hears how its request ended, unless it gave up.
TextsSettle ==
  \A t \in Texts : client[t] = "streaming" ~> client[t] \in {"answered", "failed"}

-----------------------------------------------------------------------------
(* What the documentation says and the code does not do *)

\* agent.py: "allow even when archive offline (new contact)", and README.md:
\* "error: LLM unavailable / unparseable output": no error after a proposal.
ErrorMeansNoAction ==
  \A s \in Sessions : run[s].reply = "error" => run[s].made = 0

\* agent.py, the hallucination guard: "Verified: _requires_whatsapp_tool must
\* have tool_result else force tool".
AnswersAreLookedUp ==
  \A s \in Sessions : LET r == run[s] IN
    r.reply = "answer" /\ r.claims /\ r.needs = "tool" /\ r.context = None => r.lookups # <<>>

\* README.md, Streaming: "delta: answer tokens as the model generates them".
DeltasAreTheAnswer ==
  \A s \in Sessions : /\ run[s].reply = "answer" => run[s].shown <= 1
                      /\ run[s].reply = "approval" => run[s].shown = 0

\* agent.py, _extract_citations: "proves real data, not hallucination".
GroundedMeansData ==
  \A s \in Sessions : run[s].grounded = "yes" =>
    \E i \in 1..Len(run[s].lookups) : run[s].lookups[i].data = "some"

\* agent.py: "him/her resolves against the MOST RECENT lookup, not an older one".
LastContactIsNewest ==
  \A s \in Sessions : run[s].reply = "answer" => lastContact = newest

\* agent.py: "The LLM provider's content filter refused this request repeatedly".
FilterErrorIsRepeated ==
  \A s \in Sessions : run[s].reply = "filtered" => run[s].retries = 2
=============================================================================
