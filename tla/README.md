# Formal model of the WhatsApp agent

This directory is a TLA+ development kept beside the code of the WhatsApp
agent. It models the parts of the system whose behaviour depends on the order
of steps: the approval of messages before they are sent, the reasoning loop
that proposes them, the bridge's archive of what WhatsApp delivers, the merging
of a person's two addresses and what the MCP server reads of it all, the call
log, the connection, the files, the browser's open conversation and its voice
mode. TLC checks each
model on small instances; TLAPS proves the types, the safety properties and the
refinements for every value of their parameters. PROJECT.json lists every run, every mutant, the source lines each definition stands for, the findings
and the hazards.

## 1. The system

```
 browser (static/app.js)
    |  POST /agents/whatsapp[/stream], /send, /approve/{id}      socket.io
    v                                                               ^
 agent service (FastAPI, one asyncio event loop)                    |
    agent.py     the reasoning loop, proposals, decisions --- emit_live
    db.py        agent.db: pending_actions, audit, memory, context
    bridge.py    HTTP client of the bridge, read-only reader of messages.db
    |  HTTP /api/send, /api/messages, /api/call ...     ^  webhooks
    v                                                   |
 bridge (Go, whatsmeow)  main.go, call.go, delete_message.go, webhook.go
    messages.db: chats, messages, calls                 ^
    |  WhatsApp web socket                              | read-only SQL
    v                                                   |
 WhatsApp                                      MCP server (whatsapp.py)
```

| Component | State it keeps | Operations | Talks to |
|---|---|---|---|
| Approval pipeline (`agent.py`, `db.py`, `bridge.py`) | `pending_actions`, `audit_log` | propose, expire, decide, execute, complete, get, list | bridge over HTTP with one retry |
| Agent loop (`agent.py`, `tools.py`, `supervisor.py`, `llm.py`) | the conversation of one request, `last_contact`, memory | one round per model call: answer, lookup, proposal, correction, filter refusal | the model, the archive, the pipeline |
| Endpoints and browser (`main.py`, `app.js`) | open streams, one queue per stream | stream, buffered request, composer, fallback, cancel | the agent loop |
| Message archive (`main.go`) | `chats`, `messages`, the in-memory map of original send times | live messages, resends, revokes, timers, receipts, history sync | WhatsApp; read by both Python services |
| Call log (`main.go`, `call.go`) | `calls`, `activeCalls` | offer, accept, reject, terminate, place, hang up, OnEnd | WhatsApp |
| Connection (`main.go`, `pairing.go`, `run-supervised.sh`) | `reconnectChan`, `exitChan`, back-off, the latest QR code | connect, pair, reconnect, terminate | WhatsApp, the shell script that restarts it |
| LID mapping (`main.go`, `delete_message.go`) | rows under a phone JID or a LID | resolve, migrate, delete | whatsmeow's store |
| Outgoing messages (`main.go`) | rows of sent messages | send, then store | WhatsApp |
| Media and avatars (`main.go`, `bridge.py`, `main.py`) | files, miss cache, `last_download_info` | download, serve, fetch | WhatsApp, the browser |
| Webhooks, live events, health monitor | none, one snapshot | one POST per message, one push per change | browser |
| Voice mode (`app.js`) | recogniser, player, open question, card, timers | listen, command, speak, confirm, time out, stop, close, wake | the agent loop and the pipeline through `main.py` |
| Speech (`voice.py`, `main.py`) | the rate window of a user | synthesise, chat | the TTS engine |
| MCP server (`whatsapp.py`, `main.py`) | none | SQL reads, one HTTP call per tool | bridge |

### What is hard about it

* The agent service runs on one event loop. A handler is undisturbed between
  two awaits and interleaves with every other one at each await. It commits
  several SQLite transactions between two awaits, so a crash can fall where no
  other handler can.
* A message that leaves for WhatsApp cannot be taken back. The pipeline has to
  be right under double clicks, lost answers, retries, expiry and crashes.
* A stream that breaks is followed by a second, independent run of the same
  request while the first is still being cancelled.
* WhatsApp delivers out of order, repeats what could not be decrypted with a
  later time, and sends history in bulk on another goroutine. The archive has
  no transaction around the statements of one message.
* A person is known by a phone number and by a LID, and which belongs to which
  is learnt at any time; rows written before are moved at the next start.
* The browser shows what it was told by events, timers and its own taps, and the
  answers to its requests overtake each other.
* The bridge is meant to be killed and restarted by a script.
* The voice mode takes the next words for yes or no while it speaks, listens,
  streams and runs timers, and the browser reports the end of what it said late
  or never.

### What makes each part correct

* Pipeline: nothing reaches the bridge without a recorded approval; one decision
  per action; what a client is told stays true; no more effects than attempts.
* Loop: a session ends; it costs a bounded number of model calls; a message makes
  a bounded number of proposals; answers rest on data that was looked up.
* Archive: out of order, repeated and bulk delivery lead to the same rows; time,
  markers and revocations are never taken back.
* Call log: a call that ended is not in progress; it reaches one final result.
* Connection: a lost connection is re-established; one signal ends the process.
* Reads of the archive: what is said of a person is whole under either of their
  addresses; pages miss nothing and repeat nothing that stayed where it was.
* Conversation: the reaction table claims nothing WhatsApp did not get, and a tap
  mends what it lacks; a page that polls shows the truth in the end.
* Media and avatars: who is answered gets the file asked for; nobody waits for
  ever; a missing photo is found out once.
* Voice mode: a question is about the latest proposal and ends; the page can be
  talked to again after whatever happened.
* LID mapping: one person, one chat; an operation on a row finds it.

## 2. Modules

| Module | What it is |
|---|---|
| `ApprovalGate` | abstract specification: what the pipeline promises the owner |
| `Approval` | the pipeline: tables, handlers, event loop, HTTP attempts, clock, crashes |
| `ApprovalProofs` | theorems about `Approval`, and that it implements the gate |
| `AgentLoop` | sessions of `handle_request`, endpoints, browser |
| `AgentLoopProofs` | the types and the safety properties of `AgentLoop` |
| `MessageStore` | one chat of the archive, live handler beside history sync |
| `MessageStoreProofs` | the types and the safety properties of `MessageStore` |
| `CallLifecycle` | abstract specification: the documented life of a row of `calls` |
| `CallLog` | events, the handlers that place and hang up, `activeCalls`, `OnEnd`, restarts |
| `CallLogProofs` | theorems about `CallLog`, and that it implements the life cycle |
| `Connection` | connect and pairing loop, reconnection, signals, the supervising script |
| `Voice` | recogniser, player, spoken commands, the confirmation, the card |
| `VoiceProofs` | the safety properties of `Voice` |
| `LidChats` | rows of several chats, the LID map, the two start-up migrations |
| `ArchiveReads` | extends `LidChats` by the reads of the MCP server and a caller who pages |
| `BridgeProofs` | the types and the safety properties of `LidChats`, `ArchiveReads` and `Connection` |
| `ChatView` | the open conversation, its events and refreshes, reactions |
| `ChatViewProofs` | the table of reactions claims nothing WhatsApp never had, and agrees with it |
| `MediaCache` | blobs and avatars: the endpoints, the download of the bridge, the files |
| `MediaCacheProofs` | the safety properties of `MediaCache` |
| `MCApproval`, `MCAgentLoop`, `MCMessageStore`, `MCCallLog`, `MCConnection`, `MCVoice`, `MCArchiveReads`, `MCChatView`, `MCMediaCache` | the instances; `MCMessageStore` names the symmetry of message ids, `MCArchiveReads` the two traffics |

### Approval

A row of `pending_actions` is `status[a]`, `tool[a]`, `expiresAt[a]`,
`decidedAt[a]`; `audit[a]` is the set of its audit entries. A decide request has
a control state `pc[r]`; `loop` is the handler that holds the event loop. Every
commit is an action: `BeginDecide` is `expire_stale`, `DecideAction` the
conditional UPDATE, `AuditApproved` the audit entry and the first HTTP request,
and so on down to `AuditCompleted`. `wire[r][k]` is the k-th HTTP request made
for `r`, seen at the bridge: performed, refused, answered 404 or lost, and
independently of that the caller may see an answer, a protocol error or a
timeout. `CallRetries` and `RetryRaises` are the two branches of
`_send_with_retry`. `Crash` keeps the tables and kills the handlers.

The gate knows three variables: the status, the tool and the effects. Its
refinement mapping takes `effects[a]` to the set of attempts that the bridge
performed. Effects may come late, even after the action was reported as failed:
that is what a timeout means, and the gate says so.

### AgentLoop

A session is a text and a mode (stream, buffered, composer); its record holds
the round, the number of refusals, the results in the prompt, what was streamed,
and the reply. A step reaches from one await to the next, tools included, since
no executor suspends. The texts are reduced to what the code tells apart:
whether a request calls for WhatsApp data (`needs`), whether a reply claims any
(`claims`), whether a lookup returned rows, an empty list or an error. The
steps of the browser are `Send`, `Receive`, `StreamBreaks`, `GiveUp`; the
server notices the disconnect at any later moment (`CancelStream`).

### MessageStore

WhatsApp's side is a log with one entry per tick; the position of an entry is
its send time. The entries travel as stanzas in any order. One the bridge
cannot decrypt is asked for again and comes back with a later time, or fails
again. `live` is the stanza the event handler works on and `sync` the history
sync beside it: every SQL statement is a step of its own. `row[m]` is the row of
message `m` and `chat` the row of the chat. `Unread` is the flag that the MCP
server computes from both. A restart clears the map of original times and
whatever was in progress; a stanza that was not acknowledged may come again.

### CallLog

A row of `calls` has the key `<<call, "peer">>` or `<<call, "self">>`: the table
is keyed by call and chat, and the events of a call carry the account that
created it, which for a placed call is our own. `sent[c]` are the events
WhatsApp has sent about call `c`; `HandleEvent` may take each of them at any
time, again, or never, so lost, late, repeated and reordered delivery are all
there. A placed call goes through `PlaceCall`, `RegisterCall` (into
`activeCalls`), `StorePlacedCall` and `RegisterOnEnd`; `OnEndRemoves` and
`OnEndStores` are the callback before and after its unlock. A hang-up looks the
call up, unlocks, and ends it. `Restart` keeps the rows and forgets the map, the
handlers and the callbacks. `first`, `met` and `delivered` are history variables
that the properties read and no guard does.

`CallLifecycle` is the state machine written above `StoreCallOffer`: it knows
the rows only, and says that no transition is made twice and that the end of a
call is written once. `CallLog` refines it with the identity on the rows.

### Connection

`main` is the control state of the main goroutine (connect, scan the QR code,
wait, pause, settle, serve), `rec` that of the reconnecting one. Both channels
have capacity one, so each is a flag. `reports` are the events that whatsmeow
raised and the event handler has not seen; `timers` counts the goroutines that
sleep for thirty seconds after `StreamReplaced`. `ClientOutdated` and `LoggedOut`
are handled as the code does, by a line in the log: after the first the socket is
`refused`, no `Disconnected` follows and nothing reconnects. The environment may
lose the socket, cut the network, log the account out, send a signal or kill the process
(`mishaps` of them in all), pair the account while a code is shown, and
reconnect a paired client by itself. `Restart` is the loop of the shell script:
it stops at the exit codes of a signal and at nothing else, and `main` returns 0
when it gives up.

### Voice

The page is single-threaded, so an action is one task of its event loop: a
callback, a timer, or a handler up to its next await. `recognizing` is what the
page believes of the recogniser and `engine` what it does: after `start()` it is
`starting` until `RecStarts` (`rec.onstart`, which sets `recognizing` and `intent`),
or `aborting` when it was stopped meanwhile, and after `stop()` it runs on until
`EngineEnds`. `playing` is what can be heard, with what its end will
call (`then`): the rest of a command, of a decision, of a question asked again.
Cancelled speech reports its end late (`ends`, `CancelReported`), a paused clip
never; the history variable `cut` remembers that one was lost. `awaiting`,
`timer`, `pending`, `current` and `card` are the open question, its time limit,
the two places that name the action, and the approval card. A command is
streamed (`Command`, `VoiceResult`, `StreamEnds`) or, when that breaks, asked
again (`StreamBreaks`, `ChatAnswers`, `ChatFails`); either session may propose an
action the page never hears of. What the user said settles later
(`HeardSettles`), as a reply or as a command, by the state of that moment. A
reply is known by what the code's tests see of it: the whole, the first word,
and whether it contains one of the words of `hasHindiYesIntent`. The server
decides as `Approval` does, in one step. `superseded` is a history variable.

### LidChats and ArchiveReads

An address is the phone number or the LID of a person, or a group; `lids` are the
people whose two addresses whatsmeow's table connects. `rows` is the table
`messages`, a function on its rowids, of which only the order matters: a new row
comes after `LastRow`, an upsert keeps its place, and the rows a migration copies
come after all that were there, in their old order. `chats` has the name, the newest time and the read marker of each
chat. `HandleMessage` resolves the address with the map of that
moment, as `resolveLIDChat` does, and stores chat and row; a message may come
twice, before or after its revoke, and one of `Resent` with a later time, since a
restart, or the limit on times remembered, loses the original. A name is a pair of
a person and its source: the contacts, or the push name by which a live message
replaces digits (`LiveChatName`). `strangers` is the history of who ever had a
chat under a LID. The read marker a history sync carries is a `HandleReceipt`. `Stop` ends the bridge, and a start runs the
two migrations as the two transactions they are, `MigrateLegacyLIDChatsToPhoneJIDs`
and then `MigrateLegacyLIDSendersToPhones`, either of which may not take place.
What is sent in a behaviour (`sent`) is chosen at the beginning from the
constant `Traffics`, so that each run of TLC sees a few telling conversations in
every order.

`ArchiveReads` states the queries of `whatsapp.py` as operators on these tables
(`list_chats`, `get_contact`, `sender_aliases`, `get_sender_name`, ...) and gives
the one that takes several statements, `list_messages` with pages and context,
actions of its own: `Begin`, `ReadPage`, `ReadContext`, with the bridge writing
in between. The history `owed` is what a caller who reads page after page is
entitled to see.

### ChatView

The bridge stores a message (`HandleMessage`) and posts a webhook, which may fail
and is not repeated; the service turns it into an event for those who are
connected; the page answers an event for its open chat with a GET. `gets` are the
GETs on their way: read at the service at one moment (`chat_messages`), rendered
at another (`RenderMessages`), whichever chat is open by then. Four connection
errors in a row start the timers (`polling`), which never stop. A tap changes
`view.mine` at once; `posts` is its request, from the service to the bridge and
back, with the retry, the failure of either side and the reaction that is
performed after its client gave up (`late`). `held` says whether the object the
tap changed is still the one in the page, as a refresh replaces it. `OwnerReacts`
is the owner on the phone: WhatsApp's reaction changes, the table's does not.
`performed` and `disturbed` are history variables; a message is disturbed by a
reaction that fails, overlaps another or is made on the phone, until a tap has
the message to itself again.

### MediaCache

A request is for a blob or an avatar. `disk[b]` is the file of blob `b`; `writer`
the download that truncated it last, since `WriteFile` writes in place. A job of
the bridge belongs to an attempt of a request, or to the bridge itself
(`AutoDownload`, of any blob, documents too). `Named` are the blobs whose row has the file name the bridge
uses; the others are found by `info`, the field `last_download_info`, alone.
`DownloadAnswered` is one step from the answer to the second look, as no await
lies between; `DownloadBreaks` leaves the field as it was. `lock` is the queue of
`_avatar_fetch_lock`, the first of which holds it, and `missed` the time that is
left of the memory of a contact without a photo.

## 3. Runs

Bounds are constants: a run's configuration gives them, the guards use them.
Deadlock is not checked where a model stops by its bounds: the log is full, the
requests are served, the calls are over. Each module states its types as `TypeOK`;
they hold of the instances too, and the runs leave them to the theorems and to the
properties that need them. What a run's refinement implies is not listed again:
`KeepsGate` has in it the life cycle of a row (`Lifecycle`), that an outcome is
true (`ExecutedIsTrue`) and that there are two effects at most (`AtMostTwice`),
which section 4 proves one by one.

| Run | Instance | Shows |
|---|---|---|
| `approval` | 1 action, 2 requests, clock, 1 crash, fair | one winner, a true trail, true answers, the refinement of the gate; requests end |
| `loop_live` | 1 text, 3 rounds, fair | every order of replies: calls are bounded, each text is answered |
| `loop_fallback` | 1 text, 1 round, 2 contacts, the connection breaks | stream and fallback side by side: at most two proposals, two only after a fallback |
| `store` | 2 messages, 3 log entries, 1 sync, 1 restart | any order of delivery ends in the rows the phone shows; nothing recorded is taken back |
| `calls` | 1 incoming call, 1 placed call, 1 hang-up, 1 restart, fair | the first event decides; the end of a placed call is recorded once; life cycle |
| `connection` | 3 attempts, 2 doublings, 4 mishaps, fair | no loss is forgotten; the connection comes back; a code is shown until paired |
| `voice` | 2 commands, 3 inputs of the user, fair | no callback leaves the page stuck; nothing superseded is decided; commands end and the page listens again |
| `archive` | 1 person with both addresses, a group and the owner, 2 conversations of 2 messages, one of which may be sent again later, 1 restart, a reader with pages of 1 | nothing is lost, doubled or missed by the migrations or by paging; what is said of a person is whole; what turns a chat unread |
| `chat` | 2 chats, 1 new message, 3 openings, taps or reactions on the phone, 1 broken socket, 1 more fault, fair | the table claims nothing WhatsApp did not get; a tap on its own mends what was left apart; a page that polls ends up true |
| `media` | 2 requests, 2 blobs, 1 contact, 1 download of the bridge's own, 2 faults, fair | own file or none; one miss per window; requests end |
| `approval_once`, `voice_refusal` | the same or smaller | violations, section 5 |

**Bounds.** Two requests are a winner and a loser on one action, or
one that decides and one that expires it. One crash separates any two
commits, and a second one reaches nothing new: a handler is never resumed. The
clock needs to pass the deadline once. Three rounds of the loop let a refusal, a
correction or a lookup be followed by a proposal and by the end of the budget;
one round is enough where two sessions interleave. Three log entries hold a
message, a receipt and a second message, a revoke or a timer change; one sync
runs beside every live statement. A placed call meets an incoming one only in
the table, one hang-up request races the other side, and one tick tells the time
an event carries from the time it is handled. Four mishaps allow a loss, a
second loss during the back-off, an outage and a signal or a crash in one
behaviour; three attempts have a first, a middle and a last one. A second
command is what supersedes the first; three inputs are a command, a reply or a
click, and one button in between, beside all that the browser and the server do
by themselves. In the archive one conversation has both sides of a chat in one
second, the other a person in a group, whose message may come again with a later
time, and on her own: two messages, which may be
filed under different addresses, are what a migration can merge, and a page of one row is left
and entered around every write; one restart is one pair of migrations, after
which the map holds all it will. In the conversation three acts are two chats
opened and a tap, or one and two of taps and reactions on the phone: a tap that is
taken back or overlapped by another, one that mends what failed or what the phone
changed; that a third tap mends an overlap is left to the theorem. The fault beside
the broken socket is a lost webhook, a lost answer, a retry or a failed reaction. Two
requests fill and read the shared field, write one file, or wait for one lock;
two faults are a break after a retry. One download of the bridge's own (`MaxAuto`)
meets those of both requests, and one tick (`MaxTime`) is the whole memory of a
missing avatar.

**Fairness.** *Approval*: handlers that hold the event loop go on, and every
httpx call ends, since the client has a timeout. `CompleteAction` is strongly
fair because other handlers keep taking the loop; asyncio serves ready callbacks
in turn. *AgentLoop*: a model call ends because the client has a read timeout,
and an answer that is there is delivered unless the connection breaks.
*CallLog*: the goroutine of a request and the callbacks of the library keep
running. *Connection*: goroutines are scheduled, sleeps and the QR session end,
the script goes on. *Voice*: a recogniser that was stopped ends, restart timers
and the silence timer fire, speech ends or fails, cancelled utterances are
reported, requests are answered or fail. *ChatView*: the timers of the page fire,
the service serves, an event that arrived is handled, and the calls of the bridge
end after ten seconds; the refresh that follows a reaction is strongly fair, as
its timer fires although requests come and go. Nothing is assumed of
`HandleMessage`, the socket or the owner. *MediaCache*: a download is fetched or
fails, a file is written or not, a call is answered or times out, and the lock
goes to the next in turn. *MessageStore* and *ArchiveReads* have none: its promises are about what is
there once nothing is on its way (`Quiet`). Nothing is assumed of the user, the
clock, the network, WhatsApp or whatsmeow's own reconnection; the three
liveness properties of `Connection` ask that the network stays up in the end.

## 4. What is proved

From the assumptions named in the modules alone (sets of actions, calls and
requests are arbitrary, numbers are naturals):

| Theorem | For any number of | States |
|---|---|---|
| `ApprovalProofs!TypeCorrect`, `ApprovalFirst`, `AuditAgrees`, `DecisionsAreFinal`, `ClientsStayRight`, `OutcomesAreTrue`, `AtMostTwoEffects`, `LifecycleHolds` | actions, requests, tools, ticks, crashes | the safety properties of `approval` |
| `ApprovalProofs!Refinement` | the same | every behaviour of `Approval` is one of `ApprovalGate` |
| `AgentLoopProofs!LoopTypes`, `TwoProposalsAtMost`, `CallsAreBounded` | sessions, tools, rounds, attempts | the types and every invariant of `loop_live` and `loop_fallback` |
| `MessageStoreProofs!StoreTypes`, `ChatCoversMessages`, `NothingIsTakenBack` | messages, entries, syncs, restarts | the types, `NewestCovers`, `NothingGoesBack` of `store` |
| `MessageStoreProofs!MarkerStandsAtRead`, `ArchiveIsComplete` | messages, entries, syncs | `MarkerIsRead`, `ArchiveConverges` of `store` |
| `CallLogProofs!FirstEventCounts`, `RemovedCallsAreFinal` | calls, hang-ups, ticks, restarts | the safety properties of `calls` |
| `CallLogProofs!ImplementsLifecycle` | the same | every behaviour of `CallLog` is one of `CallLifecycle` |
| `BridgeProofs!NoLossIsForgotten` | attempts, doublings, mishaps | the safety property of `connection` |
| `BridgeProofs!ArchiveTypes`, `EveryRowHasItsChat`, `OneAddressForEach`, `NothingIsLostEver` | people, groups, messages, receipts, starts | the types of `LidChats`, `RowsHaveChats`, `OnePersonOneAddress`, `NothingIsLost` of `archive` |
| `BridgeProofs!SettledContactIsWhole`, `KnownPeopleAreNamed`, `UnreadNeedsAMessage` | the same, any pairs of look-alike numbers | `ContactIsWhole`, `KnownAreNamed`, `TurnsUnread` of `archive` |
| `BridgeProofs!ReaderTypes`, `PagingIsComplete` | the same, listings, page sizes, contexts | the types of `ArchiveReads`, `PagingMissesNothing` of `archive` |
| `VoiceProofs!VoiceTypes`, `QuestionsHaveTimers`, `CommandsAreUnderWay`, `HearingReturns`, `NeverStuck`, `SupersededStaysSuperseded` | commands, inputs | the types and the safety properties of `voice` |
| `ChatViewProofs!TableNeverClaims`, `TableAgrees` | chats, emojis, requests, faults | `TableIsDone`, `ReactionsAgree` of `chat` |
| `MediaCacheProofs!AnsweredSafe`, `MissesSafe` | requests, blobs, contacts, faults | `AnsweredGetTheirOwn`, `MissesAreApart` of `media` |

**Approval.** None of the properties is inductive. The invariant says who owns a
row: a request that decided is the only one that did so on its row; a request
past its decision finds its row in the state its control state implies; an HTTP
request exists only for a request that is past its audit entry; a handler that
is between two commits holds the loop, so that nobody else is.

**AgentLoop.** Most of the invariant is about one session (`Sound`): its budget of
model calls against its round and its place in it (a session waiting for a model in
round n has used at most 3n - 2 calls on the first attempt, one more on the second),
and what it created against whether it has ended. A step of a session takes an answer
(`Counted`) and ends the session, begins the next round or proposes; lemmas about
records say so once, and the steps cite them. `ClientInv` says which sessions of a
text can exist while the browser does what it does: that a text makes two proposals
at most follows from it, since a text given to the composer has neither of the
other two sessions.

**MessageStore.** `NewestCovers` and `NothingGoesBack` hold through restarts. They
rest on `StoreInv`: between `StoreChat` and `StoreMessage` of a handler the chat is
already as new as the message in hand (`LiveInv`, `SyncInv`), the rows are no newer
than the log, and with its stamp the timer is its stamp. That a step runs at most
one statement, and which (`OneStatement`), is a lemma of its own, from which the
action property and the marker follow. `MarkerIsRead` and `ArchiveConverges` hold
until the bridge is restarted and need `RunInv`: an entry is on its way as one
stanza or asked for again (`OneToken`); while it can still come late the map of
original times holds its send time (`SentTimes`), so every row and the stanza in
hand carry it (`RightTimes`); an entry that is not stored is still coming
(`TextsCome`, `TimersCome`), and what is coming goes on coming until the last
statement of its handler (`PendingStep`). A restart breaks the first two: the map
is gone and a stanza is delivered again. A receipt is taken for the latest time
among the rows it acknowledges; that there is a latest needs an induction, made as
a least counterexample with the library's `WFMin` (`HasLast`).

**CallLog.** The invariant has four parts. A row agrees with the events it met
and with the first of them (`RowInv`). WhatsApp's own view of a call, its time of
end and the events it sent agree (`LineInv`). A handler that placed a call is
exactly as far as the map and the row say (`PlaceInv`). A callback that removed a
call from the map is the only one that did, and once it has written, the row is
final (`EndingInv`). `RemovedIsFinal` follows from the last two.

**Connection.** `LossIsNoticed` is inductive together with the types: each step
that takes a signal out of the channel moves the goroutine to a place from which
it looks at the socket, and each step that closes the socket leaves a report that
will be signalled, unless WhatsApp refused the client.

**Voice.** `NothingIsStuck` has three parts. `QuestionsExpire` is not inductive: the
command of a wake word stops the timer without closing the question, and is
harmless only because an open question implies that the mode is on, where the wake
word is not listened for (`QuestionInv`). `CommandIsUnderWay` and
`HearingIsUnderWay` are the safety halves of `CommandsEnd` and `ListensAgain`: what
must happen is on its way, so that fairness has only to let it happen. The first is
inductive with the types, as every step that takes away a reason for `handling`
clears it, gives another or loses speech (`SpokenStep`, `FinishedClears`). The
second needs `HearingInv`: the page takes no recogniser for running that is off,
and believes to speak only while it does; otherwise `resumeRecognitionIfNeeded`
would return without doing anything. `SupersededIsOver` rests on `SupersededInv`:
what is superseded exists, so a session that may still propose something new cannot
propose something superseded, and neither of the two places that name an action
holds one.

**ChatView.** A row of `message_reactions` is written for a request the bridge has
answered, so `TableIsDone` rests on `AnsweredIsDone`: such a request names a
reaction WhatsApp has had. What is done twice, late, or without an answer only
adds to what it has had. The types are needed with it: a request names chats
because it takes them from the page, and the page from its GETs. `ReactionsAgree`
is about the messages whose last tap had them to itself; `AgreeInv` adds that
what the bridge still does late it does to the others (`LateIsDisturbed`), that at
most one reaction of such a message is on its way (`OneInTurn`), and that one the
bridge has answered is the one WhatsApp shows (`AnsweredIsReal`), so that writing
it in the table makes the two agree. A tap that finds no other request for its
message takes the message back among these, whatever had disturbed it; a late
reaction or one on the phone removes it again.

**MediaCache.** A second attempt has no download before the first is given up
(`TryInv`), so a request has one answer to come. `AnsweredGetTheirOwn` is preserved
because the answer and the look at the shared field are one step; the model checker's counterexample to the variant
with a suspension in between is its mutant. `MissesAreApart` follows from
`LockInv`: who fetches an avatar is the first in the queue, and what the cache
said of the contact at the second look is still so.

**LidChats.** `RowsHaveChats` and `OnePersonOneAddress` are not inductive. `LidInv` adds
the types, that a row has the conversation and the sender of what was sent
under its id (`RowsAreAsSent`), so that a row can change its address and never its
person, and that whoever was settled once stays so while the bridge is down and
between the two transactions of a start (`SettledStay`). A step is then one of two
kinds. Every action but the migration of chats leaves each row in its chat and adds
rows only under addresses the map cannot resolve further (`Kept`: `SameRow`,
`NewRow`, `ChatsKept`); the migration merges each pair of chats and drops a row only
when the phone chat has its message (`ChatsMerged`, `RowsMoved`). Each invariant and
each action property is proved once from `Kept` and once from the migration.
`SettledContactIsWhole` and `KnownPeopleAreNamed` then follow from `LidInv` without
another induction: `LidInv` says of the name of a chat that it is one the handlers
can have given it, a push name only to one who was a stranger (`NamesAreTheirs`).
`TurnsUnread` compares the newest row of a chat before and after: it changes hands
only by a new row or by a row that was stored again with another time
(`Restamped`).

**ArchiveReads.** `PagingMissesNothing` needs an invariant of the caller, `ReaderInv`: what is
owed is a context still to be read, or a match not in front of the page to come
(`WillCome`). It is preserved because no write brings a match nearer to the front:
the matches before it still match and still precede it (`MessagesMoveBack`), for a
chat as long as it was not active itself (`ChatsMoveBack`), and a page takes
exactly the next `PageSize` places. That needs places to have no gaps: the rank of
a match counts those before it, and ranks are distinct and closed downwards
(`Places`, from cardinalities of finite sets), so an empty page means that nothing
comes after it (`LastPage`). A context is found since its message is stored and
stored messages stay. Assumed: people and groups are finitely many, and a listing
is of one of the three forms the tools offer.

Each conjunct is preserved action by action. Every invariant and every action
property of the runs is the statement of a theorem. Only model-checked are the
nine properties with a `~>` or a `<>`, under fairness, since `ENABLED` is out of the
prover's reach: `RequestsEnd` (of `approval`, and of `media`), `TextsSettle`,
`ReportedEndsSettle`, `ConnectionComesBack`, `PairingGoesThrough`, `CommandsEnd`,
`ListensAgain` and `PolledViewIsTrue`.

## 5. Where code and documentation disagree

With a run that exhibits it; PROJECT.json quotes the lines:

* `approval_once`: the retry can perform an approved message twice.
* `voice_refusal`: "no, do not send it" approves, since the word "send" is looked
  for before the first word is compared with the noes.

The modules state more properties that the same instances refute when they are
added to a configuration: `ApprovedSettles` (a retry that fails leaves a row `approved` for ever),
`EveryTransitionAudited` (expiry leaves no audit row),
`OverdueNeverApproved` (an action can be approved after its deadline),
`ErrorMeansNoAction` (an error is reported after a pending action was created),
`AnswersAreLookedUp` (a JSON answer passes the guard unseen), `DeltasAreTheAnswer`
(rejected text has been streamed), `GroundedMeansData` (an empty lookup counts as
a citation), `LastContactIsNewest` (a JSON answer does not promote its contact),
`FilterErrorIsRepeated` (one refusal is reported as several), `ReadIsNotReported`
(a late message stays unread after its receipt), `UnreadIsReported` (a revoke
hides an unread chat), `LateTimerIsOlder` (a resent timer change blocks a newer
one), `NoUnreadIsPassed` (an early receipt marks an unread message as read),
`FilesAreFound` (synced files are stored under a name no download uses),
`HalfDuplex` (the microphone is open while the page speaks, after the late report
of an utterance that was stopped), `AnsweredIsNotMissed` (a placed call that was
answered is recorded as missed, since the accept looks for a row under our own
account), `SignalEnds` (the reconnecting goroutine can take the signal that
`main` waits for, and the bridge stays up), `DeletedStaysDeleted` (the migration
copies neither `deleted_at` nor the quoted message, so a message deleted for
everyone comes back), `LiveViewIsTrue` (without polling, a lost event or an
answer that is overtaken leaves the conversation as it was, although
`bridge_webhook` promises a refresh without polling), `ReactionNamesItsChat` (an
answer for the chat that was open before is shown under the new one, and a tap
names the new one), `ReactionsAlwaysAgree` (of two overlapping taps WhatsApp may
show one and the table the other, and a reaction made on the phone never reaches
the table), `EverybodyGetsTheirOwn` (a media request whose
download was never answered is served the file of an earlier request, since
`last_download_info` was not written), `ServedWhole` and `WholeStaysWhole` (a
second download truncates the file a reader is given), `OffStaysOff` (a start of
the recogniser that is reported after the user switched it off sets the intent
again, and the mode is on).

Modelling `Connection` also showed that a bridge that is logged out while it
serves stays up and shows no code, although its log asks for a scan; only a
restart shows one. A bridge that WhatsApp turns away as outdated (main.go:3092)
stays up without a connection and without an attempt at one: src/README.md:232
says "rebuild bridge", and the reconnection of src/whatsapp-mcp/ROADMAP.md:19 lists
other events. `LossIsNoticed` and `ConnectionComesBack` name this exception. Modelling `Voice` showed that the stop button, pressed during a
clip, leaves `isHandlingCommand` set and the page deaf (the case `cut` excludes),
that closing the mode while a question is read out opens the microphone again
when the end of the utterance is reported, and that the page says the task is
cancelled when nobody answered while the action stays pending at the server.
Modelling the reads showed that a chat first filed under a LID keeps its digits or
a push name as its name after the migration, and both are shown before the name
the owner has for the person; that a chat in which the owner wrote first without a
name to be found gets the owner's own number for one; that a message that was
read and is sent again after a restart makes its chat unread, as its later time
passes the marker (`TurnsUnread` names this exception); that `get_contact`
returns a bare LID without a chat as a phone number, that the fuzzy look-ups may
choose another chat that contains the digits, and that neighbours of the same
second are never part of a context. Modelling the conversation showed that every
refresh takes the reaction badges away: `renderMessages` (app.js:1314) calls
`renderReactionsUI`, which is defined nowhere, and `refreshConversation` swallows
the error. Modelling the avatars showed that a failure of the bridge is remembered
as a missing photo for fifteen minutes, and that `refresh` reaches the service but
not the cache of the bridge.

## 6. Not modelled

Formatting, prompts, HTML, audio encoding, path and token checks are pure
functions or I/O. whatsmeow, WhatsApp, the model provider and the HTTP transport
are environments: they do anything the code is prepared for. Mutual exclusion
inside SQLite is taken as given: one statement is one step.

Not modelled yet, or only in part: messages that the MCP tools and the agent send
(the row is written after the send), delete for everyone, history on demand, the
rate limiter and the cache of the speech endpoints, the rolling window of the
conversation memory, the health monitor, the chat list of the browser, the
greeting and the repetition filter of the voice mode, the watchdog of the MCP
server. Section 7 says which come next.

## 7. Plan

1. `Approval`, its gate, its proofs: done.
2. `AgentLoop` and its safety proofs: done.
3. `MessageStore` and its safety proofs: done for one chat.
4. `CallLog`, its life cycle, its proofs: done.
5. `Connection` and its safety proof: done.
6. `Voice` and its safety proofs: done.
7. `LidChats`, `ArchiveReads` and their safety proofs: done.
8. `ChatView`, `MediaCache` and their safety proofs: done.
9. `Outgoing`: `sendWhatsAppMessage` and deletes: sent first, stored afterwards,
   the row found under one address and stamped under the other. Runs: two sends, a
   delete and a crash.
10. `VoiceRate`, conversation memory, health monitor: small models of windows.
11. Composition: sessions of `AgentLoop` feeding the rows of `Approval`.
