------------------------------ MODULE ChatView ------------------------------
(***************************************************************************)
(* The open conversation of the browser (static/app.js), the events that   *)
(* refresh it and the owner's reactions (main.py, bridge.py, db.py).       *)
(*                                                                         *)
(* The bridge stores a message and posts a webhook, once; the service      *)
(* turns it into a socket event; the page answers an event for the chat it *)
(* shows with a GET, whose answers may overtake each other.  A tap on a    *)
(* reaction changes the page's copy at once, goes through the service and  *)
(* the bridge to WhatsApp, and only then into the table the GET reads.     *)
(* What the owner does on the phone reaches the archive as a row of its    *)
(* own, which the page does not show, and never that table.                *)
(*                                                                         *)
(* One message of each chat can be reacted to, named like the chat.  The   *)
(* page stays on the conversations.  Left out: contents, the roster (its   *)
(* timer reads the whole list every 5 s), the second copies of an event    *)
(* and of its refresh, which say the same.  The page's reaction is the one *)
(* in __msgIndex, which the next tap starts from; the badge is left out:   *)
(* every refresh takes it away (it calls renderReactionsUI, which nothing  *)
(* defines).                                                               *)
(***************************************************************************)
EXTENDS Naturals, Sequences, FiniteSets

CONSTANTS
  Chats, Emojis,
  None,           \* no chat, no reaction
  Gets, Posts,    \* bound: requests of either kind at a time
  Patience,       \* connection errors before the page polls (4)
  MaxMessages, MaxActs, MaxDrops, MaxFaults  \* bounds: an act is an opening, a tap
                  \* or a reaction on the phone

ASSUME ChatViewAssumption ==
  /\ None \notin Chats \union Emojis /\ Patience \in Nat \ {0}
  /\ {MaxMessages, MaxActs, MaxDrops, MaxFaults} \subseteq Nat

VARIABLES
  stored,         \* messages in the archive
  hook,           \* the chat whose webhook the bridge is posting
  socket, errors, \* up or down; connection errors in a row
  polling,        \* the timers of startLegacyPolling run
  events,         \* incoming events on their way to the page
  open,           \* chatState.jid
  view,           \* what is rendered: of which chat, how many messages and
                  \* the emoji in __msgIndex
  gets,           \* GET /chats/messages: idle, asked or answered
  posts,          \* POST /react
  real, table,    \* the reaction WhatsApp has, and message_reactions
  late,           \* reactions the bridge performs after its client gave up
  performed,      \* history: reactions WhatsApp ever had
  disturbed,      \* history: messages with a reaction that failed, overlapped or
                  \* was made on the phone, and no tap on its own since
  acts, drops, faults

archive == <<stored, hook>>
live == <<socket, errors, polling, events>>
page == <<open, view>>
reactions == <<real, table, late, performed, disturbed>>
bounds == <<acts, drops, faults>>
vars == <<archive, live, page, gets, posts, reactions, bounds>>

\* A reaction is kept under the chat and the message the request names.
Keys == Chats \X Chats
Reaction == Emojis \union {None}
Idle == [stage |-> "idle"]
NoView == [of |-> None, n |-> 0, mine |-> None]

Init ==
  /\ stored = [c \in Chats |-> 1] /\ hook = None
  /\ socket = "up" /\ errors = 0 /\ polling = FALSE /\ events = <<>>
  /\ open = None /\ view = NoView
  /\ gets = [g \in Gets |-> Idle] /\ posts = [p \in Posts |-> Idle]
  /\ real = [k \in Keys |-> None] /\ table = real /\ late = {}
  /\ performed = {} /\ disturbed = {}
  /\ acts = 0 /\ drops = 0 /\ faults = 0

Total == LET f[S \in SUBSET Chats] == IF S = {} THEN 0
               ELSE LET c == CHOOSE c \in S : TRUE IN stored[c] + f[S \ {c}]
         IN f[Chats]
Fault == faults < MaxFaults /\ faults' = faults + 1 /\ UNCHANGED <<acts, drops>>
Act == acts < MaxActs /\ acts' = acts + 1 /\ UNCHANGED <<drops, faults>>

-----------------------------------------------------------------------------
(* From the bridge to the page *)

\* The owner's own messages are not forwarded.
HandleMessage(c) ==
  /\ hook = None /\ Total < MaxMessages
  /\ stored' = [stored EXCEPT ![c] = @ + 1]
  /\ hook' \in {None, c}
  /\ UNCHANGED <<live, page, gets, posts, reactions, bounds>>

\* bridge_webhook emits to those who are connected.
BridgeWebhook ==
  /\ hook # None /\ hook' = None
  /\ events' = IF socket = "up" THEN Append(events, hook) ELSE events
  /\ UNCHANGED <<stored, socket, errors, polling, page, gets, posts, reactions, bounds>>

\* The service did not answer; nothing is sent again.
WebhookFails ==
  /\ hook # None /\ hook' = None
  /\ Fault
  /\ UNCHANGED <<stored, live, page, gets, posts, reactions>>

SocketDrops ==
  /\ socket = "up" /\ socket' = "down" /\ events' = <<>>
  /\ drops < MaxDrops /\ drops' = drops + 1
  /\ UNCHANGED <<archive, errors, polling, page, gets, posts, reactions, acts, faults>>

\* The timers, once started, stay.
ConnectError ==
  /\ socket = "down" /\ errors < Patience
  /\ errors' = errors + 1 /\ polling' = (polling \/ errors' >= Patience)
  /\ UNCHANGED <<archive, socket, events, page, gets, posts, reactions, bounds>>

\* What happened meanwhile is not asked for.
Connect ==
  /\ socket = "down" /\ socket' = "up" /\ errors' = 0
  /\ UNCHANGED <<archive, polling, events, page, gets, posts, reactions, bounds>>

-----------------------------------------------------------------------------
(* The conversation *)

FirstIdle(f) == CHOOSE r \in DOMAIN f : f[r] = Idle
refreshConversation(c) ==
  /\ \E g \in Gets : gets[g] = Idle
  /\ gets' = [gets EXCEPT ![FirstIdle(gets)] = [stage |-> "asked", chat |-> c]]

OpenChat(c) ==
  /\ Act
  /\ open' = c
  /\ refreshConversation(c)
  /\ UNCHANGED <<archive, live, view, posts, reactions>>

Incoming ==
  /\ events # <<>> /\ events' = Tail(events)
  /\ IF Head(events) = open THEN refreshConversation(open) ELSE UNCHANGED gets
  /\ UNCHANGED <<archive, socket, errors, polling, page, posts, reactions, bounds>>

\* Mutant: the timers do nothing while the socket is up again.
PollWhileDown ==
  /\ polling /\ socket = "down" /\ open # None
  /\ refreshConversation(open)
  /\ UNCHANGED <<archive, live, page, posts, reactions, bounds>>

Poll ==
  /\ polling /\ open # None
  /\ refreshConversation(open)
  /\ UNCHANGED <<archive, live, page, posts, reactions, bounds>>

chat_messages(g) ==
  /\ gets[g].stage = "asked"
  /\ LET c == gets[g].chat
     IN gets' = [gets EXCEPT ![g] = [stage |-> "answered", chat |-> c, n |-> stored[c],
                                     mine |-> table[<<c, c>>]]]
  /\ UNCHANGED <<archive, live, page, posts, reactions, bounds>>

GetFails(g) ==
  /\ gets[g] # Idle /\ gets' = [gets EXCEPT ![g] = Idle]
  /\ Fault
  /\ UNCHANGED <<archive, live, page, posts, reactions>>

\* Whichever chat is open by now; the objects taps have hold of are replaced.
RenderMessages(g) ==
  /\ gets[g].stage = "answered"
  /\ view' = [of |-> gets[g].chat, n |-> gets[g].n, mine |-> gets[g].mine]
  /\ gets' = [gets EXCEPT ![g] = Idle]
  /\ posts' = [p \in Posts |-> IF posts[p] = Idle THEN Idle ELSE [posts[p] EXCEPT !.held = FALSE]]
  /\ UNCHANGED <<archive, live, open, reactions, bounds>>

-----------------------------------------------------------------------------
(* Reactions *)

Key(p) == <<posts[p].chat, posts[p].message>>
InTurn(p) == posts[p].stage \in {"asked", "performed"}
OnItsWay(k) == (\E q \in Posts : InTurn(q) /\ Key(q) = k) \/ (\E r \in late : r[1] = k)
To(p, stage) == posts' = [posts EXCEPT ![p].stage = stage]

\* The request names the open chat and the message that is shown.
ToggleReaction(p, e) ==
  /\ posts[p] = Idle /\ p = FirstIdle(posts) /\ open # None /\ view.of # None
  /\ Act
  /\ LET next == IF view.mine = e THEN None ELSE e
     IN /\ view' = [view EXCEPT !.mine = next]
        /\ posts' = [posts EXCEPT ![p] =
             [stage |-> "asked", chat |-> open, message |-> view.of, emoji |-> next,
              old |-> view.mine, held |-> TRUE, retried |-> FALSE]]
  /\ LET k == <<open, view.of>>
     IN disturbed' = IF OnItsWay(k) THEN disturbed \union {k} ELSE disturbed \ {k}
  /\ UNCHANGED <<archive, live, open, gets, real, table, late, performed>>

Perform(k, e) ==
  /\ real' = [real EXCEPT ![k] = e]
  /\ performed' = performed \union ({<<k, e>>} \intersect (Keys \X Emojis))

\* The bridge sent it, and its answer arrived.
ReactAnswered(p) ==
  /\ posts[p].stage = "asked" /\ To(p, "performed")
  /\ Perform(Key(p), posts[p].emoji)
  /\ UNCHANGED <<archive, live, page, gets, table, late, disturbed, bounds>>

\* The connection breaks before or after the bridge did it; it is tried once more.
ReactRetries(p) ==
  /\ posts[p].stage = "asked" /\ ~posts[p].retried
  /\ posts' = [posts EXCEPT ![p].retried = TRUE]
  /\ Perform(Key(p), posts[p].emoji) \/ UNCHANGED <<real, performed>>
  /\ Fault
  /\ UNCHANGED <<archive, live, page, gets, table, late, disturbed>>

\* Mutant: what the bridge refuses counts as done.
ReactUnchecked(p) ==
  /\ posts[p].stage = "asked" /\ To(p, "performed")
  /\ disturbed' = disturbed \union {Key(p)}
  /\ Fault
  /\ UNCHANGED <<archive, live, page, gets, real, table, late, performed>>

\* Refused, not done, done without an answer, or done later.
ReactFails(p) ==
  /\ posts[p].stage = "asked" /\ To(p, "failed")
  /\ \/ UNCHANGED <<real, performed, late>>
     \/ Perform(Key(p), posts[p].emoji) /\ UNCHANGED late
     \/ late' = late \union {<<Key(p), posts[p].emoji>>} /\ UNCHANGED <<real, performed>>
  /\ disturbed' = disturbed \union {Key(p)}
  /\ Fault
  /\ UNCHANGED <<archive, live, page, gets, table>>

PerformLate ==
  /\ \E r \in late : Perform(r[1], r[2]) /\ late' = late \ {r}
  /\ UNCHANGED <<archive, live, page, gets, posts, table, disturbed, bounds>>

\* On the phone.  The bridge stores it as a row of the archive; message_reactions
\* is not told.
OwnerReacts(c, e) ==
  /\ Act
  /\ e # real[<<c, c>>] /\ Perform(<<c, c>>, e)
  /\ disturbed' = disturbed \union {<<c, c>>}
  /\ UNCHANGED <<archive, live, page, gets, posts, table, late>>

\* Mutant: clearing a reaction leaves the row.
SetUnlessEmpty(p) ==
  /\ posts[p].stage = "performed" /\ To(p, "answered")
  /\ table' = IF posts[p].emoji = None THEN table ELSE [table EXCEPT ![Key(p)] = posts[p].emoji]
  /\ UNCHANGED <<archive, live, page, gets, real, late, performed, disturbed, bounds>>

SetMyReaction(p) ==
  /\ posts[p].stage = "performed" /\ To(p, "answered")
  /\ table' = [table EXCEPT ![Key(p)] = posts[p].emoji]
  /\ UNCHANGED <<archive, live, page, gets, real, late, performed, disturbed, bounds>>

\* 900 ms later the conversation is read again.
Reacted(p) ==
  /\ posts[p].stage = "answered" /\ posts' = [posts EXCEPT ![p] = Idle]
  /\ refreshConversation(open)
  /\ UNCHANGED <<archive, live, page, reactions, bounds>>

\* The object that was tapped gets its reaction back, if the page has it still.
RollBack(p) ==
  /\ posts[p].stage = "failed" /\ posts' = [posts EXCEPT ![p] = Idle]
  /\ view' = IF posts[p].held THEN [view EXCEPT !.mine = posts[p].old] ELSE view
  /\ UNCHANGED <<archive, live, open, gets, reactions, bounds>>

-----------------------------------------------------------------------------
React(p) == ReactAnswered(p) \/ ReactRetries(p) \/ ReactFails(p) \/ SetMyReaction(p)

Next ==
  \/ \E c \in Chats : HandleMessage(c) \/ OpenChat(c)
  \/ BridgeWebhook \/ WebhookFails \/ SocketDrops \/ ConnectError \/ Connect
  \/ Incoming \/ Poll \/ PerformLate
  \/ \E c \in Chats, e \in Reaction : OwnerReacts(c, e)
  \/ \E g \in Gets : chat_messages(g) \/ GetFails(g) \/ RenderMessages(g)
  \/ \E p \in Posts : \/ \E e \in Emojis : ToggleReaction(p, e)
                      \/ React(p) \/ Reacted(p) \/ RollBack(p)

\* The page's timers and handlers run, the service serves what it is asked,
\* and every call of the bridge ends (10 s).
Fairness ==
  /\ WF_vars(Poll) /\ WF_vars(Incoming) /\ WF_vars(BridgeWebhook \/ WebhookFails)
  /\ \A g \in Gets : WF_vars(chat_messages(g) \/ RenderMessages(g))
  /\ \A p \in Posts : SF_vars(React(p) \/ Reacted(p) \/ RollBack(p))

Spec == Init /\ [][Next]_vars
FairSpec == Spec /\ Fairness

-----------------------------------------------------------------------------
(* Properties *)

TypeOK ==
  /\ stored \in [Chats -> 0..MaxMessages] /\ hook \in Chats \union {None}
  /\ socket \in {"up", "down"} /\ errors \in 0..Patience /\ polling \in BOOLEAN
  /\ open \in Chats \union {None} /\ view.of \in Chats \union {None}
  /\ view.mine \in Reaction
  /\ \A g \in Gets : gets[g].stage \in {"idle", "asked", "answered"}
  /\ \A p \in Posts : posts[p] = Idle \/ (Key(p) \in Keys /\ {posts[p].emoji, posts[p].old} \subseteq Reaction)
  /\ real \in [Keys -> Reaction] /\ table \in [Keys -> Reaction]

\* The table never claims a reaction WhatsApp did not get: what the page shows
\* after a reload was done, whatever was refused, lost or tapped on meanwhile.
TableIsDone ==
  \A k \in Keys : table[k] # None => <<k, table[k]>> \in performed

\* A tap that has the message to itself makes the table say what WhatsApp shows,
\* also after a retry that did it twice, and mends what a refusal, a late reaction,
\* an overlap or the phone had left apart; so it stays until one of these happens
\* again.
ReactionsAgree ==
  \A k \in Keys : k \in disturbed \/ (\E p \in Posts : InTurn(p) /\ Key(p) = k) \/ table[k] = real[k]

\* A page that polls ends up with the open chat, its newest message and the
\* reaction in the table, whichever answers overtook others, whatever was rolled
\* back, and however many events were lost.
ViewIsTrue ==
  open # None => view = [of |-> open, n |-> stored[open], mine |-> table[<<open, open>>]]
PolledViewIsTrue == <>[](polling => ViewIsTrue)

\* Not kept by the code: without polling a lost event or an answer that is
\* overtaken leaves the conversation as it was.
LiveViewIsTrue == <>[](socket = "up" => ViewIsTrue)

\* Not kept either: what is tapped belongs to the chat the request names; of two
\* reactions on their way the one WhatsApp got last is the one in the table, and
\* what the owner does on the phone is seen on the page.
ReactionNamesItsChat == \A p \in Posts : posts[p] # Idle => posts[p].chat = posts[p].message
ReactionsAlwaysAgree ==
  \A k \in Keys : (\E p \in Posts : InTurn(p) /\ Key(p) = k) \/ table[k] = real[k]
=============================================================================
