--------------------------- MODULE ChatViewProofs ---------------------------
(***************************************************************************)
(* The table of reactions for any number of chats, requests and faults.    *)
(*                                                                         *)
(* A row is written when the bridge has answered, and by then WhatsApp has *)
(* had the reaction (AnsweredIsDone): what else failed, was done twice or  *)
(* late only adds to what WhatsApp has had.  The rest of the invariant is  *)
(* that requests name a chat and a message (PostsNameChats), which they    *)
(* take from the page, and the page from the answers to its GETs.          *)
(*                                                                         *)
(* That a tap which has its message to itself makes the table and WhatsApp *)
(* agree until the next disturbance (AgreeInv) rests on three facts: late  *)
(* work is on disturbed messages only, elsewhere one reaction is on its    *)
(* way, and an answered one is what WhatsApp shows until it is in the      *)
(* table.  A tap ends the disturbance only where nothing is on its way, so *)
(* all three survive it.                                                   *)
(***************************************************************************)
EXTENDS ChatView, TLAPS

SomeChat == Chats \union {None}
Stages == {"asked", "performed", "answered", "failed"}
PostRecords == [stage : Stages, chat : Chats, message : Chats, emoji : Reaction,
                old : Reaction, held : BOOLEAN, retried : BOOLEAN]
GetRecords ==
  [stage : {"asked"}, chat : Chats]
    \union [stage : {"answered"}, chat : Chats, n : Nat, mine : Reaction]
Views == [of : SomeChat, n : Nat, mine : Reaction]

PostsNameChats ==
  /\ posts \in [Posts -> PostRecords \union {Idle}]
  /\ gets \in [Gets -> GetRecords \union {Idle}]
  /\ hook \in SomeChat /\ events \in Seq(Chats)
  /\ open \in SomeChat /\ view \in Views /\ \A p \in Posts : posts[p].stage # "idle" => open # None
  /\ stored \in [Chats -> Nat] /\ table \in [Keys -> Reaction]

AnsweredIsDone ==
  \A p \in Posts : posts[p].stage = "performed" /\ posts[p].emoji # None =>
    <<Key(p), posts[p].emoji>> \in performed

TableInv == PostsNameChats /\ AnsweredIsDone /\ TableIsDone

-----------------------------------------------------------------------------
(* What a step does to requests *)

LEMMA TableInit == Init => TableInv
<1> SUFFICES ASSUME Init PROVE TableInv
  OBVIOUS
<1> USE DEF Init
<1>1. PostsNameChats  BY DEF PostsNameChats, SomeChat, Views, NoView, Reaction, Idle
<1>2. AnsweredIsDone  BY DEF AnsweredIsDone, Idle
<1>3. TableIsDone  BY DEF TableIsDone
<1>4. QED  BY <1>1, <1>2, <1>3 DEF TableInv

\* A request that is not idle is a record with all its fields.
LEMMA PostForms ==
  ASSUME PostsNameChats, NEW p \in Posts, posts[p].stage # "idle"
  PROVE  posts[p] \in PostRecords /\ Key(p) \in Keys /\ posts[p].emoji \in Reaction
<1>1. posts[p] \in PostRecords  BY DEF PostsNameChats, Idle
<1>2. QED  BY <1>1 DEF PostRecords, Key, Keys

\* What WhatsApp has had only grows.
LEMMA PerformGrows ==
  ASSUME NEW k \in Keys, NEW e \in Reaction, Perform(k, e)
  PROVE  performed \subseteq performed' /\ (e # None => <<k, e>> \in performed')
<1>1. performed' = performed \union ({<<k, e>>} \intersect (Keys \X Emojis))  BY DEF Perform
<1>2. e # None => e \in Emojis  BY DEF Reaction
<1>3. QED  BY <1>1, <1>2

\* The table stays and nothing new is answered.
LEMMA NothingWritten ==
  ASSUME TableInv, PostsNameChats', table' = table, performed \subseteq performed',
         \A p \in Posts : posts'[p].stage = "performed" =>
           /\ posts[p].stage = "performed" /\ posts'[p].emoji = posts[p].emoji
           /\ posts'[p].chat = posts[p].chat /\ posts'[p].message = posts[p].message
  PROVE  TableInv'
<1>1. AnsweredIsDone'  BY DEF TableInv, AnsweredIsDone, Key
<1>2. TableIsDone'  BY DEF TableInv, TableIsDone
<1>3. QED  BY <1>1, <1>2 DEF TableInv

\* One request is replaced by a record that is not a request just answered.
LEMMA OnePost ==
  ASSUME PostsNameChats, NEW p \in Posts, NEW s \in PostRecords \union {Idle}, s.stage # "performed",
         posts' = [posts EXCEPT ![p] = s]
  PROVE  /\ posts' \in [Posts -> PostRecords \union {Idle}]
         /\ \A q \in Posts : posts'[q].stage = "performed" =>
              /\ posts[q].stage = "performed" /\ posts'[q].emoji = posts[q].emoji
              /\ posts'[q].chat = posts[q].chat /\ posts'[q].message = posts[q].message
<1>1. posts \in [Posts -> PostRecords \union {Idle}]  BY DEF PostsNameChats
<1>2. \A q \in Posts : posts'[q] = IF q = p THEN s ELSE posts[q]  BY <1>1
<1>3. posts' \in [Posts -> PostRecords \union {Idle}]  BY <1>1
<1>4. ASSUME NEW q \in Posts, posts'[q].stage = "performed" PROVE posts'[q] = posts[q]
  <2>1. CASE q = p  BY <1>2, <1>4, <2>1
  <2>2. CASE q # p  BY <1>2, <2>2
  <2>3. QED  BY <2>1, <2>2
<1>5. QED  BY <1>3, <1>4

LEMMA NewStage ==
  ASSUME PostsNameChats, NEW p \in Posts, posts[p].stage # "idle", NEW stage \in Stages, To(p, stage)
  PROVE  \E s \in PostRecords : /\ posts' = [posts EXCEPT ![p] = s] /\ s.stage = stage
                                /\ s.chat = posts[p].chat /\ s.message = posts[p].message
                                /\ s.emoji = posts[p].emoji
<1> DEFINE s == [posts[p] EXCEPT !.stage = stage]
<1>1. posts[p] \in PostRecords  BY PostForms
<1>2. s \in PostRecords /\ s.stage = stage /\ s.chat = posts[p].chat /\ s.message = posts[p].message
      /\ s.emoji = posts[p].emoji
  BY <1>1 DEF PostRecords
<1>3. posts' = [posts EXCEPT ![p] = s]  BY DEF To
<1> HIDE DEF s
<1>4. QED  BY <1>2, <1>3

LEMMA Refreshes ==
  ASSUME PostsNameChats, NEW c \in Chats, refreshConversation(c)
  PROVE  gets' \in [Gets -> GetRecords \union {Idle}]
<1> DEFINE s == [stage |-> "asked", chat |-> c]
<1>1. s \in GetRecords  BY DEF GetRecords
<1>2. gets' = [gets EXCEPT ![FirstIdle(gets)] = s]  BY DEF refreshConversation
<1> HIDE DEF s
<1>3. QED  BY <1>1, <1>2 DEF PostsNameChats

-----------------------------------------------------------------------------
(* Steps *)

LEMMA QuietStep ==
  ASSUME TableInv,
         \/ \E c \in Chats : HandleMessage(c)
         \/ BridgeWebhook \/ WebhookFails \/ SocketDrops \/ ConnectError \/ Connect
         \/ PerformLate \/ (\E c \in Chats, e \in Reaction : OwnerReacts(c, e)) \/ UNCHANGED vars
  PROVE  TableInv'
<1>1. /\ UNCHANGED <<posts, gets, open, view, table>>
      /\ performed \subseteq performed'
  BY DEF HandleMessage, BridgeWebhook, WebhookFails, SocketDrops, ConnectError, Connect,
         PerformLate, OwnerReacts, Perform, vars, archive, live, page, reactions
<1>2. stored' \in [Chats -> Nat]
  <2>1. stored \in [Chats -> Nat]  BY DEF TableInv, PostsNameChats
  <2>2. stored' = stored \/ \E c \in Chats : stored' = [stored EXCEPT ![c] = @ + 1]
    BY DEF HandleMessage, BridgeWebhook, WebhookFails, SocketDrops, ConnectError, Connect,
           PerformLate, OwnerReacts, vars, archive
  <2>3. QED  BY <2>1, <2>2
<1>3. hook' \in SomeChat /\ events' \in Seq(Chats)
  <2>1. hook \in SomeChat /\ events \in Seq(Chats)  BY DEF TableInv, PostsNameChats
  <2>2. hook' \in SomeChat
    BY <2>1 DEF HandleMessage, BridgeWebhook, WebhookFails, SocketDrops, ConnectError, Connect,
                PerformLate, OwnerReacts, vars, archive, SomeChat
  <2>3. events' = events \/ events' = <<>> \/ (hook # None /\ events' = Append(events, hook))
    BY DEF HandleMessage, BridgeWebhook, WebhookFails, SocketDrops, ConnectError, Connect,
           PerformLate, OwnerReacts, vars, live
  <2>4. CASE hook # None /\ events' = Append(events, hook)
    <3>1. hook \in Chats  BY <2>1, <2>4 DEF SomeChat
    <3>2. QED  BY <2>1, <2>2, <2>4, <3>1
  <2>5. CASE events' = events  BY <2>1, <2>2, <2>5
  <2>6. CASE events' = <<>>
    <3>1. <<>> \in Seq(Chats)  OBVIOUS
    <3>2. QED  BY <2>2, <2>6, <3>1
  <2>7. QED  BY <2>3, <2>4, <2>5, <2>6
<1>4. PostsNameChats'  BY <1>1, <1>2, <1>3 DEF TableInv, PostsNameChats
<1>5. QED  BY <1>1, <1>4, NothingWritten

LEMMA PageStep ==
  ASSUME TableInv,
         (\E c \in Chats : OpenChat(c)) \/ Incoming \/ Poll
           \/ (\E g \in Gets : chat_messages(g) \/ GetFails(g))
  PROVE  TableInv'
<1> USE DEF TableInv
<1>1. UNCHANGED <<posts, view, stored, table, performed, hook>>
  BY DEF OpenChat, Incoming, Poll, chat_messages, GetFails, archive, page, reactions
<1>2. open' = open \/ open' \in Chats
  BY DEF OpenChat, Incoming, Poll, chat_messages, GetFails, page
<1>3. events' \in Seq(Chats)
  <2>1. events \in Seq(Chats)  BY DEF PostsNameChats
  <2>2. events' = events \/ (events # <<>> /\ events' = Tail(events))
    BY DEF OpenChat, Incoming, Poll, chat_messages, GetFails, live
  <2>3. QED  BY <2>1, <2>2
<1>4. gets' \in [Gets -> GetRecords \union {Idle}]
  <2>1. ASSUME NEW c \in Chats, OpenChat(c) PROVE gets' \in [Gets -> GetRecords \union {Idle}]
    BY <2>1, Refreshes DEF OpenChat
  <2>2. CASE Incoming
    <3>1. events \in Seq(Chats) /\ events # <<>>  BY <2>2 DEF Incoming, PostsNameChats
    <3>2. Head(events) \in Chats  BY <3>1
    <3>3. CASE Head(events) = open  BY <2>2, <3>2, <3>3, Refreshes DEF Incoming
    <3>4. CASE Head(events) # open  BY <2>2, <3>4 DEF Incoming, PostsNameChats
    <3>5. QED  BY <3>3, <3>4
  <2>3. CASE Poll
    BY <2>3, Refreshes DEF Poll, PostsNameChats, SomeChat
  <2>4. ASSUME NEW g \in Gets, chat_messages(g) PROVE gets' \in [Gets -> GetRecords \union {Idle}]
    <3> DEFINE c == gets[g].chat
               s == [stage |-> "answered", chat |-> c, n |-> stored[c], mine |-> table[<<c, c>>]]
    <3>1. gets[g] \in GetRecords  BY <2>4 DEF chat_messages, PostsNameChats, Idle
    <3>2. c \in Chats  BY <3>1 DEF GetRecords
    <3>3. stored[c] \in Nat /\ table[<<c, c>>] \in Reaction  BY <3>2 DEF PostsNameChats, Keys
    <3>4. s \in GetRecords  BY <3>2, <3>3 DEF GetRecords
    <3>5. gets' = [gets EXCEPT ![g] = s]  BY <2>4 DEF chat_messages
    <3> HIDE DEF s
    <3>6. QED  BY <3>4, <3>5 DEF PostsNameChats
  <2>5. ASSUME NEW g \in Gets, GetFails(g) PROVE gets' \in [Gets -> GetRecords \union {Idle}]
    BY <2>5 DEF GetFails, PostsNameChats
  <2>6. QED  BY <2>1, <2>2, <2>3, <2>4, <2>5
<1>5. PostsNameChats'
  <2>1. open' \in SomeChat /\ (open' = None => open = None)  BY <1>2, ChatViewAssumption DEF PostsNameChats, SomeChat
  <2>2. QED  BY <1>1, <1>3, <1>4, <2>1 DEF PostsNameChats
<1>6. QED  BY <1>1, <1>5, NothingWritten

\* The answer is rendered; the taps lose hold of what they changed.
LEMMA RenderStep ==
  ASSUME TableInv, NEW g \in Gets, RenderMessages(g)
  PROVE  TableInv'
<1> USE DEF TableInv
<1>1. UNCHANGED <<stored, table, performed, hook, events, open>>
  BY DEF RenderMessages, archive, live, reactions
<1>2. gets[g] \in GetRecords /\ gets[g].stage = "answered"  BY DEF RenderMessages, PostsNameChats, Idle
<1>3. view' \in Views  BY <1>2 DEF RenderMessages, GetRecords, Views, SomeChat
<1>4. gets' \in [Gets -> GetRecords \union {Idle}]  BY DEF RenderMessages, PostsNameChats
<1>5. ASSUME NEW p \in Posts
      PROVE  /\ posts'[p] \in PostRecords \union {Idle} /\ posts'[p].stage = posts[p].stage
             /\ posts[p].stage # "idle" => /\ posts'[p].emoji = posts[p].emoji /\ posts'[p].chat = posts[p].chat
                                           /\ posts'[p].message = posts[p].message
  <2>1. CASE posts[p] = Idle
    <3>1. posts'[p] = Idle  BY <2>1 DEF RenderMessages
    <3>2. QED  BY <2>1, <3>1 DEF Idle
  <2>2. CASE posts[p] # Idle
    <3>1. posts[p] \in PostRecords /\ posts'[p] = [posts[p] EXCEPT !.held = FALSE]
      BY <2>2 DEF RenderMessages, PostsNameChats
    <3>2. QED  BY <3>1 DEF PostRecords
  <2>3. QED  BY <2>1, <2>2
<1>6. posts' \in [Posts -> PostRecords \union {Idle}]
  <2>1. posts' = [p \in Posts |-> posts'[p]]  BY DEF RenderMessages
  <2>2. QED  BY <1>5, <2>1
<1>7. PostsNameChats'  BY <1>1, <1>3, <1>4, <1>5, <1>6 DEF PostsNameChats
<1>8. QED  BY <1>1, <1>5, <1>7, NothingWritten

LEMMA TapStep ==
  ASSUME TableInv, NEW p \in Posts, NEW e \in Emojis, ToggleReaction(p, e)
  PROVE  TableInv'
<1> USE DEF TableInv
<1> DEFINE next == IF view.mine = e THEN None ELSE e
           s == [stage |-> "asked", chat |-> open, message |-> view.of, emoji |-> next,
                 old |-> view.mine, held |-> TRUE, retried |-> FALSE]
<1>1. UNCHANGED <<stored, table, performed, hook, events, open, gets>> /\ open # None /\ view.of # None
  BY DEF ToggleReaction, archive, live
<1>2. view \in Views /\ open \in Chats /\ view.of \in Chats /\ next \in Reaction
  BY <1>1 DEF PostsNameChats, SomeChat, Views, Reaction
<1>3. s \in PostRecords /\ s.stage = "asked"  BY <1>2 DEF PostRecords, Stages, Views
<1>4. posts' = [posts EXCEPT ![p] = s] /\ view' = [view EXCEPT !.mine = next]  BY DEF ToggleReaction
<1>5. view' \in Views  BY <1>2, <1>4 DEF Views
<1> HIDE DEF s, next
<1>6. /\ posts' \in [Posts -> PostRecords \union {Idle}]
      /\ \A q \in Posts : posts'[q].stage = "performed" =>
           /\ posts[q].stage = "performed" /\ posts'[q].emoji = posts[q].emoji
           /\ posts'[q].chat = posts[q].chat /\ posts'[q].message = posts[q].message
  BY <1>3, <1>4, OnePost
<1>7. PostsNameChats'  BY <1>1, <1>5, <1>6 DEF PostsNameChats
<1>8. QED  BY <1>1, <1>6, <1>7, NothingWritten

\* A request is over.
LEMMA EndStep ==
  ASSUME TableInv, NEW p \in Posts, Reacted(p) \/ RollBack(p)
  PROVE  TableInv'
<1> USE DEF TableInv
<1>1. UNCHANGED <<stored, table, performed, hook, events, open>> /\ posts' = [posts EXCEPT ![p] = Idle]
      /\ posts[p].stage # "idle"
  BY DEF Reacted, RollBack, archive, live, page, reactions
<1>2. posts[p] \in PostRecords /\ open \in Chats  BY <1>1, PostForms DEF PostsNameChats, SomeChat
<1>3. gets' \in [Gets -> GetRecords \union {Idle}]
  BY <1>2, Refreshes DEF Reacted, RollBack, PostsNameChats
<1>4. view' \in Views
  <2>1. view \in Views /\ posts[p].old \in Reaction  BY <1>2 DEF PostsNameChats, PostRecords
  <2>2. view' = view \/ view' = [view EXCEPT !.mine = posts[p].old]  BY DEF Reacted, RollBack, page
  <2>3. QED  BY <2>1, <2>2 DEF Views
<1>5. /\ posts' \in [Posts -> PostRecords \union {Idle}]
      /\ \A q \in Posts : posts'[q].stage = "performed" =>
           /\ posts[q].stage = "performed" /\ posts'[q].emoji = posts[q].emoji
           /\ posts'[q].chat = posts[q].chat /\ posts'[q].message = posts[q].message
  <2>1. Idle.stage # "performed"  BY DEF Idle
  <2>2. QED  BY <1>1, <2>1, OnePost
<1>6. PostsNameChats'  BY <1>1, <1>2, <1>3, <1>4, <1>5, ChatViewAssumption DEF PostsNameChats
<1>7. QED  BY <1>1, <1>5, <1>6, NothingWritten

\* The bridge did it, did it and said nothing, refused it, or will do it later.
LEMMA ReactStep ==
  ASSUME TableInv, NEW p \in Posts, React(p)
  PROVE  TableInv'
<1> USE DEF TableInv
<1>1. UNCHANGED <<stored, hook, events, open, view, gets>> /\ posts[p].stage # "idle"
  BY DEF React, ReactAnswered, ReactRetries, ReactFails, SetMyReaction, archive, live, page
<1>2. posts[p] \in PostRecords /\ Key(p) \in Keys /\ posts[p].emoji \in Reaction /\ open # None
  BY <1>1, PostForms DEF PostsNameChats
<1>3. ASSUME posts' \in [Posts -> PostRecords \union {Idle}], table' \in [Keys -> Reaction] PROVE PostsNameChats'
  BY <1>1, <1>2, <1>3 DEF PostsNameChats
<1>4. posts \in [Posts -> PostRecords \union {Idle}] /\ table \in [Keys -> Reaction]  BY DEF PostsNameChats
<1>5. CASE ReactAnswered(p)
  <2>1. table' = table /\ Perform(Key(p), posts[p].emoji) /\ To(p, "performed")  BY <1>5 DEF ReactAnswered
  <2>2. performed \subseteq performed' /\ (posts[p].emoji # None => <<Key(p), posts[p].emoji>> \in performed')
    BY <1>2, <2>1, PerformGrows
  <2>3. PICK s \in PostRecords : /\ posts' = [posts EXCEPT ![p] = s]
                                 /\ s.chat = posts[p].chat /\ s.message = posts[p].message /\ s.emoji = posts[p].emoji
    BY <1>1, <2>1, NewStage DEF Stages
  <2>4. PostsNameChats'  BY <1>3, <1>4, <2>1, <2>3
  <2>5. AnsweredIsDone'  BY <1>4, <2>2, <2>3 DEF AnsweredIsDone, Key
  <2>6. TableIsDone'  BY <2>1, <2>2 DEF TableIsDone
  <2>7. QED  BY <2>4, <2>5, <2>6
<1>6. CASE ReactRetries(p)
  <2>1. table' = table /\ performed \subseteq performed'  BY <1>2, <1>6, PerformGrows DEF ReactRetries
  <2> DEFINE s == [posts[p] EXCEPT !.retried = TRUE]
  <2>2. posts' = [posts EXCEPT ![p] = s] /\ posts[p].stage = "asked"  BY <1>6 DEF ReactRetries
  <2>3. s \in PostRecords /\ s.stage # "performed"  BY <1>2, <2>2 DEF PostRecords
  <2> HIDE DEF s
  <2>4. QED  BY <1>3, <1>4, <2>1, <2>2, <2>3, OnePost, NothingWritten
<1>7. CASE ReactFails(p)
  <2>1. table' = table /\ To(p, "failed")  BY <1>7 DEF ReactFails
  <2>2. performed \subseteq performed'  BY <1>2, <1>7, PerformGrows DEF ReactFails
  <2>3. PICK s \in PostRecords : posts' = [posts EXCEPT ![p] = s] /\ s.stage = "failed"
    BY <1>1, <2>1, NewStage DEF Stages
  <2>4. QED  BY <1>3, <1>4, <2>1, <2>2, <2>3, OnePost, NothingWritten
<1>8. CASE SetMyReaction(p)
  <2>1. /\ posts[p].stage = "performed" /\ To(p, "answered")
        /\ table' = [table EXCEPT ![Key(p)] = posts[p].emoji] /\ performed' = performed
    BY <1>8 DEF SetMyReaction
  <2>2. PICK s \in PostRecords : posts' = [posts EXCEPT ![p] = s] /\ s.stage = "answered"
    BY <1>1, <2>1, NewStage DEF Stages
  <2>3. /\ posts' \in [Posts -> PostRecords \union {Idle}]
        /\ \A q \in Posts : posts'[q].stage = "performed" =>
             /\ posts[q].stage = "performed" /\ posts'[q].emoji = posts[q].emoji
             /\ posts'[q].chat = posts[q].chat /\ posts'[q].message = posts[q].message
    BY <2>2, OnePost
  <2>4. PostsNameChats'  BY <1>2, <1>3, <1>4, <2>1, <2>3
  <2>5. AnsweredIsDone'  BY <2>1, <2>3 DEF AnsweredIsDone, Key
  <2>6. TableIsDone'  BY <1>4, <2>1 DEF TableIsDone, AnsweredIsDone
  <2>7. QED  BY <2>4, <2>5, <2>6
<1>9. QED  BY <1>5, <1>6, <1>7, <1>8 DEF React

LEMMA TableStep == TableInv /\ [Next]_vars => TableInv'
BY QuietStep, PageStep, RenderStep, TapStep, EndStep, ReactStep DEF Next

\* Whatever is refused, lost, retried, done late or tapped on meanwhile, the table
\* the page reads its reactions from names none that WhatsApp never had.
THEOREM TableNeverClaims == Spec => []TableIsDone
<1>1. TableInv => TableIsDone  BY DEF TableInv
<1>2. QED  BY TableInit, TableStep, <1>1, PTL DEF Spec

-----------------------------------------------------------------------------
(* The table and WhatsApp *)

\* What the bridge still does late it does to messages with a failed reaction;
\* elsewhere at most one reaction is on its way, and the one the bridge has
\* answered is the one WhatsApp shows.
LateIsDisturbed == disturbed \subseteq Keys /\ late \subseteq disturbed \X Reaction
OneInTurn ==
  \A p, q \in Posts : InTurn(p) /\ InTurn(q) /\ Key(p) = Key(q) => p = q \/ Key(p) \in disturbed
AnsweredIsReal ==
  \A p \in Posts : posts[p].stage = "performed" => Key(p) \in disturbed \/ real[Key(p)] = posts[p].emoji

AgreeInv ==
  /\ real \in [Keys -> Reaction]
  /\ LateIsDisturbed /\ OneInTurn /\ AnsweredIsReal /\ ReactionsAgree

LEMMA AgreeInit == Init => AgreeInv
<1> SUFFICES ASSUME Init PROVE AgreeInv
  OBVIOUS
<1>1. real \in [Keys -> Reaction] /\ LateIsDisturbed /\ ReactionsAgree
  BY DEF Init, Reaction, LateIsDisturbed, ReactionsAgree
<1>2. \A p \in Posts : ~InTurn(p) /\ posts[p].stage # "performed"  BY DEF Init, InTurn, Idle
<1>3. QED  BY <1>1, <1>2 DEF AgreeInv, OneInTurn, AnsweredIsReal

\* The same reactions are on their way, and nothing else about them changes.
LEMMA SameTurns ==
  ASSUME AgreeInv, UNCHANGED reactions,
         \A p \in Posts : InTurn(p) \/ InTurn(p)' =>
           /\ posts'[p].stage = posts[p].stage /\ posts'[p].emoji = posts[p].emoji
           /\ posts'[p].chat = posts[p].chat /\ posts'[p].message = posts[p].message
  PROVE  AgreeInv'
<1> USE DEF AgreeInv, reactions
<1>1. real' \in [Keys -> Reaction] /\ LateIsDisturbed'  BY DEF LateIsDisturbed
<1>2. \A p \in Posts : InTurn(p)' <=> InTurn(p)  BY DEF InTurn
<1>3. \A p \in Posts : InTurn(p) => Key(p)' = Key(p)  BY DEF Key
<1>4. OneInTurn'  BY <1>2, <1>3 DEF OneInTurn
<1>5. AnsweredIsReal'
  <2>1. \A p \in Posts : posts'[p].stage = "performed" => InTurn(p)'  BY DEF InTurn
  <2>2. QED  BY <1>2, <1>3, <2>1 DEF AnsweredIsReal
<1>6. ReactionsAgree'  BY <1>2, <1>3 DEF ReactionsAgree
<1>7. QED  BY <1>1, <1>4, <1>5, <1>6

LEMMA AgreeQuietStep ==
  ASSUME AgreeInv,
         \/ \E c \in Chats : HandleMessage(c) \/ OpenChat(c)
         \/ BridgeWebhook \/ WebhookFails \/ SocketDrops \/ ConnectError \/ Connect
         \/ Incoming \/ Poll \/ (\E g \in Gets : chat_messages(g) \/ GetFails(g)) \/ UNCHANGED vars
  PROVE  AgreeInv'
<1>1. UNCHANGED reactions /\ UNCHANGED posts
  BY DEF HandleMessage, OpenChat, BridgeWebhook, WebhookFails, SocketDrops, ConnectError, Connect,
         Incoming, Poll, chat_messages, GetFails, vars
<1>2. QED  BY <1>1, SameTurns

LEMMA AgreeRenderStep ==
  ASSUME TableInv, AgreeInv, NEW g \in Gets, RenderMessages(g)
  PROVE  AgreeInv'
<1>1. UNCHANGED reactions  BY DEF RenderMessages
<1>2. ASSUME NEW p \in Posts, InTurn(p) \/ InTurn(p)'
      PROVE  /\ posts'[p].stage = posts[p].stage /\ posts'[p].emoji = posts[p].emoji
             /\ posts'[p].chat = posts[p].chat /\ posts'[p].message = posts[p].message
  <2>1. CASE posts[p] = Idle
    <3>1. posts'[p] = Idle  BY <2>1 DEF RenderMessages
    <3>2. QED  BY <1>2, <2>1, <3>1 DEF InTurn, Idle
  <2>2. CASE posts[p] # Idle
    <3>1. posts[p] \in PostRecords /\ posts'[p] = [posts[p] EXCEPT !.held = FALSE]
      BY <2>2 DEF RenderMessages, TableInv, PostsNameChats
    <3>2. QED  BY <3>1 DEF PostRecords
  <2>3. QED  BY <2>1, <2>2
<1>3. QED  BY <1>1, <1>2, SameTurns

\* A late reaction changes what WhatsApp shows where the promise was given up.
LEMMA AgreeLateStep ==
  ASSUME AgreeInv, PerformLate
  PROVE  AgreeInv'
<1> USE DEF AgreeInv
<1>1. PICK r \in late : Perform(r[1], r[2]) /\ late' = late \ {r}  BY DEF PerformLate
<1>2. UNCHANGED <<posts, table, disturbed>>  BY DEF PerformLate
<1>3. r[1] \in disturbed /\ r[1] \in Keys /\ r[2] \in Reaction  BY DEF LateIsDisturbed
<1>4. real' = [real EXCEPT ![r[1]] = r[2]]  BY <1>1 DEF Perform
<1>5. real' \in [Keys -> Reaction] /\ \A k \in Keys : k \in disturbed \/ real'[k] = real[k]  BY <1>3, <1>4
<1>6. LateIsDisturbed' /\ OneInTurn'  BY <1>1, <1>2 DEF LateIsDisturbed, OneInTurn, InTurn, Key
<1>7. AnsweredIsReal'  BY <1>2, <1>3, <1>4 DEF AnsweredIsReal, Key
<1>8. ReactionsAgree'  BY <1>2, <1>5 DEF ReactionsAgree, InTurn, Key
<1>9. QED  BY <1>5, <1>6, <1>7, <1>8

\* So does the owner's on the phone.
LEMMA AgreeOwnerStep ==
  ASSUME AgreeInv, NEW c \in Chats, NEW e \in Reaction, OwnerReacts(c, e)
  PROVE  AgreeInv'
<1> USE DEF AgreeInv
<1> DEFINE k == <<c, c>>
<1>1. k \in Keys  BY DEF Keys
<1>2. /\ UNCHANGED <<posts, table, late>> /\ disturbed' = disturbed \union {k}
      /\ real' = [real EXCEPT ![k] = e]
  BY DEF OwnerReacts, Perform
<1> HIDE DEF k
<1>3. real' \in [Keys -> Reaction] /\ \A i \in Keys : i \in disturbed' \/ real'[i] = real[i]  BY <1>1, <1>2
<1>4. LateIsDisturbed' /\ OneInTurn'  BY <1>1, <1>2 DEF LateIsDisturbed, OneInTurn, InTurn, Key
<1>5. AnsweredIsReal'  BY <1>2 DEF AnsweredIsReal, Key
<1>6. ReactionsAgree'  BY <1>2, <1>3 DEF ReactionsAgree, InTurn, Key
<1>7. QED  BY <1>3, <1>4, <1>5, <1>6

\* A tap on a message with a reaction on its way gives up the promise for it, any
\* other one renews it.
LEMMA AgreeTapStep ==
  ASSUME TableInv, AgreeInv, NEW p \in Posts, NEW e \in Emojis, ToggleReaction(p, e)
  PROVE  AgreeInv'
<1> USE DEF AgreeInv
<1> DEFINE next == IF view.mine = e THEN None ELSE e
           k == <<open, view.of>>
           s == [stage |-> "asked", chat |-> open, message |-> view.of, emoji |-> next,
                 old |-> view.mine, held |-> TRUE, retried |-> FALSE]
<1>1. /\ UNCHANGED <<real, table, late>> /\ posts' = [posts EXCEPT ![p] = s]
      /\ disturbed' = IF OnItsWay(k) THEN disturbed \union {k} ELSE disturbed \ {k}
      /\ posts[p] = Idle /\ open # None /\ view.of # None
  BY DEF ToggleReaction
<1>2. k \in Keys  BY <1>1 DEF TableInv, PostsNameChats, SomeChat, Views, Keys
<1>3. s.stage = "asked" /\ <<s.chat, s.message>> = k  OBVIOUS
<1> HIDE DEF s, k
<1>4. \A q \in Posts : posts'[q] = IF q = p THEN s ELSE posts[q]  BY <1>1 DEF TableInv, PostsNameChats
<1>5. InTurn(p)' /\ Key(p)' = k /\ ~InTurn(p)  BY <1>1, <1>3, <1>4 DEF InTurn, Key, Idle
<1>6. \A q \in Posts \ {p} : (InTurn(q)' <=> InTurn(q)) /\ Key(q)' = Key(q)  BY <1>4 DEF InTurn, Key
<1>7. /\ \A i \in disturbed : i \in disturbed' \/ i = k
      /\ \A q \in Posts : InTurn(q) /\ Key(q) = k => k \in disturbed'
      /\ \A r \in late : r[1] \in disturbed'
      /\ disturbed' \subseteq Keys
  <2>1. CASE OnItsWay(k)  BY <1>1, <1>2, <2>1 DEF LateIsDisturbed
  <2>2. CASE ~OnItsWay(k)  BY <1>1, <1>2, <2>2 DEF OnItsWay, LateIsDisturbed
  <2>3. QED  BY <2>1, <2>2
<1>8. LateIsDisturbed'
  <2>1. \A r \in late : r = <<r[1], r[2]>> /\ r[2] \in Reaction  BY DEF LateIsDisturbed
  <2>2. QED  BY <1>1, <1>7, <2>1 DEF LateIsDisturbed
<1>9. OneInTurn'
  <2>1. ASSUME NEW i \in Posts, NEW j \in Posts, i # j, InTurn(i)', InTurn(j)', Key(i)' = Key(j)'
        PROVE  Key(i)' \in disturbed'
    <3>1. CASE i = p  BY <1>5, <1>6, <1>7, <2>1, <3>1
    <3>2. CASE j = p  BY <1>5, <1>6, <1>7, <2>1, <3>2
    <3>3. CASE i # p /\ j # p
      <4>1. InTurn(i) /\ InTurn(j) /\ Key(i) = Key(j) /\ Key(i)' = Key(i)  BY <1>6, <2>1, <3>3
      <4>2. Key(i) \in disturbed  BY <2>1, <4>1 DEF OneInTurn
      <4>3. QED  BY <1>7, <4>1, <4>2
    <3>4. QED  BY <3>1, <3>2, <3>3
  <2>2. QED  BY <2>1 DEF OneInTurn
<1>10. AnsweredIsReal'
  <2>1. posts'[p].stage # "performed"  BY <1>3, <1>4
  <2>2. \A q \in Posts \ {p} : posts'[q] = posts[q]  BY <1>4
  <2>3. ASSUME NEW q \in Posts, posts'[q].stage = "performed"
        PROVE  Key(q)' \in disturbed' \/ real'[Key(q)'] = posts'[q].emoji
    <3>1. q # p /\ posts[q].stage = "performed" /\ InTurn(q) /\ Key(q)' = Key(q) /\ posts'[q].emoji = posts[q].emoji
      BY <1>6, <2>1, <2>2, <2>3 DEF InTurn
    <3>2. Key(q) \in disturbed \/ real[Key(q)] = posts[q].emoji  BY <3>1 DEF AnsweredIsReal
    <3>3. QED  BY <1>1, <1>7, <3>1, <3>2
  <2>4. QED  BY <2>3 DEF AnsweredIsReal
<1>11. ReactionsAgree'
  <2>1. ASSUME NEW i \in Keys
        PROVE  i \in disturbed' \/ (\E q \in Posts : InTurn(q)' /\ Key(q)' = i) \/ table[i] = real[i]
    <3>1. CASE i = k  BY <1>5, <3>1
    <3>2. CASE i # k  BY <1>5, <1>6, <1>7, <3>2 DEF ReactionsAgree
    <3>3. QED  BY <3>1, <3>2
  <2>2. QED  BY <1>1, <2>1 DEF ReactionsAgree
<1>12. QED  BY <1>1, <1>8, <1>9, <1>10, <1>11

\* An answered or failed request ends; the promise does not depend on it.
LEMMA AgreeEndStep ==
  ASSUME TableInv, AgreeInv, NEW p \in Posts, Reacted(p) \/ RollBack(p)
  PROVE  AgreeInv'
<1>1. UNCHANGED reactions /\ posts' = [posts EXCEPT ![p] = Idle] /\ ~InTurn(p)
  BY DEF Reacted, RollBack, InTurn
<1>2. \A q \in Posts : posts'[q] = IF q = p THEN Idle ELSE posts[q]  BY <1>1 DEF TableInv, PostsNameChats
<1>3. ~InTurn(p)'  BY <1>2 DEF InTurn, Idle
<1>4. QED  BY <1>1, <1>2, <1>3, SameTurns

\* The bridge sets one reaction, or does not: what was promised of a message
\* with no other reaction on its way holds of the request that did it.
LEMMA AgreeReactStep ==
  ASSUME TableInv, AgreeInv, NEW p \in Posts, React(p)
  PROVE  AgreeInv'
<1> USE DEF AgreeInv
<1> DEFINE k == Key(p)
           e == posts[p].emoji
<1>1. InTurn(p)
  BY DEF React, ReactAnswered, ReactRetries, ReactFails, SetMyReaction, InTurn
<1>2. posts[p] \in PostRecords /\ k \in Keys /\ e \in Reaction
  BY <1>1, PostForms DEF InTurn, TableInv
<1>3. \A q \in Posts : InTurn(q) /\ Key(q) = k => q = p \/ k \in disturbed
  BY <1>1 DEF OneInTurn
<1>4. ASSUME NEW st, To(p, st)
      PROVE  /\ \A q \in Posts \ {p} : posts'[q] = posts[q]
             /\ posts'[p].stage = st /\ Key(p)' = k /\ posts'[p].emoji = e
  <2>1. posts' = [posts EXCEPT ![p] = [posts[p] EXCEPT !.stage = st]] /\ posts \in [Posts -> PostRecords \union {Idle}]
    BY <1>4 DEF To, TableInv, PostsNameChats
  <2>2. posts'[p] = [posts[p] EXCEPT !.stage = st] /\ \A q \in Posts \ {p} : posts'[q] = posts[q]  BY <2>1
  <2>3. QED  BY <1>2, <2>2 DEF PostRecords, Key
<1> HIDE DEF k, e
<1>5. CASE ReactAnswered(p)
  <2>1. /\ UNCHANGED <<table, late, disturbed>> /\ To(p, "performed") /\ real' = [real EXCEPT ![k] = e]
    BY <1>5 DEF ReactAnswered, Perform, k, e
  <2>2. /\ \A q \in Posts \ {p} : posts'[q] = posts[q] /\ (InTurn(q)' <=> InTurn(q)) /\ Key(q)' = Key(q)
        /\ InTurn(p)' /\ Key(p)' = k /\ posts'[p].emoji = e
    BY <1>4, <2>1 DEF InTurn, Key
  <2>3. real' \in [Keys -> Reaction] /\ real'[k] = e /\ \A i \in Keys \ {k} : real'[i] = real[i]  BY <1>2, <2>1
  <2>4. LateIsDisturbed'  BY <2>1 DEF LateIsDisturbed
  <2>5. OneInTurn'  BY <1>1, <2>1, <2>2 DEF OneInTurn, k
  <2>6. AnsweredIsReal'
    <3>1. ASSUME NEW q \in Posts \ {p}, posts'[q].stage = "performed"
          PROVE  Key(q)' \in disturbed' \/ real'[Key(q)'] = posts'[q].emoji
      <4>1. InTurn(q) /\ posts[q].stage = "performed"  BY <2>2, <3>1 DEF InTurn
      <4>2. Key(q) \in Keys  BY <4>1, PostForms DEF TableInv
      <4>3. CASE Key(q) = k  BY <1>3, <2>1, <2>2, <4>1, <4>3
      <4>4. CASE Key(q) # k  BY <2>1, <2>2, <2>3, <4>1, <4>2, <4>4 DEF AnsweredIsReal
      <4>5. QED  BY <4>3, <4>4
    <3>2. QED  BY <2>2, <2>3, <3>1 DEF AnsweredIsReal
  <2>7. ReactionsAgree'  BY <2>1, <2>2, <2>3 DEF ReactionsAgree, k
  <2>8. QED  BY <2>3, <2>4, <2>5, <2>6, <2>7
<1>6. CASE ReactRetries(p)
  <2>1. /\ UNCHANGED <<table, late, disturbed>> /\ posts[p].stage = "asked"
        /\ posts' = [posts EXCEPT ![p] = [posts[p] EXCEPT !.retried = TRUE]]
        /\ real' = [real EXCEPT ![k] = e] \/ real' = real
    BY <1>6 DEF ReactRetries, Perform, k, e
  <2>2. /\ posts'[p] = [posts[p] EXCEPT !.retried = TRUE]
        /\ \A q \in Posts \ {p} : posts'[q] = posts[q]
    BY <2>1 DEF TableInv, PostsNameChats
  <2>3. posts'[p].stage = "asked" /\ Key(p)' = k  BY <1>2, <2>1, <2>2 DEF PostRecords, Key, k
  <2>4. \A q \in Posts : (InTurn(q)' <=> InTurn(q)) /\ Key(q)' = Key(q)  BY <1>1, <2>2, <2>3 DEF InTurn, Key, k
  <2>5. real' \in [Keys -> Reaction] /\ \A i \in Keys \ {k} : real'[i] = real[i]  BY <1>2, <2>1
  <2>6. LateIsDisturbed' /\ OneInTurn'  BY <2>1, <2>4 DEF LateIsDisturbed, OneInTurn
  <2>7. AnsweredIsReal'
    <3>1. ASSUME NEW q \in Posts, posts'[q].stage = "performed"
          PROVE  Key(q)' \in disturbed' \/ real'[Key(q)'] = posts'[q].emoji
      <4>1. q # p  BY <2>3, <3>1
      <4>2. InTurn(q) /\ posts[q].stage = "performed" /\ posts'[q] = posts[q]  BY <2>2, <3>1, <4>1 DEF InTurn
      <4>3. Key(q) \in Keys  BY <4>2, PostForms DEF TableInv
      <4>4. CASE Key(q) = k  BY <1>3, <2>1, <2>4, <4>1, <4>2, <4>4
      <4>5. CASE Key(q) # k  BY <2>1, <2>4, <2>5, <4>2, <4>3, <4>5 DEF AnsweredIsReal
      <4>6. QED  BY <4>4, <4>5
    <3>2. QED  BY <3>1 DEF AnsweredIsReal
  <2>8. ReactionsAgree'  BY <1>1, <2>1, <2>4, <2>5 DEF ReactionsAgree, k
  <2>9. QED  BY <2>5, <2>6, <2>7, <2>8
<1>7. CASE ReactFails(p)
  <2>1. /\ table' = table /\ disturbed' = disturbed \union {k} /\ To(p, "failed")
        /\ real' = [real EXCEPT ![k] = e] \/ real' = real
        /\ late' = late \union {<<k, e>>} \/ late' = late
    BY <1>7 DEF ReactFails, Perform, k, e
  <2>2. /\ \A q \in Posts \ {p} : posts'[q] = posts[q] /\ (InTurn(q)' <=> InTurn(q)) /\ Key(q)' = Key(q)
        /\ posts'[p].stage = "failed" /\ ~InTurn(p)'
    BY <1>4, <2>1 DEF InTurn, Key
  <2>3. real' \in [Keys -> Reaction] /\ \A i \in Keys \ {k} : real'[i] = real[i]  BY <1>2, <2>1
  <2>4. LateIsDisturbed'  BY <1>2, <2>1 DEF LateIsDisturbed
  <2>5. OneInTurn'  BY <2>1, <2>2 DEF OneInTurn
  <2>6. AnsweredIsReal'
    <3>1. ASSUME NEW q \in Posts, posts'[q].stage = "performed"
          PROVE  Key(q)' \in disturbed' \/ real'[Key(q)'] = posts'[q].emoji
      <4>1. q # p  BY <2>2, <3>1
      <4>2. InTurn(q) /\ posts[q].stage = "performed" /\ posts'[q] = posts[q] /\ Key(q)' = Key(q)
        BY <2>2, <3>1, <4>1 DEF InTurn
      <4>3. Key(q) \in Keys  BY <4>2, PostForms DEF TableInv
      <4>4. QED  BY <2>1, <2>3, <4>2, <4>3 DEF AnsweredIsReal
    <3>2. QED  BY <3>1 DEF AnsweredIsReal
  <2>7. ReactionsAgree'  BY <2>1, <2>2, <2>3 DEF ReactionsAgree, k
  <2>8. QED  BY <2>3, <2>4, <2>5, <2>6, <2>7
<1>8. CASE SetMyReaction(p)
  <2>1. /\ UNCHANGED <<real, late, disturbed>> /\ To(p, "answered") /\ table' = [table EXCEPT ![k] = e]
        /\ posts[p].stage = "performed"
    BY <1>8 DEF SetMyReaction, k, e
  <2>2. /\ \A q \in Posts \ {p} : posts'[q] = posts[q] /\ (InTurn(q)' <=> InTurn(q)) /\ Key(q)' = Key(q)
        /\ posts'[p].stage = "answered" /\ ~InTurn(p)'
    BY <1>4, <2>1 DEF InTurn, Key
  <2>3. k \in disturbed \/ real[k] = e  BY <2>1 DEF AnsweredIsReal, k, e
  <2>4. table'[k] = e /\ \A i \in Keys \ {k} : table'[i] = table[i]
    BY <1>2, <2>1 DEF TableInv, PostsNameChats
  <2>5. LateIsDisturbed' /\ OneInTurn'  BY <2>1, <2>2 DEF LateIsDisturbed, OneInTurn
  <2>6. AnsweredIsReal'
    <3>1. ASSUME NEW q \in Posts, posts'[q].stage = "performed"
          PROVE  Key(q)' \in disturbed' \/ real'[Key(q)'] = posts'[q].emoji
      <4>1. q # p  BY <2>2, <3>1
      <4>2. QED  BY <2>1, <2>2, <3>1, <4>1 DEF AnsweredIsReal
    <3>2. QED  BY <3>1 DEF AnsweredIsReal
  <2>7. ReactionsAgree'  BY <2>1, <2>2, <2>3, <2>4 DEF ReactionsAgree, k
  <2>8. QED  BY <2>1, <2>5, <2>6, <2>7
<1>9. QED  BY <1>5, <1>6, <1>7, <1>8 DEF React

LEMMA AgreeStep == TableInv /\ AgreeInv /\ [Next]_vars => AgreeInv'
BY AgreeQuietStep, AgreeRenderStep, AgreeLateStep, AgreeOwnerStep, AgreeTapStep, AgreeEndStep, AgreeReactStep DEF Next

\* A tap that has its message to itself makes the table and WhatsApp agree, and
\* they stay so until a reaction fails, overlaps another or is made on the phone:
\* for any number of taps, of retries that did it twice and of late reactions.
THEOREM TableAgrees == Spec => []ReactionsAgree
<1>1. TableInv /\ AgreeInv => ReactionsAgree  BY DEF AgreeInv
<1>2. Spec => []TableInv  BY TableInit, TableStep, PTL DEF Spec
<1>3. Spec => []AgreeInv  BY <1>2, AgreeInit, AgreeStep, PTL DEF Spec
<1>4. QED  BY <1>1, <1>2, <1>3, PTL

=============================================================================
