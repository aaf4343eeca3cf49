------------------------------ MODULE LidChats ------------------------------
(***************************************************************************)
(* How the bridge files one person under two addresses                     *)
(* (whatsapp-bridge/main.go).  WhatsApp addresses a person by phone number *)
(* or by an opaque LID, and the bridge learns which LID is whose only      *)
(* while it runs.  Until then rows go under the LID; at each start two     *)
(* transactions, one for chats and one for senders, move what the map can  *)
(* resolve by then.                                                        *)
(*                                                                         *)
(* A handler is one step here: MessageStore has its single statements.     *)
(* A live copy of a message may carry a later time than the message: it is *)
(* a resend whose original time was lost with the process, or to the limit *)
(* on times remembered.                                                    *)
(*                                                                         *)
(* A name is a pair like an address: <<p, "name">> is what whatsmeow's     *)
(* contacts (or a group's info) call p, <<p, "push">> what p calls         *)
(* themselves, and an address as a name is its digits.                     *)
(* Left out: contents, media, reply links, timers; a contact that is named *)
(* or renamed while the bridge runs.                                       *)
(***************************************************************************)
EXTENDS Naturals

CONSTANTS
  People,       \* everybody but the owner of the account
  Groups,
  Me,           \* the owner
  Known,        \* people with a name in whatsmeow_contacts, filed by phone
  Msgs,         \* message ids
  Resent,       \* those of which a copy may come whose original time is forgotten
  Traffics,     \* what may be sent: per message the chat it is in, its sender, its time
  MaxTime,      \* bound: times of messages and receipts
  MaxLearnt,    \* bound: revokes and receipts
  MaxStarts     \* bound: starts of the bridge after the first

ASSUME LidAssumption ==
  /\ Known \subseteq People /\ Resent \subseteq Msgs /\ Me \notin People \union Groups /\ People \cap Groups = {}
  /\ \A sent \in Traffics, m \in Msgs :
       /\ sent[m].in \in People \union Groups /\ sent[m].time \in 1..MaxTime
       /\ sent[m].from \in IF sent[m].in \in Groups THEN People \union {Me} ELSE {sent[m].in, Me}
  /\ MaxTime \in Nat /\ MaxLearnt \in Nat /\ MaxStarts \in Nat

VARIABLES
  sent,         \* what is sent in this behaviour
  lids,         \* people in whatsmeow_lid_map
  rows,         \* messages, by rowid: a number of which only the order matters
  chats,        \* one record per address; known: the row exists; 0 is NULL
  stage,        \* up, down, or between the two migrations of a start
  settled,      \* history: people in the map when a start was last completed
  strangers,    \* history: people who ever had a chat under their LID
  learnt, starts

store == <<rows, chats>>
bounds == <<sent, learnt, starts>>
state == <<lids, store, stage, settled, bounds>>
lidVars == <<state, strangers>>

Times == 1..MaxTime
Later(s, t) == IF s < t THEN t ELSE s
Newest(S) == IF S = {} THEN 0 ELSE CHOOSE t \in S : \A u \in S : u <= t

Phone(p) == <<p, "pn">>
Lid(p) == <<p, "lid">>
Jids == {Phone(p) : p \in People} \union {Lid(p) : p \in People} \union {<<g, "group">> : g \in Groups}
Addresses == Jids \union {Phone(Me)}
IsGroup(j) == j[2] = "group"

\* A row of messages; sender is the bare user part.
Rows == [id : Msgs, chat : Jids, sender : Addresses, mine : BOOLEAN, time : Times, deleted : BOOLEAN]
NoName == <<Me, "none">>
Named(x) == <<x, "name">>
Push(p) == <<p, "push">>
IsDigits(n) == n \in Addresses
Names == {NoName} \union {Named(x) : x \in People \union Groups} \union {Push(p) : p \in People} \union Addresses
Chats == [known : BOOLEAN, name : Names, newest : 0..MaxTime, read : 0..MaxTime]
NoChat == [known |-> FALSE, name |-> NoName, newest |-> 0, read |-> 0]

LastRow == Newest(DOMAIN rows)
RowAt(m, j) == {i \in DOMAIN rows : rows[i].id = m /\ rows[i].chat = j}
Copies(m) == {i \in DOMAIN rows : rows[i].id = m}

LidInit ==
  /\ sent \in Traffics /\ lids = {} /\ rows = <<>> /\ chats = [j \in Jids |-> NoChat]
  /\ stage = "up" /\ settled = {} /\ strangers = {} /\ learnt = 0 /\ starts = 0

-----------------------------------------------------------------------------
(* Resolution *)

\* An address under which a chat or a sender is filed.  A live message that
\* names the phone number beside the LID has first put both into the map.
Resolved(j) == IF j[2] = "lid" /\ j[1] \in lids THEN Phone(j[1]) ELSE j

resolveLIDChat(j) == Resolved(j)
resolveUserJID(j) == Resolved(j)

\* A name is kept once there is one, digits too.  Without any, the digits are
\* those of whoever wrote: the owner's own number when they wrote first.
GetChatName(j, sender) ==
  IF chats[j].name # NoName THEN chats[j].name
  ELSE IF IsGroup(j) \/ (j[1] \in Known /\ j = Phone(j[1])) THEN Named(j[1]) ELSE sender

\* A live message that brings a push name replaces the digits of its chat's
\* address, as the message has it, but no other digits.
LiveChatName(j, raw, sender, pushed) ==
  IF pushed /\ sender[1] # Me /\ ~IsGroup(raw) /\ GetChatName(j, sender) = raw
  THEN Push(raw[1]) ELSE GetChatName(j, sender)

\* whatsmeow learns whose LID it is.
MapIsLearnt(p) ==
  /\ stage = "up" /\ p \notin lids
  /\ lids' = lids \union {p}
  /\ UNCHANGED <<store, stage, settled, bounds>>

-----------------------------------------------------------------------------
(* Handlers *)

\* Mutant: the newest message is the one stored last.
StoreChatAsItComes(j, name, t) ==
  chats' = [chats EXCEPT ![j].known = TRUE, ![j].name = name, ![j].newest = t]

StoreChat(j, name, t) ==
  chats' = [chats EXCEPT ![j].known = TRUE, ![j].name = name, ![j].newest = Later(@, t)]

\* The upsert keeps the place of the row and its deleted_at, and takes the rest.
StoreMessage(m, j, s, mine, t) ==
  rows' = IF RowAt(m, j) # {}
          THEN [i \in DOMAIN rows |->
                 IF i \in RowAt(m, j) THEN [rows[i] EXCEPT !.sender = s, !.time = t] ELSE rows[i]]
          ELSE [i \in DOMAIN rows \union {LastRow + 1} |->
                 IF i \in DOMAIN rows THEN rows[i]
                 ELSE [id |-> m, chat |-> j, sender |-> s, mine |-> mine, time |-> t, deleted |-> FALSE]]

\* A message bears the address of its chat and that of its sender, each of
\* either form; somebody else's in a direct chat bears one for both.
Bears(m, raw, from) ==
  /\ raw[1] = sent[m].in /\ from[1] = sent[m].from
  /\ IsGroup(raw) \/ from[1] = Me \/ from = raw

\* A live message, in any order and again; a resend may have a later time.
HandleMessage(m, raw, from, t, pushed) ==
  /\ stage = "up" /\ Bears(m, raw, from)
  /\ t = sent[m].time \/ (m \in Resent /\ sent[m].time <= t)
  /\ LET j == resolveLIDChat(raw)
         s == resolveUserJID(from)
     IN /\ StoreChat(j, LiveChatName(j, raw, s, pushed), t)
        /\ StoreMessage(m, j, s, sent[m].from = Me, t)
  /\ UNCHANGED <<lids, stage, settled, bounds>>

\* One of a history sync: WhatsApp's own time, no sender for the name.
HandleSynced(m, raw, from) ==
  /\ stage = "up" /\ Bears(m, raw, from)
  /\ LET j == resolveLIDChat(raw)
     IN /\ StoreChat(j, GetChatName(j, j), sent[m].time)
        /\ StoreMessage(m, j, resolveUserJID(from), sent[m].from = Me, sent[m].time)
  /\ UNCHANGED <<lids, stage, settled, bounds>>

\* A message is revoked by its sender in the chat it was sent in, by either
\* address.  The revoke is a message to the chat's name and newest time.
HandleRevoke(m, raw, from, t, pushed) ==
  /\ stage = "up" /\ learnt < MaxLearnt /\ Bears(m, raw, from) /\ sent[m].time <= t
  /\ LET j == resolveLIDChat(raw)
     IN /\ StoreChat(j, LiveChatName(j, raw, resolveUserJID(from), pushed), t)
        /\ rows' = [i \in DOMAIN rows |-> IF i \in RowAt(m, j) THEN [rows[i] EXCEPT !.deleted = TRUE] ELSE rows[i]]
  /\ learnt' = learnt + 1
  /\ UNCHANGED <<lids, stage, settled, sent, starts>>

\* The owner read message m on another device: the marker is the time of the
\* row, or of the receipt when the row is not filed there.
HandleReceipt(m, raw, t) ==
  /\ stage = "up" /\ learnt < MaxLearnt /\ raw[1] = sent[m].in /\ sent[m].time <= t
  /\ LET j == resolveLIDChat(raw)
         acked == {rows[i].time : i \in RowAt(m, j)}
         readAt == IF acked = {} THEN t ELSE Newest(acked)
     IN chats' = [chats EXCEPT ![j].known = TRUE, ![j].read = Later(@, readAt)]
  /\ learnt' = learnt + 1
  /\ UNCHANGED <<lids, rows, stage, settled, sent, starts>>

-----------------------------------------------------------------------------
(* A start *)

Stop ==
  /\ stage = "up" /\ starts < MaxStarts
  /\ stage' = "down" /\ starts' = starts + 1
  /\ UNCHANGED <<lids, store, settled, sent, learnt>>

InLid(p) == {i \in DOMAIN rows : rows[i].chat = Lid(p)}
Legacy == {p \in lids : chats[Lid(p)].known \/ InLid(p) # {}}

\* The LID chat's newest message: its own column, or the rows when that is NULL.
SourceNewest(p) ==
  IF chats[Lid(p)].newest # 0 THEN chats[Lid(p)].newest
  ELSE Newest({rows[i].time : i \in InLid(p)})

\* Mutant: an existing phone chat keeps its own columns.
PhoneChatWins(p) ==
  IF chats[Phone(p)].known THEN chats[Phone(p)]
  ELSE [chats[Lid(p)] EXCEPT !.newest = SourceNewest(p)]

MergedChat(p) ==
  [known |-> TRUE,
   name |-> IF chats[Phone(p)].name # NoName THEN chats[Phone(p)].name
            ELSE IF chats[Lid(p)].name # NoName THEN chats[Lid(p)].name ELSE Phone(p),
   newest |-> Later(chats[Phone(p)].newest, SourceNewest(p)),
   read |-> Later(chats[Phone(p)].read, chats[Lid(p)].read)]

\* The copied columns do not include deleted_at.
Moved(r) == [r EXCEPT !.chat = Phone(r.chat[1]), !.deleted = FALSE]

InLegacyChat == {i \in DOMAIN rows : rows[i].chat \in {Lid(p) : p \in Legacy}}

\* Mutant: the row under the LID is deleted, not copied.
DropLegacyRows == [i \in DOMAIN rows \ InLegacyChat |-> rows[i]]

\* INSERT OR IGNORE, then DELETE: a row whose id the phone chat has is dropped,
\* the others come after the rows there are, in their order.
MovedRows ==
  LET toCopy == {i \in InLegacyChat : RowAt(rows[i].id, Phone(rows[i].chat[1])) = {}}
      kept == DOMAIN rows \ InLegacyChat
  IN [i \in kept \union {LastRow + k : k \in toCopy} |->
       IF i \in kept THEN rows[i] ELSE Moved(rows[i - LastRow])]

\* One transaction.
MigrateLegacyLIDChatsToPhoneJIDs ==
  /\ stage = "down"
  /\ chats' = [j \in Jids |->
                IF j[1] \notin Legacy THEN chats[j]
                ELSE IF j[2] = "lid" THEN NoChat ELSE MergedChat(j[1])]
  /\ rows' = MovedRows
  /\ stage' = "chats moved"
  /\ UNCHANGED <<lids, settled, bounds>>

\* Mutant: the second migration is not part of the start.
SendersStay ==
  /\ stage = "chats moved" /\ stage' = "up" /\ settled' = lids
  /\ UNCHANGED <<lids, store, bounds>>

\* Another one, or none if the process ends here.
MigrateLegacyLIDSendersToPhones ==
  /\ stage = "chats moved"
  /\ \/ /\ rows' = [i \in DOMAIN rows |->
                     IF rows[i].sender[2] = "lid" /\ rows[i].sender[1] \in lids
                     THEN [rows[i] EXCEPT !.sender = Phone(@[1])] ELSE rows[i]]
        /\ stage' = "up" /\ settled' = lids /\ UNCHANGED starts
     \/ /\ starts < MaxStarts
        /\ stage' = "down" /\ starts' = starts + 1 /\ UNCHANGED <<rows, settled>>
  /\ UNCHANGED <<lids, chats, sent, learnt>>

Arrive(m, raw) ==
  \/ \E from \in Addresses : HandleSynced(m, raw, from)
  \/ \E from \in Addresses, t \in Times, pushed \in BOOLEAN :
       HandleMessage(m, raw, from, t, pushed) \/ HandleRevoke(m, raw, from, t, pushed)
  \/ \E t \in Times : HandleReceipt(m, raw, t)

Step ==
  \/ \E p \in People : MapIsLearnt(p)
  \/ \E m \in Msgs, raw \in Jids : Arrive(m, raw)
  \/ Stop
  \/ MigrateLegacyLIDChatsToPhoneJIDs
  \/ MigrateLegacyLIDSendersToPhones

Bridge ==
  /\ Step
  /\ strangers' = strangers \union {p \in People : chats'[Lid(p)].known}

LidSpec == LidInit /\ [][Bridge]_lidVars

-----------------------------------------------------------------------------
(* Properties *)

LidTypeOK ==
  /\ lids \subseteq People /\ settled \subseteq lids /\ strangers \subseteq People
  /\ chats \in [Jids -> Chats]
  /\ LastRow \in Nat /\ DOMAIN rows \subseteq 1..LastRow
  /\ \A i \in DOMAIN rows : rows[i] \in Rows
  /\ \A i, k \in DOMAIN rows : i # k => <<rows[i].id, rows[i].chat>> # <<rows[k].id, rows[k].chat>>
  /\ stage \in {"up", "down", "chats moved"}

\* Every row has a chat whose newest message is no older, whatever was merged
\* into it: the readers JOIN on the chat and sort by that column, and would
\* otherwise hide the message or show a stale chat.
RowsHaveChats ==
  \A i \in DOMAIN rows : chats[rows[i].chat].known /\ chats[rows[i].chat].newest >= rows[i].time

\* A start leaves nobody who was in the map under two addresses, and nothing
\* that arrives later brings the LID back, neither as chat nor as sender: so no
\* message of theirs is stored twice.
OnePersonOneAddress ==
  stage = "up" =>
    \A p \in settled :
      /\ ~chats[Lid(p)].known
      /\ \A i \in DOMAIN rows : rows[i].chat # Lid(p) /\ rows[i].sender # Lid(p)

\* Through redeliveries, and starts that are cut between two migrations, a
\* stored message stays stored, under one address or the other; neither the
\* newest message nor the read marker of a person's conversation goes back, also
\* when two chats become one; and only a start that moves the row out of a LID
\* chat forgets that it was deleted for everyone.
Stored == {rows[i].id : i \in DOMAIN rows}
Deleted == {rows[i].id : i \in {k \in DOMAIN rows : rows[k].deleted}}
Reached(p) == [newest |-> Later(chats[Phone(p)].newest, chats[Lid(p)].newest),
               read |-> Later(chats[Phone(p)].read, chats[Lid(p)].read)]
NothingIsLost ==
  [][/\ Stored \subseteq Stored'
     /\ \A p \in People : /\ Reached(p).newest <= Reached(p)'.newest
                          /\ Reached(p).read <= Reached(p)'.read
     /\ \A m \in Deleted \ Deleted' :
          stage = "down" /\ \E i \in Copies(m) : rows[i].chat \in {Lid(p) : p \in Legacy}]_lidVars

\* Not kept by the code: Moved forgets deleted_at.
DeletedStaysDeleted == [][Deleted \subseteq Deleted']_lidVars
=============================================================================
