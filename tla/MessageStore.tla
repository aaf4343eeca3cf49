---------------------------- MODULE MessageStore ----------------------------
(***************************************************************************)
(* One chat of the bridge's archive (whatsapp-bridge/main.go): the         *)
(* messages, the chat row with its newest message, read marker and         *)
(* disappearing-message timer, and the handlers that write them from what  *)
(* WhatsApp delivers: live stanzas, first copies that cannot be decrypted  *)
(* and are sent again, read receipts of the owner's other devices, and     *)
(* history-sync snapshots.                                                 *)
(*                                                                         *)
(* Live stanzas are handled one after another; a history sync is handled   *)
(* beside them.  Every SQL statement is a step of its own.  Stanzas arrive *)
(* in any order.  WhatsApp's side is the log: what happened in the chat,   *)
(* one entry per tick, so that an entry's position is its send time.       *)
(*                                                                         *)
(* Left out: contents, names, reactions, groups, sending, the webhook.     *)
(***************************************************************************)
EXTENDS Naturals, Sequences, FiniteSets

CONSTANTS
  Msgs,         \* message ids of the chat
  MaxTime,      \* bound: length of the log
  MaxSyncs,     \* bound: history syncs
  MaxCrashes,   \* bound: restarts of the bridge
  Stamped       \* a timer change carries its EphemeralSettingTimestamp

ASSUME StoreAssumption ==
  MaxTime \in Nat /\ MaxSyncs \in Nat /\ MaxCrashes \in Nat /\ Stamped \in BOOLEAN

VARIABLES
  log,          \* what happened in the chat: WhatsApp's side
  net,          \* stanzas on their way to the bridge
  lost,         \* entries the bridge has asked to be sent again
  row,          \* messages: timestamp, the time its file is named after, deleted_at; 0 is NULL
  chat,         \* chats: last_message_time, last_read_time, the timer and its stamp
  origMsgTime,  \* the in-memory map of original send times, 0 is absent
  live,         \* the live stanza being handled
  sync,         \* the history sync being handled
  syncs, crashes

stored == <<row, chat>>
vars == <<log, net, lost, stored, origMsgTime, live, sync, syncs, crashes>>

Times == 1..MaxTime
Now == Len(log)
Later(s, t) == IF s < t THEN t ELSE s

Kinds == {"text", "revoke", "timer", "read", "resend"}
\* of: the entry a stanza delivers; at: its stanza time.
Stanzas == [type : {"first", "copy", "receipt"}, of : Times, at : Times]
\* A snapshot holds the chat as it was when the log had that length.
Snapshots == [type : {"snapshot"}, upto : Times]

Idle == [pc |-> "idle", of |-> 0, at |-> 0, time |-> 0]
NoSync == [pc |-> "idle", upto |-> 0, todo |-> {}]

Init ==
  /\ log = <<>> /\ net = {} /\ lost = {}
  /\ row = [m \in Msgs |-> [time |-> 0, file |-> 0, deleted |-> 0]]
  /\ chat = [newest |-> 0, read |-> 0, timer |-> 0, stamp |-> 0]
  /\ origMsgTime = [i \in Times |-> 0]
  /\ live = Idle /\ sync = NoSync
  /\ syncs = 0 /\ crashes = 0 

-----------------------------------------------------------------------------
(* WhatsApp's side *)

Entry(kind, i) == log[i].kind = kind
Texts(upto) == {i \in 1..upto : Entry("text", i)}
SentAt(m) == {i \in Texts(Now) : log[i].msg = m}
Reads(upto) == {i \in 1..upto : Entry("read", i)}
\* The timer a device knew when the log had that length; 0 is never set.
Timer(upto) ==
  LET set == {i \in 1..upto : Entry("timer", i)}
  IN IF set = {} THEN 0 ELSE CHOOSE i \in set : \A j \in set : j <= i
Seen(i, upto) == \E r \in Reads(upto) : i <= log[r].upto
Newest(upto) ==
  IF Texts(upto) = {} THEN 0
  ELSE CHOOSE i \in Texts(upto) : \A j \in Texts(upto) : j <= i

\* An entry of the log reaches the bridge as a stanza it can or cannot decrypt.
Happens(e) ==
  /\ Now < MaxTime
  /\ log' = Append(log, e)
  /\ \E type \in {"copy", "first"} :
       net' = net \union {[type |-> type, of |-> Now', at |-> Now']}
  /\ UNCHANGED <<lost, stored, origMsgTime, live, sync, syncs, crashes>>

SomeoneWrites(m) == SentAt(m) = {} /\ Happens([kind |-> "text", msg |-> m])

SomeoneRevokes(m) == SentAt(m) # {} /\ Happens([kind |-> "revoke", msg |-> m])

SomeoneSetsTimer == Happens([kind |-> "timer"])

\* The owner reads on another device what that device shows: the texts up to
\* the i-th entry.
OwnerReads(i) ==
  /\ Now < MaxTime /\ i \in Texts(Now) /\ ~Seen(i, Now)
  /\ log' = Append(log, [kind |-> "read", upto |-> i])
  /\ net' = net \union {[type |-> "receipt", of |-> Now', at |-> Now']}
  /\ UNCHANGED <<lost, stored, origMsgTime, live, sync, syncs, crashes>>

\* The retry receipt is answered: the same entry, with a later stanza time.
\* The second copy may fail as the first one did.
Resend(i) ==
  /\ i \in lost /\ Now < MaxTime
  /\ log' = Append(log, [kind |-> "resend"])
  /\ lost' = lost \ {i}
  /\ \E type \in {"copy", "first"} : net' = net \union {[type |-> type, of |-> i, at |-> Now']}
  /\ UNCHANGED <<stored, origMsgTime, live, sync, syncs, crashes>>

PhoneSyncs ==
  /\ syncs < MaxSyncs /\ Texts(Now) # {}
  /\ syncs' = syncs + 1
  /\ net' = net \union {[type |-> "snapshot", upto |-> Now]}
  /\ UNCHANGED <<log, lost, stored, origMsgTime, live, sync, crashes>>

-----------------------------------------------------------------------------
(* The statements of the store *)

\* Mutant: INSERT OR IGNORE.
StoreFirstChat(t) == chat' = [chat EXCEPT !.newest = IF @ = 0 THEN t ELSE @]

StoreChat(t) == chat' = [chat EXCEPT !.newest = Later(@, t)]

MarkChatRead(t) == chat' = [chat EXCEPT !.read = Later(@, t)]

\* Mutant: whatever arrives last is the setting.
UpdateUngated(timer, stamp) ==
  chat' = IF stamp # 0 THEN [chat EXCEPT !.timer = timer, !.stamp = stamp] ELSE chat

\* A change without a stamp is no information; an older one is refused.
UpdateChatEphemeralSettings(timer, stamp) ==
  chat' = IF stamp # 0 /\ stamp >= chat.stamp
          THEN [chat EXCEPT !.timer = timer, !.stamp = stamp] ELSE chat

\* Mutant: INSERT OR REPLACE starts the row afresh.
ReplaceMessage(m, t, file) == row' = [row EXCEPT ![m] = [time |-> t, file |-> file, deleted |-> 0]]

\* The upsert keeps deleted_at.
StoreMessage(m, t, file) == row' = [row EXCEPT ![m].time = t, ![m].file = file]

\* First revoke wins; a message that is not there is left alone.
MarkMessageDeleted(m, t) ==
  row' = [row EXCEPT ![m].deleted = IF row[m].time # 0 /\ @ = 0 THEN t ELSE @]

-----------------------------------------------------------------------------
(* Live stanzas *)

\* UndecryptableMessage: rememberOriginalTimestamp keeps the earliest.
Undecryptable(e) ==
  /\ live.pc = "idle" /\ e \in net /\ e.type = "first"
  /\ net' = net \ {e}
  /\ origMsgTime' = [origMsgTime EXCEPT ![e.of] = IF @ = 0 \/ e.at < @ THEN e.at ELSE @]
  /\ lost' = lost \union {e.of}
  /\ UNCHANGED <<log, stored, live, sync, syncs, crashes>>

\* handleMessage: takeOriginalTimestamp, then the statements in their order.
Receive(e) ==
  /\ live.pc = "idle" /\ e \in net /\ e.type = "copy"
  /\ net' = net \ {e}
  /\ LET orig == origMsgTime[e.of]
     IN live' = [pc |-> "chat", of |-> e.of, at |-> e.at,
                 time |-> IF orig # 0 /\ orig < e.at THEN orig ELSE e.at]
  /\ origMsgTime' = [origMsgTime EXCEPT ![e.of] = 0]
  /\ UNCHANGED <<log, lost, stored, sync, syncs, crashes>>

Finish == live' = Idle

ReceiveChat ==
  /\ live.pc = "chat"
  /\ StoreChat(live.time)
  /\ live' = [live EXCEPT !.pc = log[live.of].kind]
  /\ UNCHANGED <<log, net, lost, row, origMsgTime, sync, syncs, crashes>>

\* EPHEMERAL_SETTING: without a stamp of its own it gets the stanza time.
ReceiveTimer ==
  /\ live.pc = "timer"
  /\ UpdateChatEphemeralSettings(live.of, IF Stamped THEN live.of ELSE live.at)
  /\ Finish
  /\ UNCHANGED <<log, net, lost, row, origMsgTime, sync, syncs, crashes>>

\* REVOKE: handleMessageRevoke.
ReceiveRevoke ==
  /\ live.pc = "revoke"
  /\ MarkMessageDeleted(log[live.of].msg, live.at)
  /\ Finish
  /\ UNCHANGED <<log, net, lost, chat, origMsgTime, sync, syncs, crashes>>

\* A message carries the timer its sender knew.
ReceiveContext ==
  /\ live.pc = "text"
  /\ UpdateChatEphemeralSettings(Timer(live.of), Timer(live.of))
  /\ live' = [live EXCEPT !.pc = "store"]
  /\ UNCHANGED <<log, net, lost, row, origMsgTime, sync, syncs, crashes>>

ReceiveText ==
  /\ live.pc = "store"
  /\ StoreMessage(log[live.of].msg, live.time, live.time)
  /\ Finish
  /\ UNCHANGED <<log, net, lost, chat, origMsgTime, sync, syncs, crashes>>

\* A self-read receipt acknowledges what was unread.  The time of its newest
\* message is looked up, then the marker is moved; without any of them stored
\* it moves to the time of the receipt.
Acknowledged(r) == {i \in Texts(log[r].upto) : ~Seen(i, r - 1)}

ReceiveReceipt(e) ==
  /\ live.pc = "idle" /\ e \in net /\ e.type = "receipt"
  /\ net' = net \ {e}
  /\ LET times == {row[log[i].msg].time : i \in Acknowledged(e.of)} \ {0}
     IN live' = [pc |-> "mark", of |-> e.of, at |-> e.at,
                 time |-> IF times = {} THEN e.at
                          ELSE CHOOSE t \in times : \A u \in times : u <= t]
  /\ UNCHANGED <<log, lost, stored, origMsgTime, sync, syncs, crashes>>

MarkRead ==
  /\ live.pc = "mark"
  /\ MarkChatRead(live.time)
  /\ Finish
  /\ UNCHANGED <<log, net, lost, row, origMsgTime, sync, syncs, crashes>>

-----------------------------------------------------------------------------
(* History sync: handleHistorySync *)

SyncChat(e) ==
  /\ sync.pc = "idle" /\ e \in net /\ e.type = "snapshot"
  /\ net' = net \ {e}
  /\ StoreChat(Newest(e.upto))
  /\ sync' = [pc |-> "read", upto |-> e.upto, todo |-> Texts(e.upto)]
  /\ UNCHANGED <<log, lost, row, origMsgTime, live, syncs, crashes>>

\* Mutant: an absent unread count is zero.
SyncReadSparse ==
  /\ sync.pc = "read"
  /\ MarkChatRead(Newest(sync.upto))
  /\ sync' = [sync EXCEPT !.pc = "timer"]
  /\ UNCHANGED <<log, net, lost, row, origMsgTime, live, syncs, crashes>>

\* Only an unread count that is there and zero marks the chat as read.
SyncRead ==
  /\ sync.pc = "read"
  /\ \E counted \in BOOLEAN :
       IF counted /\ \A i \in Texts(sync.upto) : Seen(i, sync.upto)
       THEN MarkChatRead(Newest(sync.upto)) ELSE UNCHANGED chat
  /\ sync' = [sync EXCEPT !.pc = "timer"]
  /\ UNCHANGED <<log, net, lost, row, origMsgTime, live, syncs, crashes>>

SyncTimer ==
  /\ sync.pc = "timer"
  /\ UpdateChatEphemeralSettings(Timer(sync.upto), Timer(sync.upto))
  /\ sync' = [sync EXCEPT !.pc = "store"]
  /\ UNCHANGED <<log, net, lost, row, origMsgTime, live, syncs, crashes>>

\* The newest message comes first; every file is named after its time.
SyncMessage ==
  /\ sync.pc = "store"
  /\ \E i \in sync.todo :
       /\ \A j \in sync.todo : j <= i
       /\ StoreMessage(log[i].msg, i, Newest(sync.upto))
       /\ sync' = IF sync.todo = {i} THEN NoSync ELSE [sync EXCEPT !.todo = @ \ {i}]
  /\ UNCHANGED <<log, net, lost, chat, origMsgTime, live, syncs, crashes>>

-----------------------------------------------------------------------------
\* The bridge is restarted: the map and what was being handled are gone; a
\* stanza that was not acknowledged may be delivered again.
Unacknowledged ==
  IF live.pc = "idle" THEN {}
  ELSE {[type |-> IF live.pc = "mark" THEN "receipt" ELSE "copy", of |-> live.of, at |-> live.at]}

Restart ==
  /\ crashes < MaxCrashes
  /\ crashes' = crashes + 1
  /\ net' \in {net, net \union Unacknowledged}
  /\ origMsgTime' = [i \in Times |-> 0]
  /\ live' = Idle /\ sync' = NoSync
  /\ UNCHANGED <<log, lost, stored, syncs>>

World ==
  \/ \E m \in Msgs : SomeoneWrites(m) \/ SomeoneRevokes(m)
  \/ SomeoneSetsTimer \/ PhoneSyncs
  \/ \E i \in Times : OwnerReads(i) \/ Resend(i)

Handle ==
  \/ \E e \in net : Undecryptable(e) \/ Receive(e) \/ ReceiveReceipt(e)
  \/ ReceiveChat \/ ReceiveTimer \/ ReceiveRevoke \/ ReceiveContext \/ ReceiveText
  \/ MarkRead

Sync == (\E e \in net : SyncChat(e)) \/ SyncRead \/ SyncTimer \/ SyncMessage

Next == World \/ Handle \/ Sync \/ Restart

Spec == Init /\ [][Next]_vars

-----------------------------------------------------------------------------
\* Every variable has its type, and what is being handled is in the log.
TypeOK ==
  /\ log \in Seq([kind : {"text", "revoke"}, msg : Msgs] \union [kind : {"timer", "resend"}]
                 \union [kind : {"read"}, upto : Times])
  /\ net \subseteq Stanzas \union Snapshots /\ \A e \in net : e.type = "snapshot" \/ e.at <= Now
  /\ lost \subseteq 1..Now
  /\ row \in [Msgs -> [time : 0..MaxTime, file : 0..MaxTime, deleted : 0..MaxTime]]
  /\ chat \in [newest : 0..MaxTime, read : 0..MaxTime, timer : 0..MaxTime, stamp : 0..MaxTime]
  /\ origMsgTime \in [Times -> 0..MaxTime]
  /\ live \in [pc : {"idle", "chat", "mark", "store"} \union Kinds,
              of : 0..Now, at : 0..Now, time : 0..Now]
  /\ sync \in [pc : {"idle", "read", "timer", "store"}, upto : 0..Now, todo : SUBSET Times]
  /\ sync.pc # "idle" <=> sync.todo # {}
  /\ syncs \in 0..MaxSyncs /\ crashes \in 0..MaxCrashes

\* The chat is never older than a message stored in it, whatever the live
\* handler and the history sync have interleaved and wherever the bridge
\* stopped: list_chats orders by it.
NewestCovers == \A m \in Msgs : row[m].time <= chat.newest

\* While the bridge runs, the read marker stands at a message the owner has
\* read or at the time of one of the owner's receipts.
MarkerIsRead ==
  crashes = 0 /\ chat.read # 0 =>
    \/ chat.read \in Reads(Now)
    \/ chat.read \in Texts(Now) /\ Seen(chat.read, Now)

Quiet == net = {} /\ lost = {} /\ live = Idle /\ sync = NoSync

\* When everything that was sent has been handled, in any order, the archive
\* is what the phone shows: every message with its time, and the timer.
ArchiveConverges ==
  Quiet /\ crashes = 0 =>
    /\ \A i \in Texts(Now) : row[log[i].msg].time = i
    /\ Stamped => chat.timer = Timer(Now)

\* Deliveries out of order, syncs and restarts never move the newest message,
\* the read marker or (with its stamp) the timer backwards; the first revoke
\* wins, and no later copy or sync of the message undoes it.
NothingGoesBack ==
  [][/\ chat'.newest >= chat.newest
     /\ chat'.read >= chat.read
     /\ Stamped => chat'.timer >= chat.timer
     /\ \A m \in Msgs : row[m].deleted # 0 => row'[m].deleted = row[m].deleted]_vars

\* whatsapp.py, Chat.unread: the newest message is joined by its time.
Unread ==
  /\ \E m \in Msgs : row[m].time # 0 /\ row[m].time = chat.newest
  /\ chat.newest > chat.read

\* Claimed by the receipt handler's comment: out-of-order delivery cannot
\* advance the marker past an unread message.
NoUnreadIsPassed ==
  crashes = 0 => \A i \in Texts(Now) : row[log[i].msg].time = 0 \/ Seen(i, Now) \/ chat.read < i

\* Claimed by the README: a chat read on the phone is not reported.
ReadIsNotReported ==
  Quiet /\ crashes = 0 /\ (\A i \in Texts(Now) : Seen(i, Now)) => ~Unread

\* Claimed by the README: a chat whose newest message is newer than the marker
\* is reported.
UnreadIsReported ==
  Quiet /\ crashes = 0 /\ (\E m \in Msgs : row[m].time > chat.read) => Unread

\* Claimed by updateChatEphemeralSettingsFromProtocolMessage: a late older
\* event is not stamped newer than subsequent updates.
LateTimerIsOlder == Quiet /\ crashes = 0 => chat.timer = Timer(Now)

\* Claimed by downloadMedia: the name it rebuilds from the stored time is the
\* name that was stored.
FilesAreFound == \A m \in Msgs : row[m].file = row[m].time
=============================================================================
