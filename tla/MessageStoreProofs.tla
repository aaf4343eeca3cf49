------------------------- MODULE MessageStoreProofs -------------------------
(***************************************************************************)
(* Safety of the archive for any number of messages, entries of the log,   *)
(* syncs and restarts.                                                     *)
(*                                                                         *)
(* StoreInv holds always: what is on its way or being handled is an entry  *)
(* of the log of the right kind, and between the statement that moves the  *)
(* chat and the one that writes the message the chat is already as new as  *)
(* the message.  RunInv holds until the bridge is restarted (FirstRun): an *)
(* entry is on its way once (OneToken), the map knows the send time of     *)
(* what comes late (SentTimes), so that rows and the stanza in hand carry  *)
(* it (RightTimes), what is not stored is still coming (TextsCome,         *)
(* TimersCome), and the marker stands where the owner has read             *)
(* (MarkerInv).                                                            *)
(***************************************************************************)
EXTENDS MessageStore, WellFoundedInduction, TLAPS

Entries == [kind : {"text", "revoke"}, msg : Msgs] \union [kind : {"timer", "resend"}]
             \union [kind : {"read"}, upto : Times]
Rows == [time : 0..MaxTime, file : 0..MaxTime, deleted : 0..MaxTime]
Chats == [newest : 0..MaxTime, read : 0..MaxTime, timer : 0..MaxTime, stamp : 0..MaxTime]
Handling == [pc : {"idle", "chat", "mark", "store", "text", "revoke", "timer"},
             of : Nat, at : Nat, time : Nat]
Syncing == [pc : {"idle", "read", "timer", "store"}, upto : Nat, todo : SUBSET Nat]

Carried(i) == log[i].kind \in {"text", "revoke", "timer"}

LogInv ==
  /\ log \in Seq(Entries) /\ Now <= MaxTime
  /\ \A i, j \in Texts(Now) : log[i].msg = log[j].msg => i = j
  /\ \A r \in Reads(Now) : log[r].upto \in 1..(r - 1)

\* What is on its way is something that happened.
Deliverable(e) ==
  IF e.type = "snapshot" THEN e \in Snapshots /\ e.upto \in 1..Now /\ Texts(e.upto) # {}
  ELSE /\ e \in Stanzas /\ e.of \in 1..Now /\ e.at \in e.of..Now
       /\ IF e.type = "receipt" THEN e.at = e.of /\ Entry("read", e.of) ELSE Carried(e.of)
NetInv ==
  /\ \A e \in net : Deliverable(e)
  /\ \A i \in lost : i \in 1..Now /\ Carried(i)

TimerInv == Stamped => chat.timer = chat.stamp
RowInv ==
  /\ row \in [Msgs -> Rows] /\ chat \in Chats /\ origMsgTime \in [Times -> 0..MaxTime]
  /\ syncs \in 0..MaxSyncs /\ crashes \in 0..MaxCrashes
  /\ NewestCovers /\ TimerInv /\ \A m \in Msgs : row[m].time <= Now

LiveInv ==
  /\ live \in Handling
  /\ IF live.pc = "idle" THEN live = Idle
     ELSE /\ live.of \in 1..Now /\ live.at \in live.of..Now /\ live.time \in 1..Now
          /\ IF live.pc = "mark" THEN live.at = live.of /\ Entry("read", live.of) ELSE Carried(live.of)
          /\ live.pc \in {"chat", "mark", "store"} \/ Entry(live.pc, live.of)
          /\ live.pc = "store" => Entry("text", live.of)
          /\ live.pc \in {"chat", "mark"} \/ live.time <= chat.newest

SyncInv ==
  /\ sync \in Syncing
  /\ IF sync.pc = "idle" THEN sync = NoSync
     ELSE /\ sync.upto \in 1..Now /\ sync.todo # {} /\ sync.todo \subseteq Texts(sync.upto)
          /\ Newest(sync.upto) <= chat.newest

StoreInv == LogInv /\ NetInv /\ RowInv /\ LiveInv /\ SyncInv

-----------------------------------------------------------------------------
(* The log *)

\* A set of entries has a last one.
LEMMA HasLast ==
  ASSUME NEW n \in Nat, NEW S \in SUBSET (1..n), S # {}
  PROVE  \E i \in S : \A j \in S : j <= i
<1> DEFINE T == {k \in Nat : \A j \in S : j <= k}
<1>1. n \in T  OBVIOUS
<1>2. PICK x \in T : \A y \in T : ~(<<y, x>> \in OpToRel(<, Nat))
  BY <1>1, NatLessThanWellFounded, WFMin, Zenon
<1>3. \A y \in T : ~(y < x)  BY <1>2, Zenon DEF OpToRel
<1>4. x \in S
  <2> SUFFICES ASSUME x \notin S PROVE FALSE
    OBVIOUS
  <2>1. PICK j \in S : TRUE  OBVIOUS
  <2>2. j < x /\ x \in Nat  OBVIOUS
  <2>3. x - 1 \in T  BY <2>2
  <2>4. QED  BY <1>3, <2>2, <2>3
<1>5. QED  BY <1>4

LEMMA EntryForms ==
  ASSUME LogInv, NEW i \in 1..Now
  PROVE  /\ log[i] \in Entries /\ log[i].kind \in Kinds
         /\ log[i].kind \in {"text", "revoke"} => log[i].msg \in Msgs
<1>1. log[i] \in Entries  BY DEF LogInv, Now
<1>2. CASE log[i] \in [kind : {"text", "revoke"}, msg : Msgs]  BY <1>1, <1>2 DEF Kinds
<1>3. CASE log[i] \in [kind : {"timer", "resend"}]  BY <1>1, <1>3 DEF Kinds
<1>4. CASE log[i] \in [kind : {"read"}, upto : Times]  BY <1>1, <1>4 DEF Kinds
<1>5. QED  BY <1>1, <1>2, <1>3, <1>4 DEF Entries

LEMMA TimerIsLast ==
  ASSUME LogInv, NEW u \in 0..Now
  PROVE  /\ Timer(u) \in 0..u
         /\ Timer(u) # 0 => Entry("timer", Timer(u))
         /\ \A i \in 1..u : Entry("timer", i) => i <= Timer(u)
<1> DEFINE set == {i \in 1..u : Entry("timer", i)}
<1>1. u \in Nat  BY DEF LogInv, Now
<1>2. CASE set = {}  BY <1>1, <1>2 DEF Timer
<1>3. CASE set # {}
  <2>1. \E i \in set : \A j \in set : j <= i  BY <1>1, <1>3, HasLast
  <2>2. Timer(u) = CHOOSE i \in set : \A j \in set : j <= i  BY <1>3 DEF Timer
  <2>3. Timer(u) \in set /\ \A j \in set : j <= Timer(u)  BY <2>1, <2>2
  <2>4. QED  BY <1>1, <2>3
<1>4. QED  BY <1>2, <1>3

LEMMA NewestIsLast ==
  ASSUME LogInv, NEW u \in 0..Now, Texts(u) # {}
  PROVE  Newest(u) \in Texts(u) /\ \A i \in Texts(u) : i <= Newest(u)
<1>1. u \in Nat /\ Texts(u) \in SUBSET (1..u)  BY DEF LogInv, Now, Texts
<1>2. \E i \in Texts(u) : \A j \in Texts(u) : j <= i  BY <1>1, HasLast
<1>3. Newest(u) = CHOOSE i \in Texts(u) : \A j \in Texts(u) : j <= i  BY DEF Newest
<1>4. QED  BY <1>2, <1>3

\* What happened stays what it was.
LogExtends == Now' \in Nat /\ Now <= Now' /\ \A i \in 1..Now : log'[i] = log[i]

LEMMA AppendExtends ==
  ASSUME LogInv, NEW e \in Entries, log' = Append(log, e)
  PROVE  LogExtends /\ log' \in Seq(Entries) /\ Now' = Now + 1 /\ log'[Now + 1] = e
BY DEF LogInv, LogExtends, Now

LEMMA SameExtends == LogInv /\ log' = log => LogExtends
BY DEF LogInv, LogExtends, Now

LEMMA ExtendsKeeps ==
  ASSUME LogInv, LogExtends
  PROVE  /\ \A i \in 1..Now : /\ \A k \in Kinds : Entry(k, i)' <=> Entry(k, i)
                              /\ Carried(i)' <=> Carried(i)
         /\ \A u \in 0..Now : Texts(u)' = Texts(u) /\ Newest(u)' = Newest(u)
         /\ Texts(Now) \subseteq Texts(Now)' /\ Reads(Now) \subseteq Reads(Now)'
         /\ \A i \in 1..Now : Seen(i, Now) => Seen(i, Now)'
<1>1. Now \in Nat  BY DEF LogInv, Now
<1>2. \A i \in 1..Now : log'[i] = log[i] /\ i \in 1..Now'  BY <1>1 DEF LogExtends
<1>3. \A i \in 1..Now : /\ \A k \in Kinds : Entry(k, i)' <=> Entry(k, i)
                        /\ Carried(i)' <=> Carried(i)
  BY <1>2 DEF Entry, Carried
<1>4. ASSUME NEW u \in 0..Now PROVE Texts(u)' = Texts(u)
  <2>1. \A i \in 1..u : i \in 1..Now  BY <1>1
  <2>2. QED  BY <1>2, <2>1 DEF Texts, Entry
<1>5. ASSUME NEW u \in 0..Now PROVE Newest(u)' = Newest(u)
  <2>1. Texts(u)' = Texts(u)  BY <1>4
  <2> DEFINE Last(S) == IF S = {} THEN 0 ELSE CHOOSE i \in S : \A j \in S : j <= i
  <2>2. Newest(u)' = Last(Texts(u)') /\ Newest(u) = Last(Texts(u))  BY DEF Newest
  <2> HIDE DEF Last
  <2>3. QED  BY <2>1, <2>2
<1>6. Texts(Now) \subseteq Texts(Now)' /\ Reads(Now) \subseteq Reads(Now)'  BY <1>2 DEF Texts, Reads, Entry
<1>7. \A i \in 1..Now : Seen(i, Now) => Seen(i, Now)'
  <2>1. \A r \in Reads(Now) : r \in 1..Now /\ log'[r] = log[r]  BY <1>2 DEF Reads
  <2>2. QED  BY <1>6, <2>1 DEF Seen
<1>8. QED  BY <1>3, <1>4, <1>5, <1>6, <1>7

-----------------------------------------------------------------------------
(* The statements *)

LEMMA StoreChatDoes ==
  ASSUME chat \in Chats, NEW t \in 0..MaxTime, StoreChat(t)
  PROVE  /\ chat' \in Chats /\ chat'.newest >= chat.newest /\ chat'.newest >= t
         /\ chat'.newest \in {chat.newest, t}
         /\ chat'.read = chat.read /\ chat'.timer = chat.timer /\ chat'.stamp = chat.stamp
<1>1. MaxTime \in Nat  BY StoreAssumption
<1>2. QED  BY <1>1 DEF StoreChat, Later, Chats

LEMMA MarkChatReadDoes ==
  ASSUME chat \in Chats, NEW t \in 0..MaxTime, MarkChatRead(t)
  PROVE  /\ chat' \in Chats /\ chat'.read >= chat.read /\ chat'.read \in {chat.read, t}
         /\ chat'.newest = chat.newest /\ chat'.timer = chat.timer /\ chat'.stamp = chat.stamp
<1>1. MaxTime \in Nat  BY StoreAssumption
<1>2. QED  BY <1>1 DEF MarkChatRead, Later, Chats

LEMMA UpdateDoes ==
  ASSUME chat \in Chats, NEW t \in 0..MaxTime, NEW s \in 0..MaxTime, UpdateChatEphemeralSettings(t, s)
  PROVE  /\ chat' \in Chats /\ chat'.newest = chat.newest /\ chat'.read = chat.read
         /\ IF s # 0 /\ s >= chat.stamp THEN chat'.timer = t /\ chat'.stamp = s
            ELSE chat'.timer = chat.timer /\ chat'.stamp = chat.stamp
<1>1. MaxTime \in Nat  BY StoreAssumption
<1>2. CASE s # 0 /\ s >= chat.stamp
  <2> DEFINE a == [chat EXCEPT !.timer = t]
             b == [a EXCEPT !.stamp = s]
  <2>1. chat' = b  BY <1>2 DEF UpdateChatEphemeralSettings, Chats
  <2>2. a \in Chats /\ a.newest = chat.newest /\ a.read = chat.read /\ a.timer = t  BY DEF Chats
  <2> HIDE DEF a
  <2>3. b \in Chats /\ b.newest = a.newest /\ b.read = a.read /\ b.timer = a.timer /\ b.stamp = s
    BY <2>2 DEF Chats
  <2> HIDE DEF b
  <2>4. QED  BY <1>2, <2>1, <2>2, <2>3
<1>3. CASE ~(s # 0 /\ s >= chat.stamp)
  <2>1. chat' = chat  BY <1>3 DEF UpdateChatEphemeralSettings
  <2>2. QED  BY <1>3, <2>1
<1>4. QED  BY <1>2, <1>3

\* The upsert changes the times of one row and nothing else.
LEMMA StoreMessageDoes ==
  ASSUME row \in [Msgs -> Rows], NEW m \in Msgs, NEW t \in 0..MaxTime, NEW f \in 0..MaxTime, StoreMessage(m, t, f)
  PROVE  /\ row' \in [Msgs -> Rows] /\ row'[m].time = t /\ row'[m].deleted = row[m].deleted
         /\ \A n \in Msgs \ {m} : row'[n] = row[n]
<1> DEFINE a == [row[m] EXCEPT !.time = t]
           b == [a EXCEPT !.file = f]
<1>1. a \in Rows /\ a.time = t /\ a.deleted = row[m].deleted  BY DEF Rows
<1>2. row' = [row EXCEPT ![m] = b]  BY DEF StoreMessage
<1> HIDE DEF a
<1>3. b \in Rows /\ b.time = t /\ b.deleted = a.deleted  BY <1>1 DEF Rows
<1> HIDE DEF b
<1>4. QED  BY <1>1, <1>2, <1>3

LEMMA MarkDeletedDoes ==
  ASSUME row \in [Msgs -> Rows], NEW m \in Msgs, NEW t \in 0..MaxTime, MarkMessageDeleted(m, t)
  PROVE  /\ row' \in [Msgs -> Rows] /\ row'[m].time = row[m].time
         /\ row[m].deleted # 0 => row'[m].deleted = row[m].deleted
         /\ \A n \in Msgs \ {m} : row'[n] = row[n]
<1> DEFINE d == IF row[m].time # 0 /\ row[m].deleted = 0 THEN t ELSE row[m].deleted
           a == [row[m] EXCEPT !.deleted = d]
<1>1. d \in 0..MaxTime /\ (row[m].deleted # 0 => d = row[m].deleted)  BY DEF Rows
<1>2. row' = [row EXCEPT ![m] = a]  BY DEF MarkMessageDeleted
<1> HIDE DEF d
<1>3. a \in Rows /\ a.time = row[m].time /\ a.deleted = d  BY <1>1 DEF Rows
<1> HIDE DEF a
<1>4. QED  BY <1>1, <1>2, <1>3

-----------------------------------------------------------------------------
(* What a longer log leaves as it is *)

LEMMA DeliverableKept ==
  ASSUME LogInv, LogExtends, NEW e, Deliverable(e)
  PROVE  Deliverable(e)'
<1>1. \A i \in 1..Now : i \in 1..Now'  BY DEF LogExtends, LogInv, Now
<1>2. CASE e.type = "snapshot"
  <2>1. e \in Snapshots /\ e.upto \in 1..Now /\ Texts(e.upto) # {}  BY <1>2 DEF Deliverable
  <2>2. e.upto \in 0..Now  BY <2>1 DEF LogInv, Now
  <2>3. Texts(e.upto)' = Texts(e.upto)  BY <2>2, ExtendsKeeps
  <2>4. QED  BY <1>1, <1>2, <2>1, <2>3 DEF Deliverable
<1>3. CASE e.type # "snapshot"
  <2>1. e \in Stanzas /\ e.of \in 1..Now /\ e.at \in e.of..Now  BY <1>3 DEF Deliverable
  <2>2. e.of \in 1..Now' /\ e.at \in e.of..Now'  BY <1>1, <2>1 DEF LogExtends, LogInv, Now
  <2>3. (Entry("read", e.of)' <=> Entry("read", e.of)) /\ (Carried(e.of)' <=> Carried(e.of))
    BY <2>1, ExtendsKeeps DEF Kinds
  <2>4. QED  BY <1>3, <2>1, <2>2, <2>3 DEF Deliverable
<1>4. QED  BY <1>2, <1>3

LEMMA NetKept ==
  ASSUME LogInv, NetInv, LogExtends,
         \A e \in net' : e \in net \/ Deliverable(e)',
         \A i \in lost' : i \in lost \/ (i \in 1..Now' /\ Carried(i)')
  PROVE  NetInv'
<1>1. \A e \in net' : Deliverable(e)'  BY DeliverableKept DEF NetInv
<1>2. \A i \in 1..Now : i \in 1..Now'  BY DEF LogExtends, LogInv, Now
<1>3. \A i \in lost : i \in 1..Now' /\ Carried(i)'  BY <1>2, ExtendsKeeps DEF NetInv
<1>4. QED  BY <1>1, <1>3 DEF NetInv

LEMMA LiveKept ==
  ASSUME LogInv, LiveInv, LogExtends, live' = live, chat \in Chats, chat' \in Chats, chat'.newest >= chat.newest
  PROVE  LiveInv'
<1>1. CASE live.pc = "idle"  BY <1>1 DEF LiveInv
<1>2. CASE live.pc # "idle"
  <2>1. live.of \in 1..Now /\ live.at \in live.of..Now /\ live.time \in 1..Now  BY <1>2 DEF LiveInv
  <2>2. live.of \in 1..Now' /\ live.at \in live.of..Now' /\ live.time \in 1..Now'
    BY <2>1 DEF LogExtends, LogInv, Now
  <2>3. /\ \A k \in Kinds : Entry(k, live.of)' <=> Entry(k, live.of)
        /\ Carried(live.of)' <=> Carried(live.of)
    BY <2>1, ExtendsKeeps
  <2>4. live.pc \in {"chat", "mark"} \/ live.time <= chat'.newest
    <3>1. live.pc \in {"chat", "mark"} \/ live.time <= chat.newest  BY <1>2 DEF LiveInv
    <3>2. live.time \in Nat /\ chat.newest \in Nat /\ chat'.newest \in Nat  BY <2>1, StoreAssumption DEF Chats
    <3>3. QED  BY <3>1, <3>2
  <2>5. IF live.pc = "mark" THEN live.at = live.of /\ Entry("read", live.of)' ELSE Carried(live.of)'
    BY <1>2, <2>3 DEF LiveInv, Kinds
  <2>6. /\ live.pc \in {"chat", "mark", "store"} \/ Entry(live.pc, live.of)'
        /\ live.pc = "store" => Entry("text", live.of)'
    <3>1. live.pc \in {"chat", "mark", "store"} \/ live.pc \in Kinds  BY <1>2 DEF LiveInv, Handling, Kinds
    <3>2. QED  BY <1>2, <2>3, <3>1 DEF LiveInv, Kinds
  <2>7. live \in Handling /\ UNCHANGED live  BY DEF LiveInv
  <2>8. (Entry(live.pc, live.of))' <=> Entry(live.pc, live.of)'  BY <2>7
  <2>9. QED  BY <1>2, <2>2, <2>4, <2>5, <2>6, <2>7 DEF LiveInv, Entry, Carried
<1>3. QED  BY <1>1, <1>2

LEMMA SyncKept ==
  ASSUME LogInv, SyncInv, LogExtends, sync' = sync, chat \in Chats, chat' \in Chats, chat'.newest >= chat.newest
  PROVE  SyncInv'
<1>1. CASE sync.pc = "idle"  BY <1>1 DEF SyncInv
<1>2. CASE sync.pc # "idle"
  <2>1. sync \in Syncing /\ sync.upto \in 1..Now /\ sync.todo # {} /\ sync.todo \subseteq Texts(sync.upto)
        /\ Newest(sync.upto) <= chat.newest
    BY <1>2 DEF SyncInv
  <2>2. sync.upto \in 0..Now /\ sync.upto \in 1..Now'  BY <2>1 DEF LogExtends, LogInv, Now
  <2> DEFINE u == sync.upto
  <2>3. Texts(u)' = Texts(u) /\ Newest(u)' = Newest(u)
    <3>1. ASSUME NEW v \in 0..Now, v = u, v = u' PROVE Texts(u)' = Texts(u) /\ Newest(u)' = Newest(u)
      <4>1. Texts(v)' = Texts(v) /\ Newest(v)' = Newest(v)  BY ExtendsKeeps
      <4>2. QED  BY <3>1, <4>1
    <3>2. QED  BY <2>2, <3>1
  <2>4. Newest(u) \in Nat
    <3>1. Texts(u) # {} /\ u \in Nat  BY <2>1
    <3>2. QED  BY <2>2, <3>1, NewestIsLast DEF Texts
  <2>5. chat.newest \in Nat /\ chat'.newest \in Nat  BY StoreAssumption DEF Chats
  <2>6. Newest(sync.upto)' <= chat'.newest  BY <2>1, <2>3, <2>4, <2>5
  <2>7. QED  BY <1>2, <2>1, <2>2, <2>3, <2>6 DEF SyncInv
<1>3. QED  BY <1>1, <1>2

-----------------------------------------------------------------------------
(* Steps *)

LEMMA StoreInit == Init => StoreInv
<1> SUFFICES ASSUME Init PROVE StoreInv
  OBVIOUS
<1> USE StoreAssumption DEF Init
<1>1. Now = 0  BY DEF Now
<1>2. LogInv
  <2>1. <<>> \in Seq(Entries)  OBVIOUS
  <2>2. Texts(Now) = {} /\ Reads(Now) = {}  BY <1>1 DEF Texts, Reads
  <2>3. QED  BY <1>1, <2>1, <2>2 DEF LogInv
<1>3. NetInv  BY DEF NetInv
<1>4. RowInv  BY <1>1 DEF RowInv, Rows, Chats, NewestCovers, TimerInv
<1>5. LiveInv /\ SyncInv  BY DEF LiveInv, SyncInv, Handling, Syncing, Idle, NoSync
<1>6. QED  BY <1>2, <1>3, <1>4, <1>5 DEF StoreInv

\* What an entry has to be for the log to stay sound: a message is written once,
\* and what is read on another device was there.
Sensible(e) ==
  /\ e \in Entries /\ Now < MaxTime
  /\ e.kind = "text" => SentAt(e.msg) = {}
  /\ e.kind = "read" => e.upto \in 1..Now

LEMMA LogStep ==
  ASSUME LogInv, NEW e, Sensible(e), log' = Append(log, e)
  PROVE  LogInv' /\ LogExtends /\ Now' = Now + 1 /\ log'[Now + 1] = e
<1>1. e \in Entries /\ Now \in Nat /\ MaxTime \in Nat /\ Now < MaxTime
  BY StoreAssumption DEF Sensible, LogInv, Now
<1>2. LogExtends /\ log' \in Seq(Entries) /\ Now' = Now + 1 /\ log'[Now + 1] = e  BY <1>1, AppendExtends
<1>3. \A i \in 1..Now' : i \in 1..Now \/ i = Now + 1  BY <1>1, <1>2
<1>4. \A i \in 1..Now : log'[i] = log[i]  BY <1>2 DEF LogExtends
<1>5. \A i \in Texts(Now)' : i \in Texts(Now) \/ (i = Now + 1 /\ e.kind = "text")
  BY <1>2, <1>3, <1>4 DEF Texts, Entry
<1>6. ASSUME NEW i \in Texts(Now)', NEW j \in Texts(Now)', log'[i].msg = log'[j].msg PROVE i = j
  <2>1. ASSUME NEW a \in Texts(Now), e.kind = "text" PROVE log[a].msg # e.msg
    BY <2>1 DEF Sensible, SentAt
  <2>2. \A a \in Texts(Now) : log'[a] = log[a]  BY <1>4 DEF Texts
  <2>3. CASE i \in Texts(Now) /\ j \in Texts(Now)  BY <1>6, <2>2, <2>3 DEF LogInv
  <2>4. CASE i \in Texts(Now) /\ j = Now + 1 /\ e.kind = "text"  BY <1>2, <1>6, <2>1, <2>2, <2>4
  <2>5. CASE j \in Texts(Now) /\ i = Now + 1 /\ e.kind = "text"  BY <1>2, <1>6, <2>1, <2>2, <2>5
  <2>6. QED  BY <1>5, <2>3, <2>4, <2>5
<1>7. ASSUME NEW r \in Reads(Now)' PROVE log'[r].upto \in 1..(r - 1)
  <2>1. r \in 1..Now' /\ log'[r].kind = "read"  BY DEF Reads, Entry
  <2>2. CASE r \in 1..Now
    <3>1. r \in Reads(Now)  BY <1>4, <2>1, <2>2 DEF Reads, Entry
    <3>2. QED  BY <1>4, <2>2, <3>1 DEF LogInv
  <2>3. CASE r = Now + 1
    <3>1. log'[r] = e  BY <1>2, <2>3
    <3>2. e.upto \in 1..Now  BY <2>1, <3>1 DEF Sensible
    <3>3. r - 1 = Now  BY <1>1, <2>3
    <3>4. QED  BY <3>1, <3>2, <3>3
  <2>4. QED  BY <1>3, <2>1, <2>2, <2>3
<1>8. Now' <= MaxTime  BY <1>1, <1>2
<1>9. QED  BY <1>2, <1>6, <1>7, <1>8 DEF LogInv

\* Something happens in the chat and is put on its way, or a device is asked
\* for it again.
Sends(e) ==
  /\ Sensible(e) /\ log' = Append(log, e)
  /\ \E x : /\ net' = net \union {x} /\ x \in Stanzas /\ x.at = Now'
            /\ \/ /\ x.type \in {"first", "copy"} /\ x.of = Now' /\ lost' = lost
                  /\ e.kind \in {"text", "revoke", "timer"}
               \/ x.type = "receipt" /\ x.of = Now' /\ lost' = lost /\ e.kind = "read"
               \/ /\ x.type \in {"first", "copy"} /\ x.of \in lost /\ lost' = lost \ {x.of}
                  /\ e.kind = "resend"
  /\ UNCHANGED <<stored, origMsgTime, live, sync, syncs, crashes>>

LEMMA WorldSends ==
  ASSUME LogInv, NetInv,
         \/ \E m \in Msgs : SomeoneWrites(m) \/ SomeoneRevokes(m)
         \/ SomeoneSetsTimer \/ \E i \in Times : OwnerReads(i) \/ Resend(i)
  PROVE  \E e : Sends(e)
<1>1. Now \in Nat /\ MaxTime \in Nat  BY StoreAssumption DEF LogInv, Now
<1>2. ASSUME NEW e \in Entries, Now < MaxTime, log' = Append(log, e)
      PROVE  Now' = Now + 1 /\ Now' \in Times
  <2>1. Now' = Now + 1  BY <1>2, AppendExtends
  <2>2. QED  BY <1>1, <1>2, <2>1 DEF Times
<1>3. ASSUME NEW e \in Entries, Happens(e), e.kind \in {"text", "revoke", "timer"},
             e.kind = "text" => SentAt(e.msg) = {}
      PROVE  Sends(e)
  <2>1. Now < MaxTime /\ log' = Append(log, e)  BY <1>3 DEF Happens
  <2>2. PICK type \in {"copy", "first"} : net' = net \union {[type |-> type, of |-> Now', at |-> Now']}
    BY <1>3 DEF Happens
  <2> DEFINE x == [type |-> type, of |-> Now', at |-> Now']
  <2>3. x \in Stanzas /\ x.at = Now' /\ x.of = Now' /\ x.type \in {"first", "copy"}  BY <1>2, <2>1 DEF Stanzas
  <2>4. net' = net \union {x}  BY <2>2
  <2> HIDE DEF x
  <2>5. Sensible(e)  BY <1>3, <2>1 DEF Sensible
  <2>6. lost' = lost /\ UNCHANGED <<stored, origMsgTime, live, sync, syncs, crashes>>  BY <1>3 DEF Happens
  <2>7. QED  BY <1>3, <2>1, <2>3, <2>4, <2>5, <2>6 DEF Sends
<1>4. ASSUME NEW m \in Msgs, SomeoneWrites(m) PROVE \E e : Sends(e)
  <2> DEFINE e == [kind |-> "text", msg |-> m]
  <2>1. e \in Entries /\ e.kind = "text" /\ e.msg = m  BY DEF Entries
  <2>2. Happens(e) /\ SentAt(e.msg) = {}  BY <1>4 DEF SomeoneWrites
  <2> HIDE DEF e
  <2>3. QED  BY <1>3, <2>1, <2>2
<1>5. ASSUME NEW m \in Msgs, SomeoneRevokes(m) PROVE \E e : Sends(e)
  <2> DEFINE e == [kind |-> "revoke", msg |-> m]
  <2>1. e \in Entries /\ e.kind = "revoke"  BY DEF Entries
  <2>2. Happens(e)  BY <1>5 DEF SomeoneRevokes
  <2> HIDE DEF e
  <2>3. QED  BY <1>3, <2>1, <2>2
<1>6. CASE SomeoneSetsTimer
  <2> DEFINE e == [kind |-> "timer"]
  <2>1. e \in Entries /\ e.kind = "timer"  BY DEF Entries
  <2>2. Happens(e)  BY <1>6 DEF SomeoneSetsTimer
  <2> HIDE DEF e
  <2>3. QED  BY <1>3, <2>1, <2>2
<1>7. ASSUME NEW i \in Times, OwnerReads(i) PROVE \E e : Sends(e)
  <2> DEFINE e == [kind |-> "read", upto |-> i]
             x == [type |-> "receipt", of |-> Now', at |-> Now']
  <2>1. /\ Now < MaxTime /\ i \in Texts(Now) /\ log' = Append(log, e) /\ net' = net \union {x} /\ lost' = lost
        /\ UNCHANGED <<stored, origMsgTime, live, sync, syncs, crashes>>
    BY <1>7 DEF OwnerReads
  <2>2. e \in Entries /\ e.kind = "read" /\ e.upto = i  BY DEF Entries
  <2>3. x \in Stanzas /\ x.type = "receipt" /\ x.of = Now' /\ x.at = Now'  BY <1>2, <2>1, <2>2 DEF Stanzas
  <2> HIDE DEF e, x
  <2>4. Sensible(e)  BY <2>1, <2>2 DEF Sensible, Texts
  <2>5. QED  BY <2>1, <2>2, <2>3, <2>4 DEF Sends
<1>8. ASSUME NEW i \in Times, Resend(i) PROVE \E e : Sends(e)
  <2> DEFINE e == [kind |-> "resend"]
  <2>1. /\ Now < MaxTime /\ i \in lost /\ log' = Append(log, e) /\ lost' = lost \ {i}
        /\ UNCHANGED <<stored, origMsgTime, live, sync, syncs, crashes>>
    BY <1>8 DEF Resend
  <2>2. e \in Entries /\ e.kind = "resend"  BY DEF Entries
  <2>3. PICK type \in {"copy", "first"} : net' = net \union {[type |-> type, of |-> i, at |-> Now']}
    BY <1>8 DEF Resend
  <2> DEFINE x == [type |-> type, of |-> i, at |-> Now']
  <2>4. x \in Stanzas /\ x.type \in {"first", "copy"} /\ x.of = i /\ x.at = Now'
    BY <1>2, <2>1, <2>2 DEF Stanzas
  <2>5. net' = net \union {x}  BY <2>3
  <2> HIDE DEF e, x
  <2>6. Sensible(e)  BY <2>1, <2>2 DEF Sensible
  <2>7. QED  BY <2>1, <2>2, <2>4, <2>5, <2>6 DEF Sends
<1>9. QED  BY <1>4, <1>5, <1>6, <1>7, <1>8

LEMMA SendsStep ==
  ASSUME StoreInv, NEW e, Sends(e)
  PROVE  StoreInv'
<1> USE DEF StoreInv
<1>1. LogInv' /\ LogExtends /\ Now' = Now + 1 /\ log'[Now + 1] = e /\ Now \in Nat
  <2>1. Sensible(e) /\ log' = Append(log, e)  BY DEF Sends
  <2>2. LogInv' /\ LogExtends /\ Now' = Now + 1 /\ log'[Now + 1] = e  BY <2>1, LogStep
  <2>3. Now \in Nat  BY DEF LogInv, Now
  <2>4. QED  BY <2>2, <2>3
<1>2. UNCHANGED <<row, chat, origMsgTime, live, sync, syncs, crashes>>  BY DEF Sends, stored
<1>3. RowInv'
  <2>1. \A m \in Msgs : row[m].time <= Now'
    <3>1. \A m \in Msgs : row[m].time \in Nat /\ row[m].time <= Now  BY StoreAssumption DEF RowInv, Rows
    <3>2. QED  BY <1>1, <3>1
  <2>2. QED  BY <1>2, <2>1 DEF RowInv, NewestCovers, TimerInv
<1>4. LiveInv' /\ SyncInv'
  <2>1. chat \in Chats /\ chat' \in Chats /\ chat'.newest >= chat.newest  BY <1>2, StoreAssumption DEF RowInv, Chats
  <2>2. QED  BY <1>1, <1>2, <2>1, LiveKept, SyncKept
<1>5. NetInv'
  <2>1. PICK x : /\ net' = net \union {x} /\ x \in Stanzas /\ x.at = Now'
                 /\ \/ /\ x.type \in {"first", "copy"} /\ x.of = Now' /\ lost' = lost
                       /\ e.kind \in {"text", "revoke", "timer"}
                    \/ x.type = "receipt" /\ x.of = Now' /\ lost' = lost /\ e.kind = "read"
                    \/ /\ x.type \in {"first", "copy"} /\ x.of \in lost /\ lost' = lost \ {x.of}
                       /\ e.kind = "resend"
    BY DEF Sends
  <2>2. Deliverable(x)'
    <3>1. CASE x.of = Now' /\ lost' = lost
      BY <1>1, <2>1, <3>1 DEF Deliverable, Carried, Entry
    <3>2. CASE x.type \in {"first", "copy"} /\ x.of \in lost
      <4>1. x.of \in 1..Now /\ Carried(x.of)  BY <3>2 DEF NetInv
      <4>2. Carried(x.of)'  BY <1>1, <4>1 DEF Carried, LogExtends
      <4>3. QED  BY <1>1, <2>1, <3>2, <4>1, <4>2 DEF Deliverable
    <3>3. QED  BY <2>1, <3>1, <3>2
  <2>3. lost' \subseteq lost  BY <2>1
  <2>4. QED  BY <1>1, <2>1, <2>2, <2>3, NetKept
<1>6. QED  BY <1>1, <1>3, <1>4, <1>5

LEMMA SameLog ==
  ASSUME LogInv, log' = log
  PROVE  /\ LogInv' /\ LogExtends /\ Now' = Now /\ Now \in Nat
         /\ \A i \in 1..Now : /\ \A k \in Kinds : Entry(k, i)' <=> Entry(k, i)
                              /\ Carried(i)' <=> Carried(i)
<1>1. LogInv'  BY DEF LogInv, Now, Texts, Reads, Entry
<1>2. Now' = Now /\ Now \in Nat  BY DEF LogInv, Now
<1>3. LogExtends  BY SameExtends
<1>4. QED  BY <1>1, <1>2, <1>3, ExtendsKeeps

\* What a statement or a handler leaves as it is, the bridge's side of it.
LEMMA BridgeKeeps ==
  ASSUME StoreInv, log' = log,
         \A e \in net' : e \in net \/ Deliverable(e)',
         \A i \in lost' : i \in lost \/ (i \in 1..Now' /\ Carried(i)'),
         chat' \in Chats, chat'.newest >= chat.newest, TimerInv',
         row' \in [Msgs -> Rows], \A m \in Msgs : row'[m].time <= chat'.newest /\ row'[m].time <= Now,
         origMsgTime' \in [Times -> 0..MaxTime], syncs' \in 0..MaxSyncs, crashes' \in 0..MaxCrashes
  PROVE  LogInv' /\ NetInv' /\ RowInv' /\ (live' = live => LiveInv') /\ (sync' = sync => SyncInv')
<1>1. LogInv /\ NetInv /\ RowInv /\ LiveInv /\ SyncInv  BY DEF StoreInv
<1>2. LogInv' /\ LogExtends /\ Now' = Now  BY <1>1, SameLog
<1>3. NetInv'  BY <1>1, <1>2, NetKept
<1>4. RowInv'  BY <1>2 DEF RowInv, NewestCovers
<1>5. chat \in Chats  BY <1>1 DEF RowInv
<1>6. live' = live => LiveInv'  BY <1>1, <1>2, <1>5, LiveKept
<1>7. sync' = sync => SyncInv'  BY <1>1, <1>2, <1>5, SyncKept
<1>8. QED  BY <1>2, <1>3, <1>4, <1>6, <1>7

\* A statement on the chat row.
LEMMA ChatStatement ==
  ASSUME StoreInv, chat' \in Chats, chat'.newest >= chat.newest, TimerInv',
         net' \subseteq net, UNCHANGED <<log, lost, row, origMsgTime, syncs, crashes>>
  PROVE  LogInv' /\ NetInv' /\ RowInv' /\ (live' = live => LiveInv') /\ (sync' = sync => SyncInv')
<1>1. RowInv  BY DEF StoreInv
<1>2. \A m \in Msgs : row'[m].time <= chat'.newest /\ row'[m].time <= Now
  <2>1. chat.newest \in Nat /\ chat'.newest \in Nat  BY <1>1, StoreAssumption DEF RowInv, Chats
  <2>2. \A m \in Msgs : row[m].time \in Nat /\ row[m].time <= chat.newest /\ row[m].time <= Now
    BY <1>1, StoreAssumption DEF RowInv, Rows, NewestCovers
  <2>3. QED  BY <2>1, <2>2
<1>3. QED  BY <1>1, <1>2, BridgeKeeps DEF RowInv

\* A statement on a message.
LEMMA RowStatement ==
  ASSUME StoreInv, row' \in [Msgs -> Rows],
         \A m \in Msgs : row'[m].time = row[m].time \/ (row'[m].time <= chat.newest /\ row'[m].time <= Now),
         UNCHANGED <<log, net, lost, chat, origMsgTime, syncs, crashes>>
  PROVE  LogInv' /\ NetInv' /\ RowInv' /\ (live' = live => LiveInv') /\ (sync' = sync => SyncInv')
<1>1. RowInv  BY DEF StoreInv
<1>2. \A m \in Msgs : row'[m].time <= chat'.newest /\ row'[m].time <= Now
  BY <1>1 DEF RowInv, NewestCovers
<1>3. TimerInv' /\ chat'.newest >= chat.newest  BY <1>1, StoreAssumption DEF RowInv, TimerInv, Chats
<1>4. QED  BY <1>1, <1>2, <1>3, BridgeKeeps DEF RowInv

\* What the handlers do that write no row.
LEMMA NoStatement ==
  ASSUME StoreInv, \A e \in net' : e \in net \/ Deliverable(e)',
         \A i \in lost' : i \in lost \/ (i \in 1..Now' /\ Carried(i)'),
         origMsgTime' \in [Times -> 0..MaxTime], syncs' \in 0..MaxSyncs, crashes' \in 0..MaxCrashes,
         UNCHANGED <<log, row, chat>>
  PROVE  LogInv' /\ NetInv' /\ RowInv' /\ (live' = live => LiveInv') /\ (sync' = sync => SyncInv')
<1>1. RowInv  BY DEF StoreInv
<1>2. \A m \in Msgs : row'[m].time <= chat'.newest /\ row'[m].time <= Now
  BY <1>1 DEF RowInv, NewestCovers
<1>3. TimerInv' /\ chat'.newest >= chat.newest  BY <1>1, StoreAssumption DEF RowInv, TimerInv, Chats
<1>4. QED  BY <1>1, <1>2, <1>3, BridgeKeeps DEF RowInv

LEMMA PhoneSyncsStep == StoreInv /\ PhoneSyncs => StoreInv'
<1> SUFFICES ASSUME StoreInv, PhoneSyncs PROVE StoreInv'
  OBVIOUS
<1>1. LogInv /\ RowInv  BY DEF StoreInv
<1>2. /\ syncs < MaxSyncs /\ syncs' = syncs + 1 /\ Texts(Now) # {}
      /\ net' = net \union {[type |-> "snapshot", upto |-> Now]}
      /\ UNCHANGED <<log, lost, row, chat, origMsgTime, live, sync, crashes>>
  BY DEF PhoneSyncs, stored
<1> DEFINE x == [type |-> "snapshot", upto |-> Now]
<1>3. Now \in Nat /\ Now <= MaxTime  BY <1>1 DEF LogInv, Now
<1>4. Now \in 1..Now
  <2>1. PICK i \in 1..Now : TRUE  BY <1>2 DEF Texts
  <2>2. QED  BY <1>3, <2>1
<1>5. ASSUME NEW e, e = x PROVE Deliverable(e)'
  <2>1. e \in Snapshots /\ e.type = "snapshot" /\ e.upto = Now
    BY <1>3, <1>4, <1>5, StoreAssumption DEF Snapshots, Times
  <2>2. Now' = Now /\ Texts(e.upto)' = Texts(e.upto)  BY <1>2 DEF Now, Texts, Entry
  <2>3. e.upto \in 1..Now' /\ Texts(e.upto)' # {}  BY <1>2, <1>4, <2>1, <2>2
  <2>4. QED  BY <2>1, <2>3 DEF Deliverable
<1>6. syncs' \in 0..MaxSyncs  BY <1>1, <1>2, StoreAssumption DEF RowInv
<1>7. \A e \in net' : e \in net \/ Deliverable(e)'  BY <1>2, <1>5
<1>8. origMsgTime' \in [Times -> 0..MaxTime] /\ crashes' \in 0..MaxCrashes  BY <1>1, <1>2 DEF RowInv
<1>9. LogInv' /\ NetInv' /\ RowInv' /\ LiveInv' /\ SyncInv'
  BY <1>2, <1>6, <1>7, <1>8, NoStatement
<1>10. QED  BY <1>9 DEF StoreInv

-----------------------------------------------------------------------------
(* The live handler *)

LEMMA FinishIsIdle == Finish => LiveInv'
BY DEF Finish, LiveInv, Handling, Idle

\* The stanza in hand, before its last statement.
LEMMA LiveForms ==
  ASSUME StoreInv, live.pc # "idle"
  PROVE  /\ LogInv /\ RowInv /\ live \in Handling
         /\ Now \in Nat /\ Now <= MaxTime /\ MaxTime \in Nat
         /\ live.of \in 1..Now /\ live.at \in live.of..Now /\ live.time \in 1..Now
         /\ live.of \in 0..MaxTime /\ live.at \in 0..MaxTime /\ live.time \in 0..MaxTime
<1>1. LogInv /\ RowInv /\ LiveInv  BY DEF StoreInv
<1>2. Now \in Nat /\ Now <= MaxTime /\ MaxTime \in Nat  BY <1>1, StoreAssumption DEF LogInv, Now
<1>3. live \in Handling /\ live.of \in 1..Now /\ live.at \in live.of..Now /\ live.time \in 1..Now
  BY <1>1 DEF LiveInv
<1>4. QED  BY <1>1, <1>2, <1>3

LEMMA UndecryptableStep ==
  ASSUME StoreInv, NEW e, Undecryptable(e)
  PROVE  StoreInv'
<1>1. LogInv /\ NetInv /\ RowInv  BY DEF StoreInv
<1>2. /\ e \in net /\ e.type = "first" /\ net' = net \ {e} /\ lost' = lost \union {e.of}
      /\ origMsgTime' = [origMsgTime EXCEPT ![e.of] = IF @ = 0 \/ e.at < @ THEN e.at ELSE @]
      /\ UNCHANGED <<log, row, chat, live, sync, syncs, crashes>>
  BY DEF Undecryptable, stored
<1>3. e \in Stanzas /\ e.of \in 1..Now /\ Carried(e.of)
  BY <1>1, <1>2 DEF NetInv, Deliverable
<1>4. e.of \in 1..Now' /\ Carried(e.of)'  BY <1>1, <1>2, <1>3, SameLog
<1>5. origMsgTime' \in [Times -> 0..MaxTime]
  <2>1. e.of \in Times /\ e.at \in 0..MaxTime  BY <1>3, StoreAssumption DEF Stanzas, Times
  <2>2. QED  BY <1>1, <1>2, <2>1 DEF RowInv
<1>6. syncs' \in 0..MaxSyncs /\ crashes' \in 0..MaxCrashes  BY <1>1, <1>2 DEF RowInv
<1>7. LogInv' /\ NetInv' /\ RowInv' /\ LiveInv' /\ SyncInv'  BY <1>2, <1>4, <1>5, <1>6, NoStatement
<1>8. QED  BY <1>7 DEF StoreInv

LEMMA ReceiveStep ==
  ASSUME StoreInv, NEW e, Receive(e)
  PROVE  StoreInv'
<1>1. LogInv /\ NetInv /\ RowInv  BY DEF StoreInv
<1> DEFINE orig == origMsgTime[e.of]
           time == IF orig # 0 /\ orig < e.at THEN orig ELSE e.at
<1>2. /\ e \in net /\ e.type = "copy" /\ net' = net \ {e}
      /\ live' = [pc |-> "chat", of |-> e.of, at |-> e.at, time |-> time]
      /\ origMsgTime' = [origMsgTime EXCEPT ![e.of] = 0]
      /\ UNCHANGED <<log, lost, row, chat, sync, syncs, crashes>>
  BY DEF Receive, stored
<1>3. e \in Stanzas /\ e.of \in 1..Now /\ e.at \in e.of..Now /\ Carried(e.of)
  BY <1>1, <1>2 DEF NetInv, Deliverable
<1>4. e.of \in Times  BY <1>3 DEF Stanzas
<1>5. origMsgTime' \in [Times -> 0..MaxTime] /\ orig \in Nat
  BY <1>1, <1>2, <1>4, StoreAssumption DEF RowInv
<1>6. syncs' \in 0..MaxSyncs /\ crashes' \in 0..MaxCrashes  BY <1>1, <1>2 DEF RowInv
<1>7. LogInv' /\ NetInv' /\ RowInv' /\ SyncInv'  BY <1>2, <1>5, <1>6, NoStatement
<1>8. LiveInv'
  <2>1. Now' = Now /\ Now \in Nat /\ Carried(e.of)'  BY <1>1, <1>2, <1>3, SameLog
  <2>2. time \in 1..Now /\ time \in Nat /\ e.at \in Nat /\ e.of \in Nat  BY <1>3, <1>5, <2>1
  <2> HIDE DEF time
  <2>3. /\ live' \in Handling /\ live'.pc = "chat" /\ live'.of = e.of /\ live'.at = e.at /\ live'.time = time
    BY <1>2, <2>2 DEF Handling
  <2>4. Carried(live.of)'  BY <1>2, <2>1, <2>3 DEF Carried
  <2>5. QED  BY <1>3, <2>1, <2>2, <2>3, <2>4 DEF LiveInv
<1>9. QED  BY <1>7, <1>8 DEF StoreInv

\* The time a receipt is taken for is one of the chat's, or its own.
LEMMA ReceiptTime ==
  ASSUME LogInv, RowInv, NEW r \in Reads(Now)
  PROVE  LET times == {row[log[i].msg].time : i \in Acknowledged(r)} \ {0}
         IN  /\ times \subseteq 1..Now
             /\ times # {} =>
                  \E i \in Acknowledged(r) :
                    /\ i \in Texts(Now) /\ row[log[i].msg].time # 0
                    /\ (CHOOSE t \in times : \A u \in times : u <= t) = row[log[i].msg].time
<1> DEFINE times == {row[log[i].msg].time : i \in Acknowledged(r)} \ {0}
<1>1. Now \in Nat /\ MaxTime \in Nat /\ r \in 1..Now  BY StoreAssumption DEF LogInv, Now, Reads
<1>2. log[r].upto \in 1..(r - 1)  BY DEF LogInv
<1>3. \A i \in Acknowledged(r) : i \in Texts(Now)
  <2>1. \A i \in 1..log[r].upto : i \in 1..Now  BY <1>1, <1>2
  <2>2. QED  BY <2>1 DEF Acknowledged, Texts
<1>4. \A i \in Acknowledged(r) : log[i].msg \in Msgs
  BY <1>3, EntryForms DEF Texts, Entry
<1>5. \A m \in Msgs : row[m].time \in Nat /\ row[m].time <= Now
  BY <1>1 DEF RowInv, Rows
<1>6. times \subseteq 1..Now  BY <1>1, <1>4, <1>5
<1>7. ASSUME times # {}
      PROVE  (CHOOSE t \in times : \A u \in times : u <= t) \in times
  <2>1. \E t \in times : \A u \in times : u <= t
    <3>1. times \in SUBSET (1..Now)  BY <1>6
    <3> HIDE DEF times
    <3>2. QED  BY <1>1, <1>7, <3>1, HasLast
  <2> HIDE DEF times
  <2>2. QED  BY <2>1
<1>8. QED  BY <1>3, <1>6, <1>7

LEMMA ReceiveReceiptStep ==
  ASSUME StoreInv, NEW e, ReceiveReceipt(e)
  PROVE  StoreInv'
<1>1. LogInv /\ NetInv /\ RowInv  BY DEF StoreInv
<1> DEFINE times == {row[log[i].msg].time : i \in Acknowledged(e.of)} \ {0}
           time == IF times = {} THEN e.at ELSE CHOOSE t \in times : \A u \in times : u <= t
<1>2. /\ e \in net /\ e.type = "receipt" /\ net' = net \ {e}
      /\ live' = [pc |-> "mark", of |-> e.of, at |-> e.at, time |-> time]
      /\ UNCHANGED <<log, lost, row, chat, origMsgTime, sync, syncs, crashes>>
  BY DEF ReceiveReceipt, stored
<1>3. e \in Stanzas /\ e.of \in 1..Now /\ e.at = e.of /\ Entry("read", e.of)
  BY <1>1, <1>2 DEF NetInv, Deliverable
<1>4. /\ origMsgTime' \in [Times -> 0..MaxTime]
      /\ syncs' \in 0..MaxSyncs /\ crashes' \in 0..MaxCrashes
  BY <1>1, <1>2 DEF RowInv
<1>5. LogInv' /\ NetInv' /\ RowInv' /\ SyncInv'  BY <1>2, <1>4, NoStatement
<1>6. time \in 1..Now
  <2>1. e.of \in Reads(Now)  BY <1>3 DEF Reads
  <2>2. /\ times \subseteq 1..Now
        /\ times # {} => \E i \in Acknowledged(e.of) :
             row[log[i].msg].time # 0
             /\ (CHOOSE t \in times : \A u \in times : u <= t) = row[log[i].msg].time
    BY <1>1, <2>1, ReceiptTime
  <2>3. times # {} => (CHOOSE t \in times : \A u \in times : u <= t) \in times  BY <2>2
  <2> HIDE DEF times
  <2>4. QED  BY <1>3, <2>2, <2>3
<1>7. LiveInv'
  <2>1. Now' = Now /\ Now \in Nat /\ (Entry("read", e.of)' <=> Entry("read", e.of))
    BY <1>1, <1>2, <1>3, SameLog DEF Kinds
  <2>2. live' = [pc |-> "mark", of |-> e.of, at |-> e.at, time |-> time]  BY <1>2
  <2> HIDE DEF time
  <2>3. live' \in Handling /\ live'.pc = "mark" /\ live'.of = e.of /\ live'.at = e.at /\ live'.time = time
    <3>1. time \in Nat /\ e.of \in Nat /\ e.at \in Nat  BY <1>3, <1>6, <2>1
    <3>2. QED  BY <2>2, <3>1 DEF Handling
  <2>4. Entry("read", live.of)'  BY <1>2, <1>3, <2>3 DEF Entry
  <2>5. e.at \in e.of..Now  BY <1>3, <2>1
  <2>6. QED  BY <1>3, <1>6, <2>1, <2>3, <2>4, <2>5 DEF LiveInv
<1>8. QED  BY <1>5, <1>7 DEF StoreInv

LEMMA ReceiveChatStep == StoreInv /\ ReceiveChat => StoreInv'
<1> SUFFICES ASSUME StoreInv, ReceiveChat PROVE StoreInv'
  OBVIOUS
<1>1. /\ live.pc = "chat" /\ StoreChat(live.time)
      /\ live' = [live EXCEPT !.pc = log[live.of].kind]
      /\ UNCHANGED <<log, net, lost, row, origMsgTime, sync, syncs, crashes>>
  BY DEF ReceiveChat
<1>2. /\ LogInv /\ RowInv /\ live \in Handling /\ Now \in Nat
      /\ live.of \in 1..Now /\ live.at \in live.of..Now /\ live.time \in 1..Now /\ live.time \in 0..MaxTime
  BY <1>1, LiveForms
<1>3. chat \in Chats  BY <1>2 DEF RowInv
<1>4. /\ chat' \in Chats /\ chat'.newest >= chat.newest /\ chat'.newest >= live.time
      /\ chat'.timer = chat.timer /\ chat'.stamp = chat.stamp
  BY <1>1, <1>2, <1>3, StoreChatDoes
<1>5. TimerInv'  BY <1>2, <1>4 DEF RowInv, TimerInv
<1>6. LogInv' /\ NetInv' /\ RowInv' /\ SyncInv'  BY <1>1, <1>4, <1>5, ChatStatement
<1>7. LiveInv'
  <2>1. Carried(live.of)  BY <1>1 DEF StoreInv, LiveInv
  <2> DEFINE k == log[live.of].kind
  <2>2. k \in {"text", "revoke", "timer"}  BY <2>1 DEF Carried
  <2>3. live' = [live EXCEPT !.pc = k]  BY <1>1
  <2>4. Now' = Now  BY <1>1 DEF Now
  <2>5. (log')[live.of].kind = k  BY <1>1
  <2> HIDE DEF k
  <2>6. /\ live' \in Handling /\ live'.pc = k /\ live'.of = live.of
        /\ live'.at = live.at /\ live'.time = live.time
    BY <1>2, <2>2, <2>3 DEF Handling
  <2>7. Entry(live.pc, live.of)'  BY <2>5, <2>6 DEF Entry
  <2>8. Carried(live.of)'  BY <2>2, <2>5, <2>6 DEF Carried
  <2>9. live'.time <= chat'.newest  BY <1>2, <1>4, <2>6, StoreAssumption DEF Chats
  <2>10. QED  BY <1>2, <2>2, <2>4, <2>6, <2>7, <2>8, <2>9 DEF LiveInv
<1>8. QED  BY <1>6, <1>7 DEF StoreInv

LEMMA ReceiveTimerStep == StoreInv /\ ReceiveTimer => StoreInv'
<1> SUFFICES ASSUME StoreInv, ReceiveTimer PROVE StoreInv'
  OBVIOUS
<1> DEFINE stamp == IF Stamped THEN live.of ELSE live.at
<1>1. /\ live.pc = "timer" /\ UpdateChatEphemeralSettings(live.of, stamp) /\ Finish
      /\ UNCHANGED <<log, net, lost, row, origMsgTime, sync, syncs, crashes>>
  BY DEF ReceiveTimer
<1>2. RowInv /\ live.of \in 0..MaxTime /\ live.at \in 0..MaxTime  BY <1>1, LiveForms
<1>3. chat \in Chats  BY <1>2 DEF RowInv
<1>4. stamp \in 0..MaxTime  BY <1>2
<1>5. Stamped => stamp = live.of  OBVIOUS
<1> HIDE DEF stamp
<1>6. /\ chat' \in Chats /\ chat'.newest = chat.newest
      /\ IF stamp # 0 /\ stamp >= chat.stamp THEN chat'.timer = live.of /\ chat'.stamp = stamp
         ELSE chat'.timer = chat.timer /\ chat'.stamp = chat.stamp
  BY <1>1, <1>2, <1>3, <1>4, UpdateDoes
<1>7. TimerInv'  BY <1>2, <1>5, <1>6 DEF RowInv, TimerInv
<1>8. chat'.newest >= chat.newest  BY <1>3, <1>6, StoreAssumption DEF Chats
<1>9. LogInv' /\ NetInv' /\ RowInv' /\ SyncInv'  BY <1>1, <1>6, <1>7, <1>8, ChatStatement
<1>10. QED  BY <1>1, <1>9, FinishIsIdle DEF StoreInv

LEMMA ReceiveContextStep == StoreInv /\ ReceiveContext => StoreInv'
<1> SUFFICES ASSUME StoreInv, ReceiveContext PROVE StoreInv'
  OBVIOUS
<1> DEFINE timer == Timer(live.of)
<1>1. /\ live.pc = "text" /\ UpdateChatEphemeralSettings(timer, timer)
      /\ live' = [live EXCEPT !.pc = "store"]
      /\ UNCHANGED <<log, net, lost, row, origMsgTime, sync, syncs, crashes>>
  BY DEF ReceiveContext
<1>2. /\ LogInv /\ RowInv /\ live \in Handling /\ Now \in Nat /\ MaxTime \in Nat
      /\ live.of \in 1..Now /\ live.at \in live.of..Now /\ live.time \in 1..Now /\ live.of \in 0..MaxTime
  BY <1>1, LiveForms
<1>3. chat \in Chats  BY <1>2 DEF RowInv
<1>4. timer \in 0..MaxTime
  <2>1. live.of \in 0..Now  BY <1>2
  <2>2. timer \in 0..live.of  BY <1>2, <2>1, TimerIsLast
  <2> HIDE DEF timer
  <2>3. QED  BY <1>2, <2>2
<1> HIDE DEF timer
<1>5. /\ chat' \in Chats /\ chat'.newest = chat.newest
      /\ IF timer # 0 /\ timer >= chat.stamp THEN chat'.timer = timer /\ chat'.stamp = timer
         ELSE chat'.timer = chat.timer /\ chat'.stamp = chat.stamp
  BY <1>1, <1>3, <1>4, UpdateDoes
<1>6. TimerInv'  BY <1>2, <1>5 DEF RowInv, TimerInv
<1>7. chat'.newest >= chat.newest  BY <1>3, <1>5, StoreAssumption DEF Chats
<1>8. LogInv' /\ NetInv' /\ RowInv' /\ SyncInv'  BY <1>1, <1>5, <1>6, <1>7, ChatStatement
<1>9. LiveInv'
  <2>1. Carried(live.of) /\ Entry("text", live.of) /\ live.time <= chat.newest
    BY <1>1 DEF StoreInv, LiveInv
  <2>2. /\ live' \in Handling /\ live'.pc = "store" /\ live'.of = live.of
        /\ live'.at = live.at /\ live'.time = live.time
    BY <1>1, <1>2 DEF Handling
  <2>3. Now' = Now /\ Carried(live.of)' /\ Entry("text", live.of)'  BY <1>1, <2>1, <2>2 DEF Now, Carried, Entry
  <2>4. QED  BY <1>2, <1>5, <2>1, <2>2, <2>3 DEF LiveInv
<1>10. QED  BY <1>8, <1>9 DEF StoreInv

LEMMA MarkReadStep == StoreInv /\ MarkRead => StoreInv'
<1> SUFFICES ASSUME StoreInv, MarkRead PROVE StoreInv'
  OBVIOUS
<1>1. /\ live.pc = "mark" /\ MarkChatRead(live.time) /\ Finish
      /\ UNCHANGED <<log, net, lost, row, origMsgTime, sync, syncs, crashes>>
  BY DEF MarkRead
<1>2. RowInv /\ live.time \in 0..MaxTime  BY <1>1, LiveForms
<1>3. chat \in Chats  BY <1>2 DEF RowInv
<1>4. /\ chat' \in Chats /\ chat'.newest = chat.newest
      /\ chat'.timer = chat.timer /\ chat'.stamp = chat.stamp
  BY <1>1, <1>2, <1>3, MarkChatReadDoes
<1>5. TimerInv'  BY <1>2, <1>4 DEF RowInv, TimerInv
<1>6. chat'.newest >= chat.newest  BY <1>3, <1>4, StoreAssumption DEF Chats
<1>7. LogInv' /\ NetInv' /\ RowInv' /\ SyncInv'  BY <1>1, <1>4, <1>5, <1>6, ChatStatement
<1>8. QED  BY <1>1, <1>7, FinishIsIdle DEF StoreInv

LEMMA ReceiveRevokeStep == StoreInv /\ ReceiveRevoke => StoreInv'
<1> SUFFICES ASSUME StoreInv, ReceiveRevoke PROVE StoreInv'
  OBVIOUS
<1>1. /\ live.pc = "revoke" /\ MarkMessageDeleted(log[live.of].msg, live.at) /\ Finish
      /\ UNCHANGED <<log, net, lost, chat, origMsgTime, sync, syncs, crashes>>
  BY DEF ReceiveRevoke
<1>2. LogInv /\ RowInv /\ live.of \in 1..Now /\ live.at \in 0..MaxTime  BY <1>1, LiveForms
<1>3. Entry("revoke", live.of)  BY <1>1 DEF StoreInv, LiveInv
<1>4. log[live.of].msg \in Msgs  BY <1>2, <1>3, EntryForms DEF Entry
<1>5. row \in [Msgs -> Rows]  BY <1>2 DEF RowInv
<1>6. row' \in [Msgs -> Rows] /\ \A m \in Msgs : row'[m].time = row[m].time
  BY <1>1, <1>2, <1>4, <1>5, MarkDeletedDoes
<1>7. LogInv' /\ NetInv' /\ RowInv' /\ SyncInv'  BY <1>1, <1>6, RowStatement
<1>8. QED  BY <1>1, <1>7, FinishIsIdle DEF StoreInv

LEMMA ReceiveTextStep == StoreInv /\ ReceiveText => StoreInv'
<1> SUFFICES ASSUME StoreInv, ReceiveText PROVE StoreInv'
  OBVIOUS
<1>1. /\ live.pc = "store" /\ StoreMessage(log[live.of].msg, live.time, live.time) /\ Finish
      /\ UNCHANGED <<log, net, lost, chat, origMsgTime, sync, syncs, crashes>>
  BY DEF ReceiveText
<1>2. LogInv /\ RowInv /\ Now \in Nat /\ live.of \in 1..Now /\ live.time \in 1..Now /\ live.time \in 0..MaxTime
  BY <1>1, LiveForms
<1>3. Entry("text", live.of) /\ live.time <= chat.newest  BY <1>1 DEF StoreInv, LiveInv
<1>4. log[live.of].msg \in Msgs  BY <1>2, <1>3, EntryForms DEF Entry
<1>5. row \in [Msgs -> Rows]  BY <1>2 DEF RowInv
<1>6. /\ row' \in [Msgs -> Rows]
      /\ \A m \in Msgs : row'[m].time = row[m].time \/ row'[m].time = live.time
  BY <1>1, <1>2, <1>4, <1>5, StoreMessageDoes
<1>7. live.time <= Now  BY <1>2
<1>8. LogInv' /\ NetInv' /\ RowInv' /\ SyncInv'  BY <1>1, <1>3, <1>6, <1>7, RowStatement
<1>9. QED  BY <1>1, <1>8, FinishIsIdle DEF StoreInv

-----------------------------------------------------------------------------
(* History sync *)

LEMMA SyncForms ==
  ASSUME StoreInv, NEW u \in 1..Now, Texts(u) # {}
  PROVE  /\ LogInv /\ RowInv /\ Now \in Nat /\ MaxTime \in Nat /\ u \in Nat
         /\ Newest(u) \in Texts(u) /\ \A i \in Texts(u) : i <= Newest(u)
         /\ Newest(u) \in 1..Now /\ Newest(u) \in 0..MaxTime /\ Timer(u) \in 0..MaxTime
<1>1. LogInv /\ RowInv /\ Now \in Nat /\ MaxTime \in Nat /\ Now <= MaxTime
  BY StoreAssumption DEF StoreInv, LogInv, Now
<1>2. u \in 0..Now /\ u \in Nat /\ u <= Now  BY <1>1
<1>3. Newest(u) \in Texts(u) /\ \A i \in Texts(u) : i <= Newest(u)  BY <1>1, <1>2, NewestIsLast
<1>4. Newest(u) \in 1..u  BY <1>3 DEF Texts
<1>5. Timer(u) \in 0..u  BY <1>1, <1>2, TimerIsLast
<1>6. QED  BY <1>1, <1>2, <1>3, <1>4, <1>5

\* The next statement of the sync: the snapshot and what is left of it stay.
LEMMA SyncGoesOn ==
  ASSUME StoreInv, sync.pc # "idle", sync' \in Syncing, sync'.pc # "idle", sync'.upto = sync.upto,
         sync'.todo # {}, sync'.todo \subseteq sync.todo, log' = log,
         chat \in Chats, chat' \in Chats, chat'.newest >= chat.newest
  PROVE  SyncInv'
<1>1. LogInv /\ SyncInv  BY DEF StoreInv
<1>2. /\ sync.upto \in 1..Now /\ sync.todo # {} /\ sync.todo \subseteq Texts(sync.upto)
      /\ Newest(sync.upto) <= chat.newest
  BY <1>1 DEF SyncInv
<1>3. LogExtends /\ Now' = Now /\ Now \in Nat  BY <1>1, SameLog
<1>4. sync.upto \in 0..Now  BY <1>2, <1>3
<1>5. Texts(sync.upto)' = Texts(sync.upto) /\ Newest(sync.upto)' = Newest(sync.upto)
  <2>1. ASSUME NEW v \in 0..Now, v = sync.upto, v = sync'.upto
        PROVE  Texts(sync.upto)' = Texts(sync.upto) /\ Newest(sync.upto)' = Newest(sync.upto)
    <3>1. Texts(v)' = Texts(v) /\ Newest(v)' = Newest(v)  BY <1>1, <1>3, ExtendsKeeps
    <3>2. QED  BY <2>1, <3>1
  <2>2. QED  BY <1>4, <2>1
<1>6. Newest(sync.upto) \in Nat
  <2>1. Texts(sync.upto) # {}  BY <1>2
  <2>2. QED  BY <1>2, <2>1, SyncForms
<1>7. chat.newest \in Nat /\ chat'.newest \in Nat  BY StoreAssumption DEF Chats
<1>8. Newest(sync.upto)' <= chat'.newest  BY <1>2, <1>5, <1>6, <1>7
<1>9. sync'.upto \in 1..Now' /\ sync'.todo \subseteq Texts(sync.upto)'  BY <1>2, <1>3, <1>5
<1>10. QED  BY <1>8, <1>9 DEF SyncInv

LEMMA SyncChatStep ==
  ASSUME StoreInv, NEW e, SyncChat(e)
  PROVE  StoreInv'
<1> DEFINE newest == Newest(e.upto)
<1>1. /\ e \in net /\ e.type = "snapshot" /\ net' = net \ {e} /\ StoreChat(newest)
      /\ sync' = [pc |-> "read", upto |-> e.upto, todo |-> Texts(e.upto)]
      /\ UNCHANGED <<log, lost, row, origMsgTime, live, syncs, crashes>>
  BY DEF SyncChat
<1>2. e.upto \in 1..Now /\ Texts(e.upto) # {}  BY <1>1 DEF StoreInv, NetInv, Deliverable
<1>3. /\ LogInv /\ RowInv /\ Now \in Nat /\ e.upto \in Nat
      /\ newest \in 1..Now /\ newest \in 0..MaxTime
  BY <1>2, SyncForms
<1> HIDE DEF newest
<1>4. chat \in Chats  BY <1>3 DEF RowInv
<1>5. /\ chat' \in Chats /\ chat'.newest >= chat.newest /\ chat'.newest >= newest
      /\ chat'.timer = chat.timer /\ chat'.stamp = chat.stamp
  BY <1>1, <1>3, <1>4, StoreChatDoes
<1>6. TimerInv'  BY <1>3, <1>5 DEF RowInv, TimerInv
<1>7. LogInv' /\ NetInv' /\ RowInv' /\ LiveInv'  BY <1>1, <1>5, <1>6, ChatStatement
<1>8. SyncInv'
  <2>1. LogExtends /\ Now' = Now  BY <1>1, <1>3, SameLog
  <2>2. e.upto \in 0..Now  BY <1>2, <1>3
  <2>3. Texts(e.upto)' = Texts(e.upto) /\ Newest(e.upto)' = Newest(e.upto)
    BY <1>3, <2>1, <2>2, ExtendsKeeps
  <2>4. Texts(e.upto) \in SUBSET Nat  BY <1>3 DEF Texts
  <2> DEFINE todo == Texts(e.upto)
  <2>5. sync' = [pc |-> "read", upto |-> e.upto, todo |-> todo]  BY <1>1
  <2>6. todo # {} /\ todo \in SUBSET Nat  BY <1>2, <2>4
  <2> HIDE DEF todo
  <2>7. sync' \in Syncing /\ sync'.pc = "read" /\ sync'.upto = e.upto /\ sync'.todo = todo
    BY <1>3, <2>5, <2>6 DEF Syncing
  <2>8. Texts(sync.upto)' = todo  BY <2>3, <2>7 DEF todo
  <2>9. Newest(sync.upto)' = newest  BY <2>3, <2>7 DEF newest
  <2>10. newest <= chat'.newest  BY <1>3, <1>5, StoreAssumption DEF Chats
  <2>11. QED  BY <1>2, <2>1, <2>6, <2>7, <2>8, <2>9, <2>10 DEF SyncInv
<1>9. QED  BY <1>7, <1>8 DEF StoreInv

\* The statements between the first and the messages move only the phase.
LEMMA SyncStatement ==
  ASSUME StoreInv, sync.pc # "idle", NEW k \in {"timer", "store"}, sync' = [sync EXCEPT !.pc = k],
         chat' \in Chats, chat'.newest = chat.newest, TimerInv',
         UNCHANGED <<log, net, lost, row, origMsgTime, live, syncs, crashes>>
  PROVE  StoreInv'
<1>1. sync \in Syncing /\ sync.todo # {} /\ chat \in Chats  BY DEF StoreInv, SyncInv, RowInv
<1>2. chat'.newest >= chat.newest  BY <1>1, StoreAssumption DEF Chats
<1>3. LogInv' /\ NetInv' /\ RowInv' /\ LiveInv'  BY <1>2, ChatStatement
<1>4. /\ sync' \in Syncing /\ sync'.pc = k /\ sync'.upto = sync.upto /\ sync'.todo = sync.todo
  BY <1>1 DEF Syncing
<1>5. SyncInv'  BY <1>1, <1>2, <1>4, SyncGoesOn
<1>6. QED  BY <1>3, <1>5 DEF StoreInv

LEMMA SyncOf ==
  ASSUME StoreInv, sync.pc # "idle"
  PROVE  sync.upto \in 1..Now /\ Texts(sync.upto) # {} /\ chat \in Chats /\ RowInv
BY DEF StoreInv, SyncInv, RowInv

\* The message the sync stores next.
LEMMA SyncedForms ==
  ASSUME StoreInv, sync.pc = "store", NEW i \in sync.todo
  PROVE  /\ i \in 1..Now /\ i \in Texts(Now) /\ Entry("text", i) /\ log[i].msg \in Msgs /\ i \in 0..MaxTime
         /\ Newest(sync.upto) \in 0..MaxTime
<1>1. sync.upto \in 1..Now /\ Texts(sync.upto) # {}  BY SyncOf
<1>2. /\ LogInv /\ Newest(sync.upto) \in 0..MaxTime /\ Now \in Nat /\ MaxTime \in Nat /\ sync.upto \in Nat
  BY <1>1, SyncForms
<1>3. i \in Texts(sync.upto)  BY DEF StoreInv, SyncInv
<1>4. i \in 1..Now /\ Entry("text", i)  BY <1>1, <1>2, <1>3 DEF Texts
<1>5. log[i].msg \in Msgs  BY <1>2, <1>4, EntryForms DEF Entry
<1>6. i \in 0..MaxTime  BY <1>2, <1>4 DEF LogInv
<1>7. QED  BY <1>2, <1>4, <1>5, <1>6 DEF Texts

LEMMA SyncReadStep == StoreInv /\ SyncRead => StoreInv'
<1> SUFFICES ASSUME StoreInv, SyncRead PROVE StoreInv'
  OBVIOUS
<1> DEFINE newest == Newest(sync.upto)
<1>1. /\ sync.pc = "read" /\ (MarkChatRead(newest) \/ UNCHANGED chat)
      /\ sync' = [sync EXCEPT !.pc = "timer"]
      /\ UNCHANGED <<log, net, lost, row, origMsgTime, live, syncs, crashes>>
  BY DEF SyncRead
<1>2. sync.upto \in 1..Now /\ Texts(sync.upto) # {} /\ chat \in Chats /\ RowInv  BY <1>1, SyncOf
<1>3. newest \in 0..MaxTime  BY <1>2, SyncForms
<1> HIDE DEF newest
<1>4. /\ chat' \in Chats /\ chat'.newest = chat.newest
      /\ chat'.timer = chat.timer /\ chat'.stamp = chat.stamp
  BY <1>1, <1>2, <1>3, MarkChatReadDoes
<1>5. TimerInv'  BY <1>2, <1>4 DEF RowInv, TimerInv
<1>6. QED  BY <1>1, <1>4, <1>5, SyncStatement

LEMMA SyncTimerStep == StoreInv /\ SyncTimer => StoreInv'
<1> SUFFICES ASSUME StoreInv, SyncTimer PROVE StoreInv'
  OBVIOUS
<1> DEFINE timer == Timer(sync.upto)
<1>1. /\ sync.pc = "timer" /\ UpdateChatEphemeralSettings(timer, timer)
      /\ sync' = [sync EXCEPT !.pc = "store"]
      /\ UNCHANGED <<log, net, lost, row, origMsgTime, live, syncs, crashes>>
  BY DEF SyncTimer
<1>2. sync.upto \in 1..Now /\ Texts(sync.upto) # {} /\ chat \in Chats /\ RowInv  BY <1>1, SyncOf
<1>3. timer \in 0..MaxTime  BY <1>2, SyncForms
<1> HIDE DEF timer
<1>4. /\ chat' \in Chats /\ chat'.newest = chat.newest
      /\ IF timer # 0 /\ timer >= chat.stamp THEN chat'.timer = timer /\ chat'.stamp = timer
         ELSE chat'.timer = chat.timer /\ chat'.stamp = chat.stamp
  BY <1>1, <1>2, <1>3, UpdateDoes
<1>5. TimerInv'  BY <1>2, <1>4 DEF RowInv, TimerInv
<1>6. QED  BY <1>1, <1>4, <1>5, SyncStatement

LEMMA SyncMessageStep == StoreInv /\ SyncMessage => StoreInv'
<1> SUFFICES ASSUME StoreInv, SyncMessage PROVE StoreInv'
  OBVIOUS
<1> DEFINE newest == Newest(sync.upto)
<1>1. PICK i \in sync.todo :
        /\ StoreMessage(log[i].msg, i, newest)
        /\ sync' = IF sync.todo = {i} THEN NoSync ELSE [sync EXCEPT !.todo = @ \ {i}]
  BY DEF SyncMessage
<1>2. sync.pc = "store" /\ UNCHANGED <<log, net, lost, chat, origMsgTime, live, syncs, crashes>>
  BY DEF SyncMessage
<1>3. sync.upto \in 1..Now /\ Texts(sync.upto) # {} /\ chat \in Chats /\ RowInv  BY <1>2, SyncOf
<1>4. /\ LogInv /\ Now \in Nat /\ MaxTime \in Nat /\ sync.upto \in Nat
      /\ newest \in 0..MaxTime /\ newest \in 1..Now /\ \A j \in Texts(sync.upto) : j <= newest
  BY <1>3, SyncForms
<1>5. sync \in Syncing /\ sync.todo \subseteq Texts(sync.upto) /\ newest <= chat.newest
  BY <1>2 DEF StoreInv, SyncInv
<1> HIDE DEF newest
<1>6. i \in 1..Now /\ Entry("text", i) /\ i <= newest  BY <1>1, <1>3, <1>4, <1>5 DEF Texts
<1>7. log[i].msg \in Msgs  BY <1>4, <1>6, EntryForms DEF Entry
<1>8. row \in [Msgs -> Rows] /\ i \in 0..MaxTime /\ i <= chat.newest /\ i <= Now
  BY <1>3, <1>4, <1>5, <1>6, StoreAssumption DEF RowInv, Chats
<1>9. row' \in [Msgs -> Rows] /\ \A m \in Msgs : row'[m].time = row[m].time \/ row'[m].time = i
  BY <1>1, <1>4, <1>7, <1>8, StoreMessageDoes
<1>10. LogInv' /\ NetInv' /\ RowInv' /\ LiveInv'  BY <1>2, <1>8, <1>9, RowStatement
<1>11. SyncInv'
  <2>1. CASE sync.todo = {i}  BY <1>1, <2>1 DEF SyncInv, NoSync, Syncing
  <2>2. CASE sync.todo # {i}
    <3> DEFINE rest == sync.todo \ {i}
    <3>1. sync' = [sync EXCEPT !.todo = rest]  BY <1>1, <2>2
    <3>2. rest # {} /\ rest \subseteq sync.todo /\ rest \in SUBSET Nat  BY <1>1, <1>5, <2>2 DEF Syncing
    <3> HIDE DEF rest
    <3>3. sync' \in Syncing /\ sync'.pc = "store" /\ sync'.upto = sync.upto /\ sync'.todo = rest
      BY <1>2, <1>5, <3>1, <3>2 DEF Syncing
    <3>4. chat' \in Chats /\ chat'.newest >= chat.newest  BY <1>2, <1>3, StoreAssumption DEF Chats
    <3>5. QED  BY <1>2, <1>3, <3>2, <3>3, <3>4, SyncGoesOn
  <2>3. QED  BY <2>1, <2>2
<1>12. QED  BY <1>10, <1>11 DEF StoreInv

-----------------------------------------------------------------------------
LEMMA RestartStep == StoreInv /\ Restart => StoreInv'
<1> SUFFICES ASSUME StoreInv, Restart PROVE StoreInv'
  OBVIOUS
<1>1. LogInv /\ RowInv /\ LiveInv  BY DEF StoreInv
<1>2. /\ crashes < MaxCrashes /\ crashes' = crashes + 1 /\ net' \in {net, net \union Unacknowledged}
      /\ origMsgTime' = [i \in Times |-> 0] /\ live' = Idle /\ sync' = NoSync
      /\ UNCHANGED <<log, lost, row, chat, syncs>>
  BY DEF Restart, stored
<1>3. ASSUME NEW e \in Unacknowledged PROVE Deliverable(e)'
  <2>1. live.pc # "idle"
    BY <1>3 DEF Unacknowledged
  <2>2. e = [type |-> IF live.pc = "mark" THEN "receipt" ELSE "copy", of |-> live.of, at |-> live.at]
    BY <1>3, <2>1 DEF Unacknowledged
  <2>3. /\ live.of \in 1..Now /\ live.at \in live.of..Now /\ Now \in Nat /\ Now <= MaxTime /\ MaxTime \in Nat
    BY <2>1, LiveForms
  <2>4. live.of \in Times /\ live.at \in Times  BY <2>3 DEF Times
  <2>5. IF live.pc = "mark" THEN live.at = live.of /\ Entry("read", live.of) ELSE Carried(live.of)
    BY <2>1 DEF StoreInv, LiveInv
  <2>6. Deliverable(e)
    <3>1. CASE live.pc = "mark"
      <4>1. e = [type |-> "receipt", of |-> live.of, at |-> live.at]  BY <2>2, <3>1
      <4>2. e \in Stanzas /\ e.type = "receipt" /\ e.of = live.of /\ e.at = live.at
        BY <2>4, <4>1 DEF Stanzas
      <4>3. QED  BY <2>3, <2>5, <3>1, <4>2 DEF Deliverable
    <3>2. CASE live.pc # "mark"
      <4>1. e = [type |-> "copy", of |-> live.of, at |-> live.at]  BY <2>2, <3>2
      <4>2. e \in Stanzas /\ e.type = "copy" /\ e.of = live.of /\ e.at = live.at
        BY <2>4, <4>1 DEF Stanzas
      <4>3. QED  BY <2>3, <2>5, <3>2, <4>2 DEF Deliverable
    <3>3. QED  BY <3>1, <3>2
  <2>7. LogExtends  BY <1>1, <1>2, SameLog
  <2>8. QED  BY <1>1, <2>6, <2>7, DeliverableKept
<1>4. /\ origMsgTime' \in [Times -> 0..MaxTime] /\ syncs' \in 0..MaxSyncs /\ crashes' \in 0..MaxCrashes
  BY <1>1, <1>2, StoreAssumption DEF RowInv
<1>5. \A e \in net' : e \in net \/ Deliverable(e)'  BY <1>2, <1>3
<1>6. LogInv' /\ NetInv' /\ RowInv'  BY <1>2, <1>4, <1>5, NoStatement
<1>7. LiveInv' /\ SyncInv'  BY <1>2, FinishIsIdle DEF Finish, SyncInv, Syncing, NoSync
<1>8. QED  BY <1>6, <1>7 DEF StoreInv

LEMMA StoreStutter == StoreInv /\ UNCHANGED vars => StoreInv'
<1> SUFFICES ASSUME StoreInv, UNCHANGED vars PROVE StoreInv'
  OBVIOUS
<1>1. UNCHANGED <<log, net, lost, row, chat, origMsgTime, live, sync, syncs, crashes>>  BY DEF vars, stored
<1>2. /\ origMsgTime' \in [Times -> 0..MaxTime] /\ syncs' \in 0..MaxSyncs /\ crashes' \in 0..MaxCrashes
  BY <1>1 DEF StoreInv, RowInv
<1>3. LogInv' /\ NetInv' /\ RowInv' /\ LiveInv' /\ SyncInv'  BY <1>1, <1>2, NoStatement
<1>4. QED  BY <1>3 DEF StoreInv

LEMMA StoreStep == StoreInv /\ [Next]_vars => StoreInv'
<1> SUFFICES ASSUME StoreInv, [Next]_vars PROVE StoreInv'
  OBVIOUS
<1>1. CASE PhoneSyncs  BY <1>1, PhoneSyncsStep
<1>2. CASE \/ \E m \in Msgs : SomeoneWrites(m) \/ SomeoneRevokes(m)
           \/ SomeoneSetsTimer \/ \E i \in Times : OwnerReads(i) \/ Resend(i)
  <2>1. LogInv /\ NetInv  BY DEF StoreInv
  <2>2. PICK e : Sends(e)  BY <1>2, <2>1, WorldSends
  <2>3. QED  BY <2>2, SendsStep
<1>3. CASE Handle
  BY <1>3, UndecryptableStep, ReceiveStep, ReceiveReceiptStep, ReceiveChatStep, ReceiveTimerStep,
     ReceiveRevokeStep, ReceiveContextStep, ReceiveTextStep, MarkReadStep DEF Handle
<1>4. CASE Sync
  BY <1>4, SyncChatStep, SyncReadStep, SyncTimerStep, SyncMessageStep DEF Sync
<1>5. CASE Restart  BY <1>5, RestartStep
<1>6. CASE UNCHANGED vars  BY <1>6, StoreStutter
<1>7. QED  BY <1>1, <1>2, <1>3, <1>4, <1>5, <1>6 DEF Next, World

\* The strengthening of every property below: what is on its way or being
\* handled is in the log, and the chat is ahead of its messages.
THEOREM StoreInvariance == Spec => []StoreInv
<1>1. QED  BY StoreInit, StoreStep, PTL DEF Spec

\* The chat is never older than a message stored in it: StoreChat runs before
\* StoreMessage in handleMessage and in handleHistorySync, and keeps the later.
THEOREM ChatCoversMessages == Spec => []NewestCovers
<1>1. StoreInv => NewestCovers  BY DEF StoreInv, RowInv
<1>2. QED  BY StoreInvariance, <1>1, PTL

\* Every variable has its type, and what is being handled is in the log.
THEOREM StoreTypes == Spec => []TypeOK
<1>1. ASSUME StoreInv PROVE TypeOK
  <2>1. LogInv /\ NetInv /\ RowInv /\ LiveInv /\ SyncInv  BY <1>1 DEF StoreInv
  <2>2. Now \in Nat /\ MaxTime \in Nat /\ Now <= MaxTime  BY <2>1, StoreAssumption DEF LogInv, Now
  <2>3. net \subseteq Stanzas \union Snapshots /\ \A e \in net : e.type = "snapshot" \/ e.at <= Now
    <3>1. \A e \in net : Deliverable(e)  BY <2>1 DEF NetInv
    <3>2. \A e \in net : e \in Stanzas \union Snapshots  BY <3>1 DEF Deliverable
    <3>3. \A e \in net : e.type = "snapshot" \/ (e.of \in 1..Now /\ e.at \in e.of..Now)
      BY <3>1 DEF Deliverable
    <3>4. QED  BY <2>2, <3>2, <3>3
  <2>4. live \in [pc : {"idle", "chat", "mark", "store"} \union Kinds, of : 0..Now, at : 0..Now, time : 0..Now]
    <3>1. live \in Handling  BY <2>1 DEF LiveInv
    <3>2. live.of \in 0..Now /\ live.at \in 0..Now /\ live.time \in 0..Now
      BY <2>1, <2>2, <3>1 DEF LiveInv, Handling, Idle
    <3>3. QED  BY <3>1, <3>2 DEF Handling, Kinds
  <2>5. /\ sync \in [pc : {"idle", "read", "timer", "store"}, upto : 0..Now, todo : SUBSET Times]
        /\ sync.pc # "idle" <=> sync.todo # {}
    <3>1. CASE sync.pc = "idle"  BY <2>1, <2>2, <3>1 DEF SyncInv, NoSync
    <3>2. CASE sync.pc # "idle"
      <4>1. sync \in Syncing /\ sync.upto \in 1..Now /\ sync.todo # {} /\ sync.todo \subseteq Texts(sync.upto)
        BY <2>1, <3>2 DEF SyncInv
      <4>2. Texts(sync.upto) \in SUBSET Times  BY <2>2, <4>1 DEF Texts, Times
      <4>3. sync.upto \in 0..Now /\ sync.todo \in SUBSET Times  BY <2>2, <4>1, <4>2
      <4>4. QED  BY <3>2, <4>1, <4>3 DEF Syncing
    <3>3. QED  BY <3>1, <3>2
  <2>6. lost \subseteq 1..Now  BY <2>1 DEF NetInv
  <2>7. QED  BY <2>1, <2>3, <2>4, <2>5, <2>6 DEF TypeOK, LogInv, RowInv, Entries, Rows, Chats
<1>2. QED  BY StoreInvariance, <1>1, PTL

\* A step runs at most one statement of the store.  With its stamp a timer is
\* stamped with its own time; the marker moves to the time a receipt was taken
\* for or to a message another device has seen.
OneStatement ==
  \/ UNCHANGED <<row, chat>>
  \/ UNCHANGED row /\ \E t \in 0..MaxTime : StoreChat(t)
  \/ UNCHANGED row /\ \E t \in 0..MaxTime :
       /\ MarkChatRead(t)
       /\ (live.pc = "mark" /\ t = live.time) \/ (t \in Texts(Now) /\ Seen(t, Now))
  \/ UNCHANGED row /\ \E t, s \in 0..MaxTime :
       /\ UpdateChatEphemeralSettings(t, s) /\ (Stamped => s = t)
       /\ t = 0 \/ (t \in 1..Now /\ Entry("timer", t))
  \/ UNCHANGED chat /\ \E m \in Msgs, t \in 0..MaxTime : MarkMessageDeleted(m, t)
  \/ UNCHANGED chat /\ \E m \in Msgs, t, f \in 0..MaxTime : t # 0 /\ StoreMessage(m, t, f)

LEMMA StatementOfStep == StoreInv /\ [Next]_vars => OneStatement
<1> SUFFICES ASSUME StoreInv, [Next]_vars PROVE OneStatement
  OBVIOUS
<1>1. LogInv /\ RowInv /\ NetInv /\ SyncInv  BY DEF StoreInv
<1>2. CASE World \/ Restart \/ UNCHANGED vars \/ \E e \in net : Undecryptable(e) \/ Receive(e) \/ ReceiveReceipt(e)
  BY <1>2 DEF World, SomeoneWrites, SomeoneRevokes, SomeoneSetsTimer, PhoneSyncs, OwnerReads, Resend, Happens,
     Restart, vars, stored, Undecryptable, Receive, ReceiveReceipt, OneStatement
<1>3. CASE ReceiveChat
  <2>1. live.time \in 0..MaxTime  BY <1>3, LiveForms DEF ReceiveChat
  <2>2. QED  BY <1>3, <2>1 DEF ReceiveChat, OneStatement
<1>4. CASE ReceiveTimer
  <2> DEFINE s == IF Stamped THEN live.of ELSE live.at
  <2>1. live.of \in 0..MaxTime /\ live.at \in 0..MaxTime  BY <1>4, LiveForms DEF ReceiveTimer
  <2>2. s \in 0..MaxTime /\ (Stamped => s = live.of)  BY <2>1
  <2>3. live.pc = "timer" /\ UNCHANGED row /\ UpdateChatEphemeralSettings(live.of, s)  BY <1>4 DEF ReceiveTimer
  <2>4. Entry("timer", live.of) /\ live.of \in 1..Now  BY <2>3 DEF StoreInv, LiveInv
  <2> HIDE DEF s
  <2>5. QED  BY <2>1, <2>2, <2>3, <2>4 DEF OneStatement
<1>5. CASE ReceiveRevoke
  <2>1. live.pc = "revoke" /\ live.of \in 1..Now /\ live.at \in 0..MaxTime  BY <1>5, LiveForms DEF ReceiveRevoke
  <2>2. Entry("revoke", live.of)  BY <2>1 DEF StoreInv, LiveInv
  <2>3. log[live.of].msg \in Msgs  BY <1>1, <2>1, <2>2, EntryForms DEF Entry
  <2>4. QED  BY <1>5, <2>1, <2>3 DEF ReceiveRevoke, OneStatement
<1>6. CASE ReceiveContext
  <2> DEFINE timer == Timer(live.of)
  <2>1. live.of \in 0..Now /\ Now \in Nat /\ MaxTime \in Nat /\ Now <= MaxTime
    BY <1>6, LiveForms DEF ReceiveContext
  <2>2. timer \in 0..live.of /\ (timer # 0 => Entry("timer", timer))  BY <1>1, <2>1, TimerIsLast
  <2>3. UNCHANGED row /\ UpdateChatEphemeralSettings(timer, timer)  BY <1>6 DEF ReceiveContext
  <2> HIDE DEF timer
  <2>4. timer \in 0..MaxTime /\ (timer = 0 \/ timer \in 1..Now)  BY <2>1, <2>2
  <2>5. timer = 0 \/ (timer \in 1..Now /\ Entry("timer", timer))  BY <2>2, <2>4
  <2>6. \E t, s \in 0..MaxTime :
         /\ UpdateChatEphemeralSettings(t, s) /\ (Stamped => s = t)
         /\ t = 0 \/ (t \in 1..Now /\ Entry("timer", t))
    BY <2>3, <2>4, <2>5
  <2>7. QED  BY <2>3, <2>6 DEF OneStatement
<1>7. CASE ReceiveText
  <2>1. live.pc = "store" /\ live.of \in 1..Now /\ live.time \in 0..MaxTime /\ live.time # 0
    BY <1>7, LiveForms DEF ReceiveText
  <2>2. Entry("text", live.of)  BY <2>1 DEF StoreInv, LiveInv
  <2>3. log[live.of].msg \in Msgs  BY <1>1, <2>1, <2>2, EntryForms DEF Entry
  <2>4. QED  BY <1>7, <2>1, <2>3 DEF ReceiveText, OneStatement
<1>8. CASE MarkRead
  <2>1. live.time \in 0..MaxTime  BY <1>8, LiveForms DEF MarkRead
  <2>2. live.pc = "mark" /\ UNCHANGED row /\ MarkChatRead(live.time)  BY <1>8 DEF MarkRead
  <2>3. \E t \in 0..MaxTime : MarkChatRead(t) /\ live.pc = "mark" /\ t = live.time  BY <2>1, <2>2
  <2>4. QED  BY <2>2, <2>3 DEF OneStatement
<1>9. ASSUME NEW e \in net, SyncChat(e) PROVE OneStatement
  <2>1. e.upto \in 1..Now /\ Texts(e.upto) # {}  BY <1>1, <1>9 DEF SyncChat, NetInv, Deliverable
  <2>2. Newest(e.upto) \in 0..MaxTime  BY <2>1, SyncForms
  <2>3. QED  BY <1>9, <2>2 DEF SyncChat, OneStatement
<1>10. CASE SyncRead
  <2> DEFINE newest == Newest(sync.upto)
  <2>1. sync.upto \in 1..Now /\ Texts(sync.upto) # {}  BY <1>10, SyncOf DEF SyncRead
  <2>2. newest \in 0..MaxTime /\ newest \in Texts(sync.upto) /\ Now \in Nat /\ sync.upto \in Nat
    BY <2>1, SyncForms
  <2>3. Texts(sync.upto) \subseteq Texts(Now) /\ Reads(sync.upto) \subseteq Reads(Now)
    BY <2>1, <2>2 DEF Texts, Reads
  <2>4. /\ UNCHANGED row
        /\ (MarkChatRead(newest) /\ \A i \in Texts(sync.upto) : Seen(i, sync.upto)) \/ UNCHANGED chat
    BY <1>10 DEF SyncRead
  <2> HIDE DEF newest
  <2>5. CASE UNCHANGED chat  BY <2>4, <2>5 DEF OneStatement
  <2>6. CASE MarkChatRead(newest) /\ \A i \in Texts(sync.upto) : Seen(i, sync.upto)
    <3>1. newest \in Texts(Now) /\ Seen(newest, Now)  BY <2>2, <2>3, <2>6 DEF Seen
    <3>2. QED  BY <2>2, <2>4, <2>6, <3>1 DEF OneStatement
  <2>7. QED  BY <2>4, <2>5, <2>6
<1>11. CASE SyncTimer
  <2> DEFINE timer == Timer(sync.upto)
  <2>1. sync.upto \in 1..Now /\ Texts(sync.upto) # {}  BY <1>11, SyncOf DEF SyncTimer
  <2>2. timer \in 0..MaxTime /\ Now \in Nat /\ sync.upto \in 0..Now  BY <2>1, SyncForms
  <2>3. timer \in 0..sync.upto /\ (timer # 0 => Entry("timer", timer))  BY <1>1, <2>2, TimerIsLast
  <2>4. UNCHANGED row /\ UpdateChatEphemeralSettings(timer, timer)  BY <1>11 DEF SyncTimer
  <2> HIDE DEF timer
  <2>5. timer = 0 \/ (timer \in 1..Now /\ Entry("timer", timer))  BY <2>2, <2>3
  <2>6. \E t, s \in 0..MaxTime :
         /\ UpdateChatEphemeralSettings(t, s) /\ (Stamped => s = t)
         /\ t = 0 \/ (t \in 1..Now /\ Entry("timer", t))
    BY <2>2, <2>4, <2>5
  <2>7. QED  BY <2>4, <2>6 DEF OneStatement
<1>12. CASE SyncMessage
  <2>1. sync.pc = "store" /\ UNCHANGED chat  BY <1>12 DEF SyncMessage
  <2>2. PICK i \in sync.todo : StoreMessage(log[i].msg, i, Newest(sync.upto))  BY <1>12 DEF SyncMessage
  <2>3. log[i].msg \in Msgs /\ i \in 0..MaxTime /\ Newest(sync.upto) \in 0..MaxTime
    BY <2>1, <2>2, SyncedForms
  <2>4. i # 0  BY <2>1, <2>2, SyncedForms
  <2>5. QED  BY <2>1, <2>2, <2>3, <2>4 DEF OneStatement
<1>13. QED
  BY <1>2, <1>3, <1>4, <1>5, <1>6, <1>7, <1>8, <1>9, <1>10, <1>11, <1>12 DEF Next, Handle, Sync

\* What is stored stays stored, and stays as new as it was.
Forward ==
  /\ chat'.newest >= chat.newest
  /\ chat'.read >= chat.read
  /\ Stamped => chat'.timer >= chat.timer
  /\ \A m \in Msgs : /\ row[m].deleted # 0 => row'[m].deleted = row[m].deleted
                     /\ row[m].time # 0 => row'[m].time # 0

LEMMA StepForward == StoreInv /\ [Next]_vars => Forward
<1> SUFFICES ASSUME StoreInv, [Next]_vars PROVE Forward
  OBVIOUS
<1> USE DEF Forward
<1>1. RowInv /\ OneStatement  BY StatementOfStep DEF StoreInv
<1>2. row \in [Msgs -> Rows] /\ chat \in Chats /\ TimerInv  BY <1>1 DEF RowInv
<1>3. chat.newest \in Nat /\ chat.read \in Nat /\ chat.timer \in Nat /\ chat.stamp \in Nat
  BY <1>2, StoreAssumption DEF Chats
<1>4. CASE UNCHANGED <<row, chat>>  BY <1>3, <1>4
<1>5. ASSUME UNCHANGED row, NEW t \in 0..MaxTime, StoreChat(t) PROVE Forward
  <2>1. chat'.newest >= chat.newest /\ chat'.read = chat.read /\ chat'.timer = chat.timer
    BY <1>2, <1>5, StoreChatDoes
  <2>2. QED  BY <1>3, <1>5, <2>1
<1>6. ASSUME UNCHANGED row, NEW t \in 0..MaxTime, MarkChatRead(t) PROVE Forward
  <2>1. chat'.newest = chat.newest /\ chat'.read >= chat.read /\ chat'.timer = chat.timer
    BY <1>2, <1>6, MarkChatReadDoes
  <2>2. QED  BY <1>3, <1>6, <2>1
<1>7. ASSUME UNCHANGED row, NEW t \in 0..MaxTime, NEW s \in 0..MaxTime, Stamped => s = t,
             UpdateChatEphemeralSettings(t, s)
      PROVE  Forward
  <2>1. /\ chat'.newest = chat.newest /\ chat'.read = chat.read
        /\ IF s # 0 /\ s >= chat.stamp THEN chat'.timer = t /\ chat'.stamp = s
           ELSE chat'.timer = chat.timer /\ chat'.stamp = chat.stamp
    BY <1>2, <1>7, UpdateDoes
  <2>2. Stamped => chat'.timer >= chat.timer  BY <1>2, <1>3, <1>7, <2>1 DEF TimerInv
  <2>3. QED  BY <1>3, <1>7, <2>1, <2>2
<1>8. ASSUME UNCHANGED chat, NEW m \in Msgs, NEW t \in 0..MaxTime, MarkMessageDeleted(m, t) PROVE Forward
  <2>1. \A n \in Msgs : /\ row[n].deleted # 0 => row'[n].deleted = row[n].deleted
                        /\ row'[n].time = row[n].time
    BY <1>2, <1>8, MarkDeletedDoes
  <2>2. QED  BY <1>3, <1>8, <2>1
<1>9. ASSUME UNCHANGED chat, NEW m \in Msgs, NEW t \in 0..MaxTime, NEW f \in 0..MaxTime, t # 0,
             StoreMessage(m, t, f)
      PROVE  Forward
  <2>1. \A n \in Msgs : /\ row'[n].deleted = row[n].deleted
                        /\ row'[n].time \in {t, row[n].time}
    BY <1>2, <1>9, StoreMessageDoes
  <2>2. QED  BY <1>3, <1>9, <2>1
<1>10. QED  BY <1>1, <1>4, <1>5, <1>6, <1>7, <1>8, <1>9 DEF OneStatement

\* Whatever the order of deliveries, syncs and restarts, no statement moves the
\* newest message, the read marker or a stamped timer backwards (StoreChat's
\* MAX, the guards of MarkChatRead and UpdateChatEphemeralSettings), and
\* neither a later revoke nor a later copy of a message changes deleted_at.
THEOREM NothingIsTakenBack == Spec => NothingGoesBack
<1> DEFINE Part ==
      /\ chat'.newest >= chat.newest
      /\ chat'.read >= chat.read
      /\ Stamped => chat'.timer >= chat.timer
      /\ \A m \in Msgs : row[m].deleted # 0 => row'[m].deleted = row[m].deleted
<1>1. ASSUME StoreInv, [Next]_vars PROVE [Part]_vars
  <2>1. Forward  BY <1>1, StepForward
  <2>2. \A m \in Msgs : row[m].deleted # 0 => row'[m].deleted = row[m].deleted  BY <2>1 DEF Forward
  <2>3. chat'.newest >= chat.newest /\ chat'.read >= chat.read /\ (Stamped => chat'.timer >= chat.timer)
    BY <2>1 DEF Forward
  <2>4. QED  BY <2>2, <2>3
<1> HIDE DEF Part
<1>2. Spec => [][Part]_vars  BY StoreInvariance, <1>1, PTL DEF Spec
<1>3. QED  BY <1>2 DEF NothingGoesBack, Part

-----------------------------------------------------------------------------
(* Until the bridge stops *)

Deliveries == {e \in net : e.type \in {"first", "copy"}}
Handled(i) == live.of = i /\ live.pc \notin {"idle", "mark"}
Pending(i) == i \in lost \/ Handled(i) \/ \E e \in Deliveries : e.of = i

\* An entry is on its way once, or is asked for.
OneToken ==
  /\ \A e, f \in Deliveries : e.of = f.of => e = f
  /\ \A e \in Deliveries : e.of \notin lost

\* A copy that comes late finds the send time in the map.
SentTimes ==
  /\ \A i \in Times : origMsgTime[i] \in {0, i}
  /\ \A i \in lost : origMsgTime[i] = i
  /\ \A e \in Deliveries : e.at = e.of \/ origMsgTime[e.of] = e.of

RightTimes ==
  /\ live.pc \in {"idle", "mark"} \/ live.time = live.of
  /\ \A m \in Msgs : row[m].time = 0 \/ (row[m].time \in Texts(Now) /\ log[row[m].time].msg = m)

TextsCome == \A i \in Texts(Now) : Pending(i) \/ row[log[i].msg].time = i
TimersCome ==
  Stamped => /\ \A i \in 1..Now : Entry("timer", i) => Pending(i) \/ i <= chat.timer
             /\ chat.timer = 0 \/ (chat.timer \in 1..Now /\ Entry("timer", chat.timer))

ReadTime(t) == t \in Reads(Now) \/ (t \in Texts(Now) /\ Seen(t, Now))
MarkerInv ==
  /\ chat.read = 0 \/ ReadTime(chat.read)
  /\ live.pc = "mark" => ReadTime(live.time)

RunInv == OneToken /\ SentTimes /\ RightTimes /\ TextsCome /\ TimersCome /\ MarkerInv
FirstRun == crashes = 0 => RunInv

LEMMA DeliveryForms ==
  ASSUME StoreInv, NEW e \in Deliveries
  PROVE  /\ e \in net /\ e.of \in Times /\ e.at \in Times /\ e.of \in 1..Now
         /\ e.at \in Nat /\ e.of \in Nat /\ e.of # 0 /\ e.of <= e.at
<1>1. e \in net /\ e.type \in {"first", "copy"}  BY DEF Deliveries
<1>2. e \in Stanzas /\ e.of \in 1..Now /\ e.at \in e.of..Now
  BY <1>1 DEF StoreInv, NetInv, Deliverable
<1>3. e.of \in Times /\ e.at \in Times  BY <1>2 DEF Stanzas
<1>4. QED  BY <1>1, <1>2, <1>3 DEF Times

\* A step is taken by WhatsApp, by one of the two handlers, or not at all.
OneStep == (\E e : Sends(e)) \/ PhoneSyncs \/ Handle \/ Sync \/ UNCHANGED vars

LEMMA StepForms ==
  ASSUME StoreInv, [Next]_vars, crashes' = 0
  PROVE  OneStep /\ crashes = 0
<1>1. LogInv /\ NetInv /\ crashes \in Nat  BY StoreAssumption DEF StoreInv, RowInv
<1>2. ~Restart  BY <1>1 DEF Restart
<1>3. OneStep
  <2>1. CASE World
    <3>1. CASE PhoneSyncs  BY <3>1 DEF OneStep
    <3>2. CASE \/ \E m \in Msgs : SomeoneWrites(m) \/ SomeoneRevokes(m)
               \/ SomeoneSetsTimer \/ \E i \in Times : OwnerReads(i) \/ Resend(i)
      <4>1. \E e : Sends(e)  BY <1>1, <3>2, WorldSends
      <4>2. QED  BY <4>1 DEF OneStep
    <3>3. QED  BY <2>1, <3>1, <3>2 DEF World
  <2>2. CASE Handle \/ Sync \/ UNCHANGED vars  BY <2>2 DEF OneStep
  <2>3. QED  BY <1>2, <2>1, <2>2 DEF Next
<1>4. crashes' = crashes
  <2>1. CASE (\E e : Sends(e)) \/ PhoneSyncs \/ UNCHANGED vars  BY <2>1 DEF Sends, PhoneSyncs, vars
  <2>2. CASE Handle
    BY <2>2 DEF Handle, Undecryptable, Receive, ReceiveReceipt, ReceiveChat, ReceiveTimer, ReceiveRevoke,
       ReceiveContext, ReceiveText, MarkRead
  <2>3. CASE Sync  BY <2>3 DEF Sync, SyncChat, SyncRead, SyncTimer, SyncMessage
  <2>4. QED  BY <1>3, <2>1, <2>2, <2>3 DEF OneStep
<1>5. QED  BY <1>3, <1>4

LEMMA TokensKept ==
  ASSUME OneToken, SentTimes, \A e \in net' : e \in net \/ e.type \notin {"first", "copy"},
         lost' = lost, origMsgTime' = origMsgTime
  PROVE  OneToken' /\ SentTimes'
<1>1. \A e \in Deliveries' : e \in Deliveries  BY DEF Deliveries
<1>2. OneToken'  BY <1>1 DEF OneToken
<1>3. SentTimes'  BY <1>1 DEF SentTimes
<1>4. QED  BY <1>2, <1>3

LEMMA TokenStep ==
  ASSUME StoreInv, OneToken, SentTimes, OneStep
  PROVE  OneToken' /\ SentTimes'
<1>1. LogInv /\ NetInv /\ Now \in Nat /\ origMsgTime \in [Times -> 0..MaxTime]
  BY DEF StoreInv, LogInv, RowInv, Now
<1>2. ASSUME NEW e, Sends(e) PROVE OneToken' /\ SentTimes'
  <2>1. Sensible(e) /\ log' = Append(log, e) /\ origMsgTime' = origMsgTime  BY <1>2 DEF Sends
  <2>2. Now' = Now + 1  BY <1>1, <2>1, LogStep
  <2>3. PICK x : /\ net' = net \union {x} /\ x \in Stanzas /\ x.at = Now'
                 /\ \/ /\ x.type \in {"first", "copy"} /\ x.of = Now' /\ lost' = lost
                    \/ x.type = "receipt" /\ lost' = lost
                    \/ /\ x.type \in {"first", "copy"} /\ x.of \in lost /\ lost' = lost \ {x.of}
    BY <1>2 DEF Sends
  <2>4. CASE x.type = "receipt" /\ lost' = lost  BY <2>1, <2>3, <2>4, TokensKept
  <2>5. CASE x.type \in {"first", "copy"}
    <3>1. Deliveries' = Deliveries \union {x}  BY <2>3, <2>5 DEF Deliveries
    <3>2. \A f \in Deliveries : f.of # x.of
      <4>1. CASE x.of = Now'  BY <1>1, <2>2, <4>1, DeliveryForms
      <4>2. CASE x.of \in lost  BY <4>2 DEF OneToken
      <4>3. QED  BY <2>3, <2>5, <4>1, <4>2
    <3>3. x.of \notin lost' /\ lost' \subseteq lost
      <4>1. \A i \in lost : i # Now'  BY <1>1, <2>2 DEF NetInv
      <4>2. QED  BY <2>3, <2>5, <4>1
    <3>4. x.at = x.of \/ origMsgTime[x.of] = x.of  BY <2>3, <2>5 DEF SentTimes
    <3>5. OneToken'  BY <3>1, <3>2, <3>3 DEF OneToken
    <3>6. SentTimes'  BY <2>1, <3>1, <3>3, <3>4 DEF SentTimes
    <3>7. QED  BY <3>5, <3>6
  <2>6. QED  BY <2>3, <2>4, <2>5
<1>3. CASE PhoneSyncs
  <2>1. /\ net' = net \union {[type |-> "snapshot", upto |-> Now]}
        /\ lost' = lost /\ origMsgTime' = origMsgTime
    BY <1>3 DEF PhoneSyncs
  <2>2. \A e \in net' : e \in net \/ e.type \notin {"first", "copy"}  BY <2>1
  <2>3. QED  BY <2>1, <2>2, TokensKept
<1>4. ASSUME NEW e \in net, Undecryptable(e) PROVE OneToken' /\ SentTimes'
  <2> DEFINE old == origMsgTime[e.of]
             new == IF old = 0 \/ e.at < old THEN e.at ELSE old
  <2>1. /\ e \in Deliveries /\ net' = net \ {e} /\ lost' = lost \union {e.of}
        /\ origMsgTime' = [origMsgTime EXCEPT ![e.of] = new]
    BY <1>4 DEF Undecryptable, Deliveries
  <2>2. /\ e.of \in Times /\ e.at \in Nat /\ e.of \in Nat /\ e.of # 0 /\ e.of <= e.at
        /\ (e.at = e.of \/ old = e.of)
    BY <2>1, DeliveryForms DEF SentTimes
  <2>3. old \in {0, e.of}  BY <2>2 DEF SentTimes
  <2>4. new = e.of  BY <2>2, <2>3
  <2> HIDE DEF new
  <2>5. origMsgTime'[e.of] = e.of /\ \A i \in Times \ {e.of} : origMsgTime'[i] = origMsgTime[i]
    BY <1>1, <2>1, <2>2, <2>4
  <2>6. \A f \in Deliveries' : f \in Deliveries /\ f.of # e.of
    BY <2>1 DEF Deliveries, OneToken
  <2>7. \A f \in Deliveries' : f.of \in Times  BY <2>6, DeliveryForms
  <2>8. \A i \in lost : i \in Times
    <3>1. \A i \in lost : i \in 1..Now  BY <1>1 DEF NetInv
    <3>2. QED  BY <1>1, <3>1, StoreAssumption DEF LogInv, Times
  <2>9. OneToken'  BY <2>1, <2>6 DEF OneToken
  <2>10. SentTimes'
    <3>1. \A i \in Times : origMsgTime'[i] \in {0, i}  BY <2>5 DEF SentTimes
    <3>2. \A i \in lost' : origMsgTime'[i] = i  BY <2>1, <2>5, <2>8 DEF SentTimes
    <3>3. \A f \in Deliveries' : f.at = f.of \/ origMsgTime'[f.of] = f.of
      BY <2>5, <2>6, <2>7 DEF SentTimes
    <3>4. QED  BY <3>1, <3>2, <3>3 DEF SentTimes
  <2>11. QED  BY <2>9, <2>10
<1>5. ASSUME NEW e \in net, Receive(e) PROVE OneToken' /\ SentTimes'
  <2>1. /\ e \in Deliveries /\ net' = net \ {e} /\ lost' = lost
        /\ origMsgTime' = [origMsgTime EXCEPT ![e.of] = 0]
    BY <1>5 DEF Receive, Deliveries
  <2>2. e.of \in Times /\ e.of \notin lost  BY <2>1, DeliveryForms DEF OneToken
  <2>3. origMsgTime'[e.of] = 0 /\ \A i \in Times \ {e.of} : origMsgTime'[i] = origMsgTime[i]
    BY <1>1, <2>1, <2>2
  <2>4. \A f \in Deliveries' : f \in Deliveries /\ f.of # e.of
    BY <2>1 DEF Deliveries, OneToken
  <2>5. \A f \in Deliveries' : f.of \in Times  BY <2>4, DeliveryForms
  <2>6. \A i \in lost : i \in Times
    <3>1. \A i \in lost : i \in 1..Now  BY <1>1 DEF NetInv
    <3>2. QED  BY <1>1, <3>1, StoreAssumption DEF LogInv, Times
  <2>7. OneToken'  BY <2>1, <2>4 DEF OneToken
  <2>8. SentTimes'
    <3>1. \A i \in Times : origMsgTime'[i] \in {0, i}  BY <2>3 DEF SentTimes
    <3>2. \A i \in lost' : origMsgTime'[i] = i  BY <2>1, <2>2, <2>3, <2>6 DEF SentTimes
    <3>3. \A f \in Deliveries' : f.at = f.of \/ origMsgTime'[f.of] = f.of
      BY <2>3, <2>4, <2>5 DEF SentTimes
    <3>4. QED  BY <3>1, <3>2, <3>3 DEF SentTimes
  <2>9. QED  BY <2>7, <2>8
<1>6. ASSUME net' \subseteq net, lost' = lost, origMsgTime' = origMsgTime
      PROVE  OneToken' /\ SentTimes'
  BY <1>6, TokensKept
<1>7. CASE Handle
  <2>1. CASE \E e \in net : Undecryptable(e) \/ Receive(e)  BY <1>4, <1>5, <2>1
  <2>2. CASE \E e \in net : ReceiveReceipt(e)  BY <1>6, <2>2 DEF ReceiveReceipt
  <2>3. CASE ReceiveChat \/ ReceiveTimer \/ ReceiveRevoke \/ ReceiveContext \/ ReceiveText \/ MarkRead
    BY <1>6, <2>3 DEF ReceiveChat, ReceiveTimer, ReceiveRevoke, ReceiveContext, ReceiveText, MarkRead
  <2>4. QED  BY <1>7, <2>1, <2>2, <2>3 DEF Handle
<1>8. CASE Sync  BY <1>6, <1>8 DEF Sync, SyncChat, SyncRead, SyncTimer, SyncMessage
<1>9. CASE UNCHANGED vars  BY <1>6, <1>9 DEF vars
<1>10. QED  BY <1>2, <1>3, <1>7, <1>8, <1>9 DEF OneStep

LEMMA TimesKept ==
  ASSUME StoreInv, RightTimes, LogExtends,
         live'.pc \in {"idle", "mark"} \/ live'.time = live'.of,
         \A m \in Msgs : row'[m].time = row[m].time
                         \/ (row'[m].time \in Texts(Now)' /\ log'[row'[m].time].msg = m)
  PROVE  RightTimes'
<1>1. LogInv  BY DEF StoreInv
<1>2. Texts(Now) \subseteq Texts(Now)'  BY <1>1, ExtendsKeeps
<1>3. \A i \in Texts(Now) : log'[i] = log[i]  BY DEF LogExtends, Texts
<1>4. QED  BY <1>2, <1>3 DEF RightTimes

LEMMA TimesStep ==
  ASSUME StoreInv, OneToken, SentTimes, RightTimes, OneStep
  PROVE  RightTimes'
<1>1. LogInv /\ RowInv /\ Now \in Nat /\ row \in [Msgs -> Rows]
  BY DEF StoreInv, LogInv, RowInv, Now
<1>2. ASSUME log' = log PROVE LogExtends /\ Now' = Now /\ Texts(Now)' = Texts(Now)
  BY <1>1, <1>2, SameLog DEF Texts, Entry
<1>3. ASSUME UNCHANGED <<log, row>>, live'.pc \in {"idle", "mark"} \/ live'.time = live'.of
      PROVE  RightTimes'
  BY <1>2, <1>3, TimesKept
<1>4. ASSUME UNCHANGED live
      PROVE  live'.pc \in {"idle", "mark"} \/ live'.time = live'.of
  BY <1>4 DEF RightTimes
<1>5. ASSUME NEW e, Sends(e) PROVE RightTimes'
  <2>1. Sensible(e) /\ log' = Append(log, e) /\ UNCHANGED <<row, live>>  BY <1>5 DEF Sends, stored
  <2>2. LogExtends  BY <1>1, <2>1, LogStep
  <2>3. QED  BY <1>4, <2>1, <2>2, TimesKept
<1>6. ASSUME NEW e \in net, Receive(e) PROVE RightTimes'
  <2> DEFINE orig == origMsgTime[e.of]
             time == IF orig # 0 /\ orig < e.at THEN orig ELSE e.at
  <2>1. /\ e \in Deliveries /\ live' = [pc |-> "chat", of |-> e.of, at |-> e.at, time |-> time]
        /\ UNCHANGED <<log, row>>
    BY <1>6 DEF Receive, Deliveries, stored
  <2>2. /\ e.of \in Times /\ e.at \in Nat /\ e.of \in Nat /\ e.of # 0 /\ e.of <= e.at
        /\ (e.at = e.of \/ orig = e.of)
    BY <2>1, DeliveryForms DEF SentTimes
  <2>3. orig \in {0, e.of}  BY <2>2 DEF SentTimes
  <2>4. time = e.of  BY <2>2, <2>3
  <2>5. live'.time = live'.of  BY <2>1, <2>4
  <2>6. QED  BY <1>3, <2>1, <2>5
<1>7. CASE ReceiveText
  <2>1. /\ live.pc = "store" /\ StoreMessage(log[live.of].msg, live.time, live.time)
        /\ live' = Idle /\ log' = log
    BY <1>7 DEF ReceiveText, Finish
  <2>2. live.time = live.of  BY <2>1 DEF RightTimes
  <2>3. live.of \in 1..Now /\ live.time \in 0..MaxTime  BY <2>1, LiveForms
  <2>4. Entry("text", live.of)  BY <2>1 DEF StoreInv, LiveInv
  <2>5. live.of \in Texts(Now)  BY <2>3, <2>4 DEF Texts
  <2>6. log[live.of].msg \in Msgs  BY <1>1, <2>3, <2>4, EntryForms DEF Entry
  <2>7. \A m \in Msgs : row'[m].time = row[m].time \/ (row'[m].time = live.of /\ log[live.of].msg = m)
    BY <1>1, <2>1, <2>2, <2>3, <2>6, StoreMessageDoes
  <2>8. \A m \in Msgs : row'[m].time = row[m].time
                        \/ (row'[m].time \in Texts(Now)' /\ log'[row'[m].time].msg = m)
    BY <1>2, <2>1, <2>5, <2>7
  <2>9. QED  BY <1>2, <2>1, <2>8, TimesKept DEF Idle
<1>8. CASE SyncMessage
  <2>1. sync.pc = "store" /\ UNCHANGED <<log, live>>  BY <1>8 DEF SyncMessage
  <2>2. PICK i \in sync.todo : StoreMessage(log[i].msg, i, Newest(sync.upto))  BY <1>8 DEF SyncMessage
  <2>3. /\ i \in Texts(Now) /\ log[i].msg \in Msgs /\ i \in 0..MaxTime
        /\ Newest(sync.upto) \in 0..MaxTime
    BY <2>1, <2>2, SyncedForms
  <2>4. \A m \in Msgs : row'[m].time = row[m].time \/ (row'[m].time = i /\ log[i].msg = m)
    BY <1>1, <2>2, <2>3, StoreMessageDoes
  <2>5. \A m \in Msgs : row'[m].time = row[m].time
                        \/ (row'[m].time \in Texts(Now)' /\ log'[row'[m].time].msg = m)
    BY <1>2, <2>1, <2>3, <2>4
  <2>6. QED  BY <1>2, <1>4, <2>1, <2>5, TimesKept
<1>9. CASE ReceiveRevoke
  <2>1. /\ live.pc = "revoke" /\ MarkMessageDeleted(log[live.of].msg, live.at)
        /\ live' = Idle /\ log' = log
    BY <1>9 DEF ReceiveRevoke, Finish
  <2>2. live.of \in 1..Now /\ live.at \in 0..MaxTime  BY <2>1, LiveForms
  <2>3. Entry("revoke", live.of)  BY <2>1 DEF StoreInv, LiveInv
  <2>4. log[live.of].msg \in Msgs  BY <1>1, <2>2, <2>3, EntryForms DEF Entry
  <2>5. \A m \in Msgs : row'[m].time = row[m].time  BY <1>1, <2>1, <2>2, <2>4, MarkDeletedDoes
  <2>6. QED  BY <1>2, <2>1, <2>5, TimesKept DEF Idle
<1>10. CASE ReceiveChat \/ ReceiveContext
  <2>1. live.pc \in {"chat", "text"} /\ UNCHANGED <<log, row>>
    BY <1>10 DEF ReceiveChat, ReceiveContext
  <2>2. live.time = live.of /\ live \in Handling  BY <2>1 DEF RightTimes, StoreInv, LiveInv
  <2>3. \E k : live' = [live EXCEPT !.pc = k]  BY <1>10 DEF ReceiveChat, ReceiveContext
  <2>4. live'.time = live'.of  BY <2>2, <2>3 DEF Handling
  <2>5. QED  BY <1>3, <2>1, <2>4
<1>11. CASE ReceiveTimer \/ MarkRead
  BY <1>3, <1>11 DEF ReceiveTimer, MarkRead, Finish, Idle
<1>12. CASE \E e \in net : ReceiveReceipt(e)
  BY <1>3, <1>12 DEF ReceiveReceipt, stored
<1>13. CASE (\E e \in net : Undecryptable(e)) \/ PhoneSyncs \/ UNCHANGED vars
  <2>1. UNCHANGED <<log, row, live>>  BY <1>13 DEF Undecryptable, PhoneSyncs, vars, stored
  <2>2. QED  BY <1>3, <1>4, <2>1
<1>14. CASE (\E e \in net : SyncChat(e)) \/ SyncRead \/ SyncTimer
  <2>1. UNCHANGED <<log, row, live>>  BY <1>14 DEF SyncChat, SyncRead, SyncTimer
  <2>2. QED  BY <1>3, <1>4, <2>1
<1>15. QED
  BY <1>5, <1>6, <1>7, <1>8, <1>9, <1>10, <1>11, <1>12, <1>13, <1>14 DEF OneStep, Handle, Sync

LEMMA StepExtends ==
  ASSUME StoreInv, OneStep
  PROVE  LogExtends /\ (log' = log \/ \E e : Sends(e) /\ Now' = Now + 1)
<1>1. LogInv  BY DEF StoreInv
<1>2. ASSUME NEW e, Sends(e) PROVE LogExtends /\ Now' = Now + 1
  <2>1. Sensible(e) /\ log' = Append(log, e)  BY <1>2 DEF Sends
  <2>2. QED  BY <1>1, <2>1, LogStep
<1>3. CASE PhoneSyncs \/ UNCHANGED vars
  <2>1. log' = log  BY <1>3 DEF PhoneSyncs, vars
  <2>2. QED  BY <1>1, <2>1, SameLog
<1>4. CASE Handle
  <2>1. log' = log
    BY <1>4 DEF Handle, Undecryptable, Receive, ReceiveReceipt, ReceiveChat, ReceiveTimer, ReceiveRevoke,
       ReceiveContext, ReceiveText, MarkRead
  <2>2. QED  BY <1>1, <2>1, SameLog
<1>5. CASE Sync
  <2>1. log' = log  BY <1>5 DEF Sync, SyncChat, SyncRead, SyncTimer, SyncMessage
  <2>2. QED  BY <1>1, <2>1, SameLog
<1>6. QED  BY <1>2, <1>3, <1>4, <1>5 DEF OneStep

\* What is coming goes on coming until the last statement of its handler.
LEMMA PendingStep ==
  ASSUME StoreInv, OneStep, NEW i \in 1..Now, Pending(i)
  PROVE  Pending(i)' \/ (live.of = i /\ (ReceiveText \/ ReceiveTimer \/ ReceiveRevoke))
<1>1. ASSUME lost \subseteq lost', Deliveries \subseteq Deliveries', Handled(i) => Handled(i)'
      PROVE  Pending(i)'
  BY <1>1 DEF Pending
<1>2. ASSUME live' = live PROVE Handled(i) => Handled(i)'  BY <1>2 DEF Handled
<1>3. ASSUME net' = net PROVE Deliveries' = Deliveries  BY <1>3 DEF Deliveries
<1>4. ASSUME NEW e, Sends(e) PROVE Pending(i)'
  <2>1. PICK x : /\ net' = net \union {x}
                 /\ \/ lost' = lost
                    \/ x.type \in {"first", "copy"} /\ x.of \in lost /\ lost' = lost \ {x.of}
    BY <1>4 DEF Sends
  <2>2. Deliveries \subseteq Deliveries' /\ live' = live  BY <1>4, <2>1 DEF Deliveries, Sends
  <2>3. CASE lost' = lost  BY <1>1, <1>2, <2>2, <2>3
  <2>4. CASE x.type \in {"first", "copy"} /\ x.of \in lost /\ lost' = lost \ {x.of}
    <3>1. x \in Deliveries'  BY <2>1, <2>4 DEF Deliveries
    <3>2. CASE i = x.of  BY <3>1, <3>2 DEF Pending
    <3>3. CASE i # x.of  BY <1>2, <2>2, <2>4, <3>3 DEF Pending
    <3>4. QED  BY <3>2, <3>3
  <2>5. QED  BY <2>1, <2>3, <2>4
<1>5. ASSUME NEW e \in net, e.type \notin {"first", "copy"}, net' = net \ {e}
      PROVE  Deliveries' = Deliveries
  BY <1>5 DEF Deliveries
<1>6. CASE PhoneSyncs
  <2>1. Deliveries \subseteq Deliveries' /\ lost' = lost /\ live' = live
    BY <1>6 DEF PhoneSyncs, Deliveries
  <2>2. QED  BY <1>1, <1>2, <2>1
<1>7. ASSUME NEW e \in net, Undecryptable(e) PROVE Pending(i)'
  <2>1. net' = net \ {e} /\ lost' = lost \union {e.of} /\ live' = live  BY <1>7 DEF Undecryptable
  <2>2. \A f \in Deliveries : f = e \/ f \in Deliveries'  BY <2>1 DEF Deliveries
  <2>3. QED  BY <1>2, <2>1, <2>2 DEF Pending
<1>8. ASSUME NEW e \in net, Receive(e) PROVE Pending(i)'
  <2>1. /\ live.pc = "idle" /\ net' = net \ {e} /\ lost' = lost
        /\ live'.pc = "chat" /\ live'.of = e.of
    BY <1>8 DEF Receive
  <2>2. \A f \in Deliveries : f = e \/ f \in Deliveries'  BY <2>1 DEF Deliveries
  <2>3. Handled(e.of)'  BY <2>1 DEF Handled
  <2>4. ~Handled(i)  BY <2>1 DEF Handled
  <2>5. CASE i = e.of  BY <2>1, <2>5 DEF Pending, Handled
  <2>6. CASE i # e.of  BY <2>1, <2>2, <2>4, <2>6 DEF Pending
  <2>7. QED  BY <2>5, <2>6
<1>9. ASSUME NEW e \in net, ReceiveReceipt(e) PROVE Pending(i)'
  <2>1. live.pc = "idle" /\ net' = net \ {e} /\ e.type = "receipt" /\ lost' = lost
    BY <1>9 DEF ReceiveReceipt
  <2>2. ~Handled(i)  BY <2>1 DEF Handled
  <2>3. QED  BY <1>1, <1>5, <2>1, <2>2
<1>10. CASE ReceiveChat \/ ReceiveContext
  <2>1. net' = net /\ lost' = lost  BY <1>10 DEF ReceiveChat, ReceiveContext
  <2>2. Handled(i) => Handled(i)'
    <3>1. live.pc # "idle" /\ live \in Handling
      BY <1>10 DEF ReceiveChat, ReceiveContext, StoreInv, LiveInv
    <3>2. CASE ReceiveContext
      <4>1. live'.of = live.of /\ live'.pc = "store"  BY <3>1, <3>2 DEF ReceiveContext, Handling
      <4>2. QED  BY <4>1 DEF Handled
    <3>3. CASE ReceiveChat
      <4>1. Carried(live.of)  BY <3>3 DEF ReceiveChat, StoreInv, LiveInv
      <4>2. live'.of = live.of /\ live'.pc = log[live.of].kind  BY <3>1, <3>3 DEF ReceiveChat, Handling
      <4>3. QED  BY <4>1, <4>2 DEF Carried, Handled
    <3>4. QED  BY <1>10, <3>2, <3>3
  <2>3. QED  BY <1>1, <1>3, <2>1, <2>2
<1>11. CASE MarkRead
  <2>1. live.pc = "mark" /\ net' = net /\ lost' = lost  BY <1>11 DEF MarkRead
  <2>2. ~Handled(i)  BY <2>1 DEF Handled
  <2>3. QED  BY <1>1, <1>3, <2>1, <2>2
<1>12. CASE ReceiveText \/ ReceiveTimer \/ ReceiveRevoke
  <2>1. net' = net /\ lost' = lost  BY <1>12 DEF ReceiveText, ReceiveTimer, ReceiveRevoke
  <2>2. CASE live.of = i  BY <1>12, <2>2
  <2>3. CASE live.of # i
    <3>1. ~Handled(i)  BY <2>3 DEF Handled
    <3>2. QED  BY <1>1, <1>3, <2>1, <3>1
  <2>4. QED  BY <2>2, <2>3
<1>13. CASE Sync
  <2>1. lost' = lost /\ live' = live  BY <1>13 DEF Sync, SyncChat, SyncRead, SyncTimer, SyncMessage
  <2>2. Deliveries' = Deliveries
    <3>1. CASE \E e \in net : SyncChat(e)  BY <1>5, <3>1 DEF SyncChat
    <3>2. CASE SyncRead \/ SyncTimer \/ SyncMessage  BY <1>3, <3>2 DEF SyncRead, SyncTimer, SyncMessage
    <3>3. QED  BY <1>13, <3>1, <3>2 DEF Sync
  <2>3. QED  BY <1>1, <1>2, <2>1, <2>2
<1>14. CASE UNCHANGED vars
  <2>1. net' = net /\ lost' = lost /\ live' = live  BY <1>14 DEF vars
  <2>2. QED  BY <1>1, <1>2, <1>3, <2>1
<1>15. QED
  BY <1>4, <1>6, <1>7, <1>8, <1>9, <1>10, <1>11, <1>12, <1>13, <1>14 DEF OneStep, Handle

\* What is sent now is coming.
LEMMA NewIsPending ==
  ASSUME NEW e, Sends(e), e.kind \in {"text", "timer"}, NEW i, i = Now'
  PROVE  Pending(i)'
<1>1. PICK x : net' = net \union {x} /\ x.of = Now' /\ x.type \in {"first", "copy"}
  BY DEF Sends
<1>2. x \in Deliveries'  BY <1>1 DEF Deliveries
<1>3. QED  BY <1>1, <1>2 DEF Pending

LEMMA TextsStep ==
  ASSUME StoreInv, StoreInv', [Next]_vars, OneStep, RightTimes, RightTimes', TextsCome
  PROVE  TextsCome'
<1>1. LogInv /\ LogInv' /\ Now \in Nat /\ row \in [Msgs -> Rows]  BY DEF StoreInv, LogInv, RowInv, Now
<1>2. LogExtends  BY StepExtends
<1>3. ASSUME NEW i \in Texts(Now) PROVE Pending(i)' \/ row'[log'[i].msg].time = i
  <2>1. i \in 1..Now /\ Entry("text", i) /\ log'[i] = log[i] /\ i \in Texts(Now)'
    BY <1>1, <1>2, ExtendsKeeps DEF Texts, LogExtends
  <2> DEFINE m == log[i].msg
  <2>2. m \in Msgs  BY <1>1, <2>1, EntryForms DEF Entry
  <2>3. CASE row[m].time = i
    <3>1. row'[m].time # 0  BY <1>1, <2>1, <2>2, <2>3, StepForward DEF Forward
    <3>2. row'[m].time \in Texts(Now)' /\ log'[row'[m].time].msg = m  BY <2>2, <3>1 DEF RightTimes
    <3>3. row'[m].time = i  BY <1>1, <2>1, <3>2 DEF LogInv
    <3>4. QED  BY <2>1, <3>3
  <2>4. CASE Pending(i)
    <3>1. CASE Pending(i)'  BY <3>1
    <3>2. CASE live.of = i /\ ReceiveText
      <4>1. live.pc = "store" /\ StoreMessage(m, live.time, live.time)  BY <3>2 DEF ReceiveText
      <4>2. live.time = i /\ live.time \in 0..MaxTime  BY <3>2, <4>1, LiveForms DEF RightTimes
      <4>3. row'[m].time = i  BY <1>1, <2>2, <4>1, <4>2, StoreMessageDoes
      <4>4. QED  BY <2>1, <4>3
    <3>3. CASE live.of = i /\ (ReceiveTimer \/ ReceiveRevoke)
      <4>1. Entry("timer", i) \/ Entry("revoke", i)
        BY <3>3 DEF ReceiveTimer, ReceiveRevoke, StoreInv, LiveInv
      <4>2. QED  BY <2>1, <4>1 DEF Entry
    <3>4. QED  BY <2>1, <2>4, <3>1, <3>2, <3>3, PendingStep
  <2>5. QED  BY <2>3, <2>4 DEF TextsCome
<1>4. ASSUME NEW i \in Texts(Now)', i \notin Texts(Now) PROVE Pending(i)'
  <2>1. CASE log' = log  BY <1>4, <2>1 DEF Now, Texts, Entry
  <2>2. ASSUME NEW e, Sends(e), Now' = Now + 1 PROVE Pending(i)'
    <3>1. log' = Append(log, e) /\ Sensible(e)  BY <2>2 DEF Sends
    <3>2. log'[Now + 1] = e  BY <1>1, <3>1, LogStep
    <3>3. i \in 1..Now' /\ log'[i].kind = "text"  BY DEF Texts, Entry
    <3>4. i \notin 1..Now
      <4>1. ASSUME i \in 1..Now PROVE FALSE
        BY <1>2, <1>4, <3>3, <4>1 DEF LogExtends, Texts, Entry
      <4>2. QED  BY <4>1
    <3>5. i = Now' /\ e.kind = "text"  BY <1>1, <2>2, <3>2, <3>3, <3>4
    <3>6. QED  BY <2>2, <3>5, NewIsPending
  <2>3. QED  BY <2>1, <2>2, StepExtends
<1>5. QED  BY <1>3, <1>4 DEF TextsCome

LEMMA TimersStep ==
  ASSUME StoreInv, StoreInv', [Next]_vars, OneStep, TimersCome
  PROVE  TimersCome'
<1> SUFFICES ASSUME Stamped
             PROVE  /\ \A i \in 1..Now' : Entry("timer", i)' => Pending(i)' \/ i <= chat'.timer
                    /\ chat'.timer = 0 \/ (chat'.timer \in 1..Now' /\ Entry("timer", chat.timer)')
  BY DEF TimersCome
<1>1. LogInv /\ LogInv' /\ Now \in Nat /\ chat \in Chats /\ chat' \in Chats /\ TimerInv /\ TimerInv'
  BY DEF StoreInv, LogInv, RowInv, Now
<1>2. LogExtends /\ Now' \in Nat /\ Now <= Now'  BY StepExtends DEF LogExtends
<1>3. /\ chat.timer \in Nat /\ chat'.timer \in Nat /\ chat'.timer >= chat.timer
      /\ chat.stamp = chat.timer /\ chat'.stamp = chat'.timer
  BY <1>1, StepForward, StoreAssumption DEF Forward, Chats, TimerInv
<1>4. ASSUME NEW i \in 1..Now, Entry("timer", i) PROVE Pending(i)' \/ i <= chat'.timer
  <2>1. CASE i <= chat.timer  BY <1>1, <1>3, <2>1
  <2>2. CASE Pending(i)
    <3>1. CASE Pending(i)'  BY <3>1
    <3>2. CASE live.of = i /\ ReceiveTimer
      <4>1. UpdateChatEphemeralSettings(i, i) /\ i \in 0..MaxTime
        BY <3>2, LiveForms DEF ReceiveTimer
      <4>2. IF i # 0 /\ i >= chat.stamp THEN chat'.timer = i ELSE chat'.timer = chat.timer
        BY <1>1, <4>1, UpdateDoes
      <4>3. QED  BY <1>1, <1>3, <4>2
    <3>3. CASE live.of = i /\ (ReceiveText \/ ReceiveRevoke)
      <4>1. Entry("text", i) \/ Entry("revoke", i)
        BY <3>3 DEF ReceiveText, ReceiveRevoke, StoreInv, LiveInv
      <4>2. QED  BY <1>4, <4>1 DEF Entry
    <3>4. QED  BY <2>2, <3>1, <3>2, <3>3, PendingStep
  <2>3. QED  BY <1>4, <2>1, <2>2 DEF TimersCome
<1>5. ASSUME NEW i \in 1..Now', Entry("timer", i)' PROVE Pending(i)' \/ i <= chat'.timer
  <2>1. CASE i \in 1..Now
    <3>1. Entry("timer", i)  BY <1>2, <1>5, <2>1 DEF LogExtends, Entry
    <3>2. QED  BY <1>4, <2>1, <3>1
  <2>2. CASE i \notin 1..Now
    <3>1. log' # log  BY <2>2 DEF Now
    <3>2. PICK e : Sends(e) /\ Now' = Now + 1  BY <3>1, StepExtends
    <3>3. log' = Append(log, e) /\ Sensible(e)  BY <3>2 DEF Sends
    <3>4. log'[Now + 1] = e  BY <1>1, <3>3, LogStep
    <3>5. i = Now'  BY <1>1, <2>2, <3>2
    <3>6. e.kind = "timer"  BY <1>5, <3>2, <3>4, <3>5 DEF Entry
    <3>7. QED  BY <3>2, <3>5, <3>6, NewIsPending
  <2>3. QED  BY <2>1, <2>2
<1>6. chat'.timer = 0 \/ (chat'.timer \in 1..Now' /\ Entry("timer", chat.timer)')
  <2>1. ASSUME NEW t, t \in 1..Now /\ Entry("timer", t) PROVE t \in 1..Now' /\ Entry("timer", t)'
    BY <1>1, <1>2, <2>1 DEF LogExtends, Entry
  <2>2. chat'.timer = chat.timer \/ chat'.timer = 0 \/ (chat'.timer \in 1..Now /\ Entry("timer", chat'.timer))
    <3>1. OneStatement  BY StatementOfStep
    <3>2. CASE UNCHANGED chat  BY <3>2
    <3>3. ASSUME NEW t \in 0..MaxTime, StoreChat(t) \/ MarkChatRead(t) PROVE chat'.timer = chat.timer
      BY <1>1, <3>3, StoreChatDoes, MarkChatReadDoes
    <3>4. ASSUME NEW t \in 0..MaxTime, NEW s \in 0..MaxTime, UpdateChatEphemeralSettings(t, s)
          PROVE  chat'.timer \in {t, chat.timer}
      BY <1>1, <3>4, UpdateDoes
    <3>5. QED  BY <3>1, <3>2, <3>3, <3>4 DEF OneStatement
  <2>3. chat.timer = 0 \/ (chat.timer \in 1..Now /\ Entry("timer", chat.timer))  BY DEF TimersCome
  <2>4. chat'.timer = 0 \/ \E t : t = chat'.timer /\ t \in 1..Now /\ Entry("timer", t)  BY <2>2, <2>3
  <2>5. CASE chat'.timer = 0  BY <2>5
  <2>6. ASSUME NEW t, t = chat'.timer, t \in 1..Now /\ Entry("timer", t)
        PROVE  chat'.timer \in 1..Now' /\ Entry("timer", chat.timer)'
    <3>1. t \in 1..Now' /\ Entry("timer", t)'  BY <2>1, <2>6
    <3>2. QED  BY <2>6, <3>1 DEF Entry
  <2>7. QED  BY <2>4, <2>5, <2>6
<1>7. QED  BY <1>5, <1>6

LEMMA ReadTimeKept ==
  ASSUME LogInv, LogExtends, NEW t, ReadTime(t)
  PROVE  ReadTime(t)'
<1>1. Texts(Now) \subseteq Texts(Now)' /\ Reads(Now) \subseteq Reads(Now)'  BY ExtendsKeeps
<1>2. ASSUME t \in Texts(Now), Seen(t, Now) PROVE Seen(t, Now)'
  <2>1. t \in 1..Now  BY <1>2 DEF Texts
  <2>2. QED  BY <1>2, <2>1, ExtendsKeeps
<1>3. QED  BY <1>1, <1>2 DEF ReadTime

LEMMA MarkerStep ==
  ASSUME StoreInv, [Next]_vars, OneStep, RightTimes, MarkerInv
  PROVE  MarkerInv'
<1>1. LogInv /\ RowInv /\ NetInv /\ chat \in Chats  BY DEF StoreInv, RowInv
<1>2. LogExtends  BY StepExtends
<1>3. ASSUME NEW t, ReadTime(t) PROVE ReadTime(t)'  BY <1>1, <1>2, <1>3, ReadTimeKept
<1>4. chat'.read = 0 \/ ReadTime(chat.read)'
  <2>1. \E t : t = chat'.read /\ (t = 0 \/ ReadTime(t))
    <3>1. OneStatement  BY StatementOfStep
    <3>2. CASE UNCHANGED chat  BY <3>2 DEF MarkerInv
    <3>3. ASSUME NEW t \in 0..MaxTime, NEW s \in 0..MaxTime, StoreChat(t) \/ UpdateChatEphemeralSettings(t, s)
          PROVE  chat'.read = chat.read
      BY <1>1, <3>3, StoreChatDoes, UpdateDoes
    <3>4. ASSUME NEW t \in 0..MaxTime, MarkChatRead(t),
                 (live.pc = "mark" /\ t = live.time) \/ (t \in Texts(Now) /\ Seen(t, Now))
          PROVE  chat'.read \in {chat.read, t} /\ ReadTime(t)
      BY <1>1, <3>4, MarkChatReadDoes DEF MarkerInv, ReadTime
    <3>5. QED  BY <3>1, <3>2, <3>3, <3>4 DEF OneStatement, MarkerInv
  <2>2. PICK t : t = chat'.read /\ (t = 0 \/ ReadTime(t))  BY <2>1
  <2>3. t = 0 \/ ReadTime(t)'  BY <1>3, <2>2
  <2>4. QED  BY <2>2, <2>3 DEF ReadTime
<1>5. ASSUME live'.pc = "mark" PROVE \E t : t = live'.time /\ ReadTime(t)
  <2>1. CASE live' = live  BY <1>5, <2>1 DEF MarkerInv
  <2>2. ASSUME NEW e \in net, ReceiveReceipt(e) PROVE \E t : t = live'.time /\ ReadTime(t)
    <3> DEFINE times == {row[log[i].msg].time : i \in Acknowledged(e.of)} \ {0}
               newest == CHOOSE t \in times : \A u \in times : u <= t
    <3>1. e.type = "receipt" /\ live'.time = IF times = {} THEN e.at ELSE newest
      BY <2>2 DEF ReceiveReceipt
    <3>2. e.of \in Reads(Now) /\ e.at = e.of
      BY <1>1, <3>1 DEF NetInv, Deliverable, Reads
    <3>3. CASE times = {}
      BY <3>1, <3>2, <3>3 DEF ReadTime
    <3>4. CASE times # {}
      <4>1. PICK i \in Acknowledged(e.of) :
              i \in Texts(Now) /\ row[log[i].msg].time # 0 /\ newest = row[log[i].msg].time
        BY <1>1, <3>2, <3>4, ReceiptTime
      <4>2. live'.time = newest  BY <3>1, <3>4
      <4> HIDE DEF times, newest
      <4>3. i \in 1..Now /\ Entry("text", i)  BY <4>1 DEF Texts
      <4>4. log[i].msg \in Msgs  BY <1>1, <4>3, EntryForms DEF Entry
      <4>5. newest \in Texts(Now) /\ log[newest].msg = log[i].msg  BY <4>1, <4>4 DEF RightTimes
      <4>6. newest = i  BY <1>1, <4>1, <4>5 DEF LogInv
      <4>7. i \in 1..log[e.of].upto  BY <4>1 DEF Acknowledged, Texts
      <4>8. i <= log[e.of].upto  BY <4>7
      <4>9. Seen(i, Now)  BY <3>2, <4>8 DEF Seen
      <4>10. QED  BY <4>1, <4>2, <4>6, <4>9 DEF ReadTime
    <3>5. QED  BY <3>3, <3>4
  <2>3. ASSUME NEW e \in net, Receive(e) PROVE FALSE  BY <1>5, <2>3 DEF Receive
  <2>4. CASE ReceiveChat
    <3>1. Carried(live.of) /\ live \in Handling  BY <2>4 DEF ReceiveChat, StoreInv, LiveInv
    <3>2. live'.pc = log[live.of].kind  BY <2>4, <3>1 DEF ReceiveChat, Handling
    <3>3. QED  BY <1>5, <3>1, <3>2 DEF Carried
  <2>5. CASE ReceiveContext
    <3>1. live \in Handling  BY DEF StoreInv, LiveInv
    <3>2. live'.pc = "store"  BY <2>5, <3>1 DEF ReceiveContext, Handling
    <3>3. QED  BY <1>5, <3>2
  <2>6. CASE ReceiveTimer \/ ReceiveRevoke \/ ReceiveText \/ MarkRead
    BY <1>5, <2>6 DEF ReceiveTimer, ReceiveRevoke, ReceiveText, MarkRead, Finish, Idle
  <2>7. CASE (\E e \in net : Undecryptable(e)) \/ PhoneSyncs \/ Sync \/ UNCHANGED vars \/ \E e : Sends(e)
    BY <2>1, <2>7 DEF Undecryptable, PhoneSyncs, Sync, SyncChat, SyncRead, SyncTimer, SyncMessage, vars, Sends
  <2>8. QED  BY <2>2, <2>3, <2>4, <2>5, <2>6, <2>7 DEF OneStep, Handle
<1>6. live'.pc = "mark" => ReadTime(live.time)'
  <2>1. ASSUME live'.pc = "mark" PROVE ReadTime(live.time)'
    <3>1. PICK t : t = live'.time /\ ReadTime(t)  BY <1>5, <2>1
    <3>2. ReadTime(t)'  BY <1>3, <3>1
    <3>3. QED  BY <3>1, <3>2 DEF ReadTime
  <2>2. QED  BY <2>1
<1>7. QED  BY <1>4, <1>6 DEF MarkerInv

LEMMA RunInit == Init => FirstRun
<1> SUFFICES ASSUME Init PROVE RunInv
  BY DEF FirstRun
<1> USE DEF Init
<1>1. Now = 0 /\ Texts(Now) = {} /\ Deliveries = {}  BY DEF Now, Texts, Deliveries
<1>2. OneToken /\ SentTimes /\ RightTimes  BY <1>1 DEF OneToken, SentTimes, RightTimes, Idle
<1>3. TextsCome /\ TimersCome /\ MarkerInv  BY <1>1 DEF TextsCome, TimersCome, MarkerInv, Idle
<1>4. QED  BY <1>2, <1>3 DEF RunInv

LEMMA RunStep == StoreInv /\ FirstRun /\ [Next]_vars => FirstRun'
<1> SUFFICES ASSUME StoreInv, FirstRun, [Next]_vars, crashes' = 0 PROVE RunInv'
  BY DEF FirstRun
<1>1. OneStep /\ crashes = 0  BY StepForms
<1>2. RunInv  BY <1>1 DEF FirstRun
<1>3. StoreInv'  BY StoreStep
<1>4. OneToken' /\ SentTimes'  BY <1>1, <1>2, TokenStep DEF RunInv
<1>5. RightTimes'  BY <1>1, <1>2, TimesStep DEF RunInv
<1>6. TextsCome'  BY <1>1, <1>2, <1>3, <1>5, TextsStep DEF RunInv
<1>7. TimersCome'  BY <1>1, <1>2, <1>3, TimersStep DEF RunInv
<1>8. MarkerInv'  BY <1>1, <1>2, MarkerStep DEF RunInv
<1>9. QED  BY <1>4, <1>5, <1>6, <1>7, <1>8 DEF RunInv

\* The strengthening of what holds until the bridge is restarted: a restart
\* loses the map of send times and delivers a stanza again.
THEOREM RunInvariance == Spec => [](StoreInv /\ FirstRun)
<1>1. Init => StoreInv /\ FirstRun  BY StoreInit, RunInit
<1>2. (StoreInv /\ FirstRun) /\ [Next]_vars => (StoreInv /\ FirstRun)'  BY StoreStep, RunStep
<1>3. QED  BY <1>1, <1>2, PTL DEF Spec

\* While the bridge runs, the marker of handleReceipt and of handleHistorySync
\* stands at a message the owner has read or at the time of a receipt.
THEOREM MarkerStandsAtRead == Spec => []MarkerIsRead
<1>1. StoreInv /\ FirstRun => MarkerIsRead  BY DEF FirstRun, RunInv, MarkerInv, ReadTime, MarkerIsRead
<1>2. QED  BY RunInvariance, <1>1, PTL

\* Once everything that was sent has been handled, in whatever order and beside
\* whatever history sync, every message is stored with its send time (what
\* takeOriginalTimestamp is for) and the stamped timer is the phone's.
THEOREM ArchiveIsComplete == Spec => []ArchiveConverges
<1>1. ASSUME StoreInv, FirstRun PROVE ArchiveConverges
  <2> SUFFICES ASSUME Quiet, crashes = 0
               PROVE  /\ \A i \in Texts(Now) : row[log[i].msg].time = i
                      /\ Stamped => chat.timer = Timer(Now)
    BY DEF ArchiveConverges
  <2>1. LogInv /\ TextsCome /\ TimersCome  BY <1>1 DEF StoreInv, FirstRun, RunInv
  <2>2. \A i : ~Pending(i)  BY DEF Quiet, Pending, Deliveries, Handled, Idle
  <2>3. \A i \in Texts(Now) : row[log[i].msg].time = i  BY <2>1, <2>2 DEF TextsCome
  <2>4. ASSUME Stamped PROVE chat.timer = Timer(Now)
    <3>1. /\ \A i \in 1..Now : Entry("timer", i) => i <= chat.timer
          /\ chat.timer = 0 \/ (chat.timer \in 1..Now /\ Entry("timer", chat.timer))
      BY <2>1, <2>2, <2>4 DEF TimersCome
    <3>2. Now \in Nat /\ Now \in 0..Now  BY <2>1 DEF LogInv, Now
    <3> DEFINE timer == Timer(Now)
    <3>3. /\ timer \in 0..Now /\ (timer # 0 => Entry("timer", timer))
          /\ \A i \in 1..Now : Entry("timer", i) => i <= timer
      BY <2>1, <3>2, TimerIsLast
    <3> HIDE DEF timer
    <3>4. chat.timer \in Nat  BY <3>1, <3>2
    <3>5. timer <= chat.timer  BY <3>1, <3>2, <3>3, <3>4
    <3>6. chat.timer <= timer  BY <3>1, <3>2, <3>3
    <3>7. QED  BY <3>2, <3>3, <3>4, <3>5, <3>6 DEF timer
  <2>5. QED  BY <2>3, <2>4
<1>2. QED  BY RunInvariance, <1>1, PTL

=============================================================================
