---------------------------- MODULE BridgeProofs ----------------------------
(***************************************************************************)
(* What holds of the bridge's two long-lived parts, for any number of      *)
(* people, messages, starts, pages, losses and signals:                    *)
(*   - the archive: the tables that the handlers and the migrations write  *)
(*     (LidChats) are typed and whole (LidInv), nothing in them is lost,   *)
(*     and what the MCP server says of them (ArchiveReads) is complete;    *)
(*   - the connection (Connection): no loss goes unnoticed.                *)
(*                                                                         *)
(* A step of the archive is of one of two kinds.  Every action but the     *)
(* migration of chats keeps each row where it is (Kept); the migration     *)
(* merges chats and moves rows (ChatsMerged, RowsMoved).  The invariants   *)
(* and the action properties are proved from these two descriptions.       *)
(***************************************************************************)
EXTENDS ArchiveReads, Connection, FiniteSetTheorems, FunctionTheorems,
        NaturalsInduction, WellFoundedInduction, TLAPS

\* A set of numbers that ends has a newest one.
LEMMA NewestIs ==
  ASSUME NEW n \in Nat, NEW S \in SUBSET (1..n)
  PROVE  /\ Newest(S) \in 0..n
         /\ S = {} => Newest(S) = 0
         /\ S # {} => Newest(S) \in S
         /\ \A u \in S : u <= Newest(S)
<1>1. CASE S = {}  BY <1>1 DEF Newest
<1>2. CASE S # {}
  <2> DEFINE T == {k \in Nat : \A u \in S : u <= k}
  <2>1. n \in T  OBVIOUS
  <2>2. PICK x \in T : \A y \in T : ~(<<y, x>> \in OpToRel(<, Nat))
    BY <2>1, NatLessThanWellFounded, WFMin, Zenon
  <2>3. \A y \in T : ~(y < x)  BY <2>2, Zenon DEF OpToRel
  <2>4. x \in S
    <3> SUFFICES ASSUME x \notin S PROVE FALSE
      OBVIOUS
    <3>1. PICK u \in S : TRUE  BY <1>2
    <3>2. u < x /\ x \in Nat  OBVIOUS
    <3>3. x - 1 \in T  BY <3>2
    <3>4. QED  BY <2>3, <3>2, <3>3
  <2>5. \E t \in S : \A u \in S : u <= t  BY <2>4
  <2>6. Newest(S) \in S /\ \A u \in S : u <= Newest(S)  BY <1>2, <2>5, Zenon DEF Newest
  <2>7. Newest(S) \in 1..n  BY <2>6
  <2> HIDE DEF T
  <2>8. QED  BY <1>2, <2>6, <2>7
<1>3. QED  BY <1>1, <1>2

\* The addresses of a person and of a group.
LEMMA Forms ==
  /\ \A x : /\ Phone(x)[1] = x /\ Phone(x)[2] = "pn"
            /\ Lid(x)[1] = x /\ Lid(x)[2] = "lid"
  /\ \A x, y : Phone(x) # Lid(y)
  /\ \A p \in People : Phone(p) \in Jids /\ Lid(p) \in Jids
BY DEF Phone, Lid, Jids

LEMMA JidForms ==
  ASSUME NEW j \in Jids
  PROVE  \/ j[1] \in People /\ j = Phone(j[1])
         \/ j[1] \in People /\ j = Lid(j[1])
         \/ j[1] \in Groups /\ j = <<j[1], "group">> /\ j[2] = "group" /\ \A x : j # Phone(x) /\ j # Lid(x)
<1>1. ASSUME NEW p \in People, j = Phone(p) \/ j = Lid(p) PROVE j[1] = p  BY <1>1, Forms
<1>2. ASSUME NEW g \in Groups, j = <<g, "group">>
      PROVE  j[1] = g /\ j[2] = "group" /\ \A x : j # Phone(x) /\ j # Lid(x)
  BY <1>2 DEF Phone, Lid
<1>3. QED  BY <1>1, <1>2 DEF Jids

-----------------------------------------------------------------------------
(* The archive: invariant of the writers *)

\* A row holds what was sent, whatever address it was filed under.
RowsAreAsSent ==
  \A i \in DOMAIN rows :
    LET r == rows[i]
    IN /\ r.chat[1] = sent[r.id].in /\ r.sender[1] = sent[r.id].from
       /\ r.mine <=> r.sender[1] = Me

\* A chat bears no name of somebody else's, other than as digits; and whoever
\* never had a chat under the LID is called as the owner calls them.
Fits(j, n) == n \in Names /\ (IsDigits(n) \/ n \in {NoName, Named(j[1]), Push(j[1])})

NamesAreTheirs ==
  /\ \A j \in Jids : Fits(j, chats[j].name)
  /\ \A p \in Known \ strangers : chats[Phone(p)].name \in {NoName, Named(p)}
  /\ \A p \in People : chats[Lid(p)].known => p \in strangers

\* A chat migration has moved all that is filed under p's LID.
ChatMoved(p) ==
  /\ ~chats[Lid(p)].known
  /\ \A i \in DOMAIN rows : rows[i].chat # Lid(p)

\* Whoever was in the map at a completed start stays under the phone number,
\* also while the bridge is down; between the two migrations everybody in the
\* map is half moved.
SettledStay ==
  /\ \A p \in settled : ChatMoved(p) /\ \A i \in DOMAIN rows : rows[i].sender # Lid(p)
  /\ stage = "chats moved" => \A p \in lids : ChatMoved(p)

LidInv ==
  /\ sent \in Traffics
  /\ LidTypeOK
  /\ RowsAreAsSent
  /\ RowsHaveChats
  /\ NamesAreTheirs
  /\ SettledStay

-----------------------------------------------------------------------------
(* What a step does to the tables *)

LEMMA ResolvedIs ==
  ASSUME lids \subseteq People, NEW a \in Addresses
  PROVE  /\ Resolved(a)[1] = a[1] /\ Resolved(a) \in Addresses
         /\ a \in Jids => Resolved(a) \in Jids
         /\ \A p \in lids : Resolved(a) # Lid(p)
<1>1. CASE a[2] = "lid" /\ a[1] \in lids
  BY <1>1, Forms DEF Resolved, Addresses
<1>2. CASE ~(a[2] = "lid" /\ a[1] \in lids)
  BY <1>2, Forms DEF Resolved
<1>3. QED  BY <1>1, <1>2

LEMMA ChatIsStored ==
  ASSUME LidTypeOK, MaxTime \in Nat, NEW j \in Jids, NEW name \in Names, NEW t \in Times,
         StoreChat(j, name, t)
  PROVE  /\ chats' \in [Jids -> Chats]
         /\ \A k \in Jids \ {j} : chats'[k] = chats[k]
         /\ chats'[j].known /\ chats'[j].newest = Later(chats[j].newest, t)
         /\ chats'[j].read = chats[j].read /\ chats'[j].name = name
<1>1. chats \in [Jids -> Chats] /\ chats[j] \in Chats  BY DEF LidTypeOK
<1>2. Later(chats[j].newest, t) \in 0..MaxTime  BY <1>1 DEF Later, Times, Chats
<1>3. /\ DOMAIN chats' = Jids
      /\ \A k \in Jids \ {j} : chats'[k] = chats[k]
  BY <1>1 DEF StoreChat
<1>4. /\ chats'[j] \in [known : BOOLEAN, name : Names, newest : 0..MaxTime, read : 0..MaxTime]
      /\ chats'[j].known /\ chats'[j].newest = Later(chats[j].newest, t)
      /\ chats'[j].read = chats[j].read /\ chats'[j].name = name
  BY <1>1, <1>2 DEF StoreChat, Chats
<1>5. chats' \in [Jids -> Chats]
  <2>1. chats' = [k \in Jids |-> chats'[k]]  BY <1>1 DEF StoreChat
  <2>2. QED  BY <1>1, <1>3, <1>4, <2>1 DEF Chats
<1>6. QED  BY <1>3, <1>4, <1>5

\* The pairs that stand for names, addresses and no name at all are distinct.
LEMMA NameForms ==
  /\ \A x : Named(x) \notin Addresses /\ Push(x) \notin Addresses
  /\ NoName \notin Addresses
  /\ \A x, y : /\ Named(x) = Named(y) <=> x = y
               /\ Push(x) = Push(y) <=> x = y
               /\ Named(x) # Push(y) /\ Named(x) # NoName /\ Push(x) # NoName
<1>1. \A a \in Addresses : a[2] \in {"pn", "lid", "group"}
  BY DEF Addresses, Jids, Phone, Lid
<1>2. \A x : Named(x)[2] = "name" /\ Push(x)[2] = "push" /\ NoName[2] = "none"
  BY DEF Named, Push, NoName
<1>3. \A x : Named(x)[1] = x /\ Push(x)[1] = x  BY DEF Named, Push
<1>4. QED  BY <1>1, <1>2, <1>3

\* A name that chat j may take: a person the owner has a name for, in a chat
\* that has no other, gets that one.
Takes(j, n) ==
  /\ Fits(j, n)
  /\ \A p \in Known : j = Phone(p) /\ chats[j].name \in {NoName, Named(p)} => n = Named(p)

LEMMA NameTaken ==
  ASSUME NamesAreTheirs, NEW j \in Jids, NEW a \in Addresses
  PROVE  Takes(j, GetChatName(j, a))
<1>1. Fits(j, chats[j].name)  BY DEF NamesAreTheirs
<1>2. \A p : Phone(p)[1] = p  BY Forms
<1>3. CASE chats[j].name # NoName
  BY <1>1, <1>3 DEF GetChatName, Takes
<1>4. CASE chats[j].name = NoName /\ (IsGroup(j) \/ (j[1] \in Known /\ j = Phone(j[1])))
  <2>1. j[1] \in People \union Groups  BY JidForms
  <2>2. GetChatName(j, a) = Named(j[1])  BY <1>4 DEF GetChatName
  <2>3. Named(j[1]) \in Names  BY <2>1 DEF Names
  <2>4. QED  BY <1>2, <2>2, <2>3 DEF Takes, Fits
<1>5. CASE chats[j].name = NoName /\ ~(IsGroup(j) \/ (j[1] \in Known /\ j = Phone(j[1])))
  <2>1. GetChatName(j, a) = a  BY <1>5 DEF GetChatName
  <2>2. \A p \in Known : j # Phone(p)  BY <1>2, <1>5
  <2>3. QED  BY <2>1, <2>2 DEF Takes, Fits, IsDigits, Names
<1>6. QED  BY <1>3, <1>4, <1>5

LEMMA LiveNameTaken ==
  ASSUME NamesAreTheirs, lids \subseteq People, NEW raw \in Jids, NEW a \in Addresses, NEW pushed
  PROVE  Takes(Resolved(raw), LiveChatName(Resolved(raw), raw, a, pushed))
<1> DEFINE j == Resolved(raw)
<1>1. raw \in Addresses  BY DEF Addresses
<1>2. j \in Jids /\ j[1] = raw[1]  BY <1>1, ResolvedIs
<1> HIDE DEF j
<1>3. Takes(j, GetChatName(j, a))  BY <1>2, NameTaken
<1>4. CASE LiveChatName(j, raw, a, pushed) = GetChatName(j, a)  BY <1>3, <1>4 DEF j
<1>5. CASE /\ ~IsGroup(raw) /\ GetChatName(j, a) = raw
           /\ LiveChatName(j, raw, a, pushed) = Push(raw[1])
  <2>1. raw[1] \in People  BY <1>5, JidForms DEF IsGroup
  <2>2. Fits(j, Push(raw[1]))  BY <1>2, <2>1 DEF Fits, Names
  <2>3. \A p \in Known : ~(j = Phone(p) /\ chats[j].name \in {NoName, Named(p)})
    BY <1>1, <1>3, <1>5, NameForms DEF Takes
  <2>4. Takes(j, Push(raw[1]))  BY <2>2, <2>3 DEF Takes
  <2>5. QED  BY <1>5, <2>4 DEF j
<1>6. QED  BY <1>4, <1>5 DEF LiveChatName

\* The row of a message that comes again.
Restored(r, s, t) == [r EXCEPT !.sender = s, !.time = t]

\* A redelivery changes at most the sender and the time of the one row; a new
\* message is filed after all that is there.
LEMMA MessageIsStored ==
  ASSUME LidTypeOK, NEW m, NEW j, NEW s, NEW mine, NEW t, StoreMessage(m, j, s, mine, t)
  PROVE  \/ /\ RowAt(m, j) # {} /\ DOMAIN rows' = DOMAIN rows
            /\ \A i \in DOMAIN rows :
                 rows'[i] = IF i \in RowAt(m, j) THEN Restored(rows[i], s, t) ELSE rows[i]
         \/ /\ RowAt(m, j) = {} /\ LastRow + 1 \notin DOMAIN rows
            /\ DOMAIN rows' = DOMAIN rows \union {LastRow + 1}
            /\ \A i \in DOMAIN rows : rows'[i] = rows[i]
            /\ rows'[LastRow + 1] = [id |-> m, chat |-> j, sender |-> s, mine |-> mine, time |-> t, deleted |-> FALSE]
<1>1. LastRow + 1 \notin DOMAIN rows
  <2>1. LastRow \in Nat /\ DOMAIN rows \subseteq 1..LastRow  BY DEF LidTypeOK
  <2>2. QED  BY <2>1
<1>2. CASE RowAt(m, j) # {}  BY <1>2 DEF StoreMessage, Restored
<1>3. CASE RowAt(m, j) = {}
  <2>1. rows' = [i \in DOMAIN rows \union {LastRow + 1} |->
                  IF i \in DOMAIN rows THEN rows[i]
                  ELSE [id |-> m, chat |-> j, sender |-> s, mine |-> mine, time |-> t, deleted |-> FALSE]]
    BY <1>3, Zenon DEF StoreMessage
  <2>2. QED  BY <1>1, <1>3, <2>1
<1>4. QED  BY <1>2, <1>3

\* A chat migration keeps the rows of no LID chat, and files the others after
\* them unless the phone chat has their message.
LEMMA RowsAreMoved ==
  ASSUME LidTypeOK, rows' = MovedRows
  PROVE  /\ \A i \in DOMAIN rows' :
              \/ i \in DOMAIN rows \ InLegacyChat /\ rows'[i] = rows[i]
              \/ \E k \in InLegacyChat :
                   /\ RowAt(rows[k].id, Phone(rows[k].chat[1])) = {}
                   /\ i = LastRow + k /\ i \notin DOMAIN rows /\ rows'[i] = Moved(rows[k])
         /\ \A i \in DOMAIN rows \ InLegacyChat : i \in DOMAIN rows'
         /\ \A k \in InLegacyChat :
              RowAt(rows[k].id, Phone(rows[k].chat[1])) = {} => LastRow + k \in DOMAIN rows'
         /\ DOMAIN rows' \subseteq 1..(LastRow + LastRow)
<1>1. LastRow \in Nat /\ DOMAIN rows \subseteq 1..LastRow  BY DEF LidTypeOK
<1> DEFINE toCopy == {i \in InLegacyChat : RowAt(rows[i].id, Phone(rows[i].chat[1])) = {}}
           kept == DOMAIN rows \ InLegacyChat
<1>2. rows' = [i \in kept \union {LastRow + k : k \in toCopy} |->
                IF i \in kept THEN rows[i] ELSE Moved(rows[i - LastRow])]
  BY DEF MovedRows
<1>3. toCopy \subseteq DOMAIN rows /\ kept \subseteq DOMAIN rows  BY DEF InLegacyChat
<1>4. \A k \in toCopy : /\ LastRow + k \notin DOMAIN rows /\ (LastRow + k) - LastRow = k
                        /\ LastRow + k \in 1..(LastRow + LastRow)
  BY <1>1, <1>3
<1>5. DOMAIN rows' = kept \union {LastRow + k : k \in toCopy}  BY <1>2
<1>6. \A i \in kept : rows'[i] = rows[i]  BY <1>2
<1>7. \A k \in toCopy : rows'[LastRow + k] = Moved(rows[k])  BY <1>2, <1>3, <1>4
<1>8. DOMAIN rows' \subseteq 1..(LastRow + LastRow)  BY <1>1, <1>3, <1>4, <1>5
<1>9. QED  BY <1>4, <1>5, <1>6, <1>7, <1>8

\* Rowids end after a step, too.
LEMMA RowidsEnd ==
  ASSUME NEW n \in Nat, DOMAIN rows' \subseteq 1..n
  PROVE  LastRow' \in Nat /\ DOMAIN rows' \subseteq 1..LastRow'
<1>1. /\ Newest(DOMAIN rows') \in 0..n
      /\ \A u \in DOMAIN rows' : u <= Newest(DOMAIN rows')
  BY NewestIs
<1>2. LastRow' = Newest(DOMAIN rows')  BY DEF LastRow
<1>3. QED  BY <1>1, <1>2

-----------------------------------------------------------------------------
(* Every step but a chat migration keeps what is there *)

\* A row that is not moved: its sender may be filed anew, out of a LID, it may
\* get another time together with its chat, and it may come to be deleted.
SameRow(i) ==
  /\ i \in DOMAIN rows' /\ rows'[i] \in Rows
  /\ rows'[i].id = rows[i].id /\ rows'[i].chat = rows[i].chat
  /\ rows'[i].mine = rows[i].mine
  /\ rows'[i].time = rows[i].time \/ chats'[rows[i].chat].newest >= rows'[i].time
  /\ rows[i].deleted => rows'[i].deleted
  /\ \/ rows'[i].sender = rows[i].sender
     \/ /\ rows'[i].sender[1] = rows[i].sender[1]
        /\ \A p \in lids : rows'[i].sender # Lid(p)

\* A message filed for the first time, with its chat, and not under the LID of
\* somebody in the map.
NewRow(i) ==
  LET r == rows'[i]
  IN /\ i = LastRow + 1 /\ r \in Rows /\ RowAt(r.id, r.chat) = {}
     /\ r.chat[1] = sent[r.id].in /\ r.sender[1] = sent[r.id].from
     /\ r.mine <=> r.sender[1] = Me
     /\ chats'[r.chat].known /\ chats'[r.chat].newest >= r.time
     /\ \A p \in lids : r.chat # Lid(p) /\ r.sender # Lid(p)

RowsKept ==
  /\ \A i \in DOMAIN rows : SameRow(i)
  /\ \A i \in DOMAIN rows' \ DOMAIN rows : NewRow(i)

ChatsKept ==
  /\ chats' \in [Jids -> Chats]
  /\ \A j \in Jids : /\ chats[j].known => chats'[j].known
                     /\ chats[j].newest <= chats'[j].newest /\ chats[j].read <= chats'[j].read
                     /\ chats'[j].name = chats[j].name \/ Takes(j, chats'[j].name)
  /\ \A p \in lids : ~chats[Lid(p)].known => ~chats'[Lid(p)].known

Kept == sent' = sent /\ ChatsKept /\ RowsKept

LEMMA TrafficForms ==
  ASSUME LidInv, NEW m \in Msgs
  PROVE  /\ sent[m].time \in Times /\ sent[m].in \in People \union Groups
         /\ sent[m].from \in People \union {Me}
BY LidAssumption DEF LidInv, Times

LEMMA SameRows ==
  ASSUME LidInv, UNCHANGED rows
  PROVE  RowsKept
BY DEF LidInv, LidTypeOK, RowsKept, SameRow

LEMMA SameChats ==
  ASSUME LidInv, UNCHANGED chats
  PROVE  ChatsKept
<1>1. chats \in [Jids -> Chats]  BY DEF LidInv, LidTypeOK
<1>2. \A j \in Jids : chats[j].newest \in 0..MaxTime /\ chats[j].read \in 0..MaxTime
  BY <1>1 DEF Chats
<1>3. MaxTime \in Nat  BY LidAssumption
<1>4. QED  BY <1>1, <1>2, <1>3 DEF ChatsKept

\* A chat that is not filed under the LID of somebody in the map is stored.
LEMMA StoredChatIsKept ==
  ASSUME LidInv, NEW j \in Jids, \A p \in lids : j # Lid(p), NEW name, Takes(j, name),
         NEW t \in Times, StoreChat(j, name, t)
  PROVE  ChatsKept /\ chats'[j].known /\ chats'[j].newest >= t
<1>1. LidTypeOK /\ lids \subseteq People  BY DEF LidInv, LidTypeOK
<1>2. MaxTime \in Nat /\ name \in Names  BY LidAssumption DEF Takes, Fits
<1>3. /\ chats' \in [Jids -> Chats]
      /\ \A k \in Jids \ {j} : chats'[k] = chats[k]
      /\ chats'[j].known /\ chats'[j].newest = Later(chats[j].newest, t)
      /\ chats'[j].read = chats[j].read /\ chats'[j].name = name
  BY <1>1, <1>2, ChatIsStored
<1>4. \A k \in Jids : chats[k].newest \in 0..MaxTime /\ chats[k].read \in 0..MaxTime
  BY <1>1 DEF LidTypeOK, Chats
<1>5. \A k \in Jids : chats[k].newest <= chats'[k].newest /\ chats[k].read <= chats'[k].read
  BY <1>2, <1>3, <1>4 DEF Later, Times
<1>6. \A p \in lids : Lid(p) \in Jids \ {j}  BY <1>1, Forms
<1>7. chats'[j].newest >= t  BY <1>2, <1>3, <1>4 DEF Later, Times
<1>8. \A k \in Jids : chats'[k].name = chats[k].name \/ Takes(k, chats'[k].name)  BY <1>3
<1>9. QED  BY <1>3, <1>5, <1>6, <1>7, <1>8, Zenon DEF ChatsKept

\* A message is stored with its chat, by either handler.
LEMMA StoringKeeps ==
  ASSUME LidInv, NEW m \in Msgs, NEW raw \in Jids, NEW from \in Addresses, Bears(m, raw, from),
         NEW name, Takes(Resolved(raw), name), NEW t \in Times, sent' = sent,
         StoreChat(Resolved(raw), name, t),
         StoreMessage(m, Resolved(raw), Resolved(from), sent[m].from = Me, t)
  PROVE  Kept
<1> DEFINE j == Resolved(raw)
           s == Resolved(from)
           mine == sent[m].from = Me
<1>1. /\ raw[1] = sent[m].in /\ from[1] = sent[m].from
      /\ StoreChat(j, name, t) /\ StoreMessage(m, j, s, mine, t) /\ Takes(j, name)
      /\ mine \in BOOLEAN /\ (mine <=> sent[m].from = Me)
  BY DEF Bears
<1>2. LidTypeOK /\ lids \subseteq People  BY DEF LidInv, LidTypeOK
<1>3. raw \in Addresses  BY DEF Addresses
<1>4. /\ j \in Jids /\ j[1] = sent[m].in /\ s \in Addresses /\ s[1] = sent[m].from
      /\ \A p \in lids : j # Lid(p) /\ s # Lid(p)
  BY <1>1, <1>2, <1>3, ResolvedIs
<1> HIDE DEF j, s, mine
<1>5. ChatsKept /\ chats'[j].known /\ chats'[j].newest >= t
  BY <1>1, <1>2, <1>4, StoredChatIsKept
<1>6. \A i \in DOMAIN rows : rows[i] \in Rows  BY <1>2 DEF LidTypeOK
<1>7. RowsKept
  <2>1. CASE /\ RowAt(m, j) # {} /\ DOMAIN rows' = DOMAIN rows
             /\ \A i \in DOMAIN rows :
                  rows'[i] = IF i \in RowAt(m, j) THEN Restored(rows[i], s, t) ELSE rows[i]
    <3>1. ASSUME NEW i \in DOMAIN rows PROVE SameRow(i)
      <4>1. rows[i] \in Rows  BY <1>6
      <4>2. CASE i \in RowAt(m, j)
        <5>1. rows[i].id = m /\ rows[i].chat = j /\ rows[i].sender[1] = sent[m].from
          BY <4>2 DEF RowAt, LidInv, RowsAreAsSent
        <5>2. rows'[i] = [rows[i] EXCEPT !.sender = s, !.time = t] /\ i \in DOMAIN rows'
          BY <2>1, <4>2 DEF Restored
        <5>3. /\ rows'[i] \in Rows /\ rows'[i].id = m /\ rows'[i].chat = j
              /\ rows'[i].mine = rows[i].mine /\ rows'[i].deleted = rows[i].deleted
              /\ rows'[i].time = t /\ rows'[i].sender = s
          BY <1>4, <4>1, <5>1, <5>2 DEF Rows
        <5>4. QED  BY <1>4, <1>5, <5>1, <5>2, <5>3 DEF SameRow
      <4>3. CASE i \notin RowAt(m, j)  BY <2>1, <4>1, <4>3 DEF SameRow
      <4>4. QED  BY <4>2, <4>3
    <3>2. QED  BY <2>1, <3>1 DEF RowsKept
  <2>2. CASE /\ RowAt(m, j) = {} /\ LastRow + 1 \notin DOMAIN rows
             /\ DOMAIN rows' = DOMAIN rows \union {LastRow + 1}
             /\ \A i \in DOMAIN rows : rows'[i] = rows[i]
             /\ rows'[LastRow + 1] = [id |-> m, chat |-> j, sender |-> s, mine |-> mine,
                                      time |-> t, deleted |-> FALSE]
    <3>1. \A i \in DOMAIN rows : SameRow(i)  BY <1>6, <2>2 DEF SameRow
    <3>2. NewRow(LastRow + 1)
      <4> DEFINE r == rows'[LastRow + 1]
      <4>1. /\ r.id = m /\ r.chat = j /\ r.sender = s /\ r.mine = mine /\ r.time = t
            /\ r.deleted = FALSE
        BY <2>2
      <4>2. r \in Rows  BY <1>1, <1>4, <2>2 DEF Rows
      <4> HIDE DEF r
      <4>3. QED  BY <1>1, <1>4, <1>5, <2>2, <4>1, <4>2 DEF NewRow, r
    <3>3. QED  BY <2>2, <3>1, <3>2 DEF RowsKept
  <2>3. QED  BY <1>1, <1>2, <2>1, <2>2, MessageIsStored
<1>8. QED  BY <1>5, <1>7 DEF Kept

LEMMA MessageKeeps ==
  ASSUME LidInv, NEW m \in Msgs, NEW raw \in Jids, NEW from \in Addresses, NEW t \in Times,
         NEW pushed \in BOOLEAN, HandleMessage(m, raw, from, t, pushed)
  PROVE  Kept
<1> DEFINE name == LiveChatName(Resolved(raw), raw, Resolved(from), pushed)
<1>1. /\ Bears(m, raw, from) /\ sent' = sent /\ StoreChat(Resolved(raw), name, t)
      /\ StoreMessage(m, Resolved(raw), Resolved(from), sent[m].from = Me, t)
  BY DEF HandleMessage, resolveLIDChat, resolveUserJID, bounds
<1>2. lids \subseteq People /\ NamesAreTheirs  BY DEF LidInv, LidTypeOK
<1>3. Resolved(from) \in Addresses  BY <1>2, ResolvedIs
<1>4. Takes(Resolved(raw), name)  BY <1>2, <1>3, LiveNameTaken
<1> HIDE DEF name
<1>5. QED  BY <1>1, <1>4, StoringKeeps

LEMMA SyncedKeeps ==
  ASSUME LidInv, NEW m \in Msgs, NEW raw \in Jids, NEW from \in Addresses, HandleSynced(m, raw, from)
  PROVE  Kept
<1> DEFINE name == GetChatName(Resolved(raw), Resolved(raw))
<1>1. /\ Bears(m, raw, from) /\ sent' = sent /\ StoreChat(Resolved(raw), name, sent[m].time)
      /\ StoreMessage(m, Resolved(raw), Resolved(from), sent[m].from = Me, sent[m].time)
  BY DEF HandleSynced, resolveLIDChat, resolveUserJID, bounds
<1>2. lids \subseteq People /\ NamesAreTheirs /\ sent[m].time \in Times
  BY TrafficForms DEF LidInv, LidTypeOK
<1>3. Resolved(raw) \in Jids /\ Resolved(raw) \in Addresses  BY <1>2, ResolvedIs DEF Addresses
<1>4. Takes(Resolved(raw), name)  BY <1>2, <1>3, NameTaken
<1> HIDE DEF name
<1>5. QED  BY <1>1, <1>2, <1>4, StoringKeeps

LEMMA RevokeKeeps ==
  ASSUME LidInv, NEW m \in Msgs, NEW raw \in Jids, NEW from \in Addresses, NEW t \in Times,
         NEW pushed \in BOOLEAN, HandleRevoke(m, raw, from, t, pushed)
  PROVE  Kept
<1> DEFINE j == Resolved(raw)
           name == LiveChatName(j, raw, Resolved(from), pushed)
<1>1. /\ sent' = sent /\ StoreChat(j, name, t)
      /\ rows' = [i \in DOMAIN rows |-> IF i \in RowAt(m, j) THEN [rows[i] EXCEPT !.deleted = TRUE] ELSE rows[i]]
  BY DEF HandleRevoke, resolveLIDChat, resolveUserJID
<1>2. LidTypeOK /\ lids \subseteq People /\ NamesAreTheirs  BY DEF LidInv, LidTypeOK
<1>3. j \in Jids /\ \A p \in lids : j # Lid(p)  BY <1>2, ResolvedIs DEF Addresses
<1>4. Takes(j, name)
  <2>1. Resolved(from) \in Addresses  BY <1>2, ResolvedIs
  <2>2. QED  BY <1>2, <2>1, LiveNameTaken
<1> HIDE DEF j, name
<1>5. ChatsKept  BY <1>1, <1>3, <1>4, StoredChatIsKept
<1>6. ASSUME NEW i \in DOMAIN rows PROVE SameRow(i)
  <2>1. rows[i] \in Rows  BY <1>2 DEF LidTypeOK
  <2>2. CASE i \in RowAt(m, j)
    <3>1. rows'[i] = [rows[i] EXCEPT !.deleted = TRUE] /\ i \in DOMAIN rows'  BY <1>1, <2>2
    <3>2. QED  BY <2>1, <3>1 DEF SameRow, Rows
  <2>3. CASE i \notin RowAt(m, j)  BY <1>1, <2>1, <2>3 DEF SameRow
  <2>4. QED  BY <2>2, <2>3
<1>7. QED  BY <1>1, <1>5, <1>6 DEF Kept, RowsKept

\* The marker of the receipt's chat moves to the time of a row or of the receipt.
LEMMA ReceiptEffect ==
  ASSUME LidInv, NEW m \in Msgs, NEW raw \in Jids, NEW t \in Times, HandleReceipt(m, raw, t)
  PROVE  \E j \in Jids, u \in Times :
           /\ \A p \in lids : j # Lid(p)
           /\ chats' = [chats EXCEPT ![j].known = TRUE, ![j].read = Later(@, u)]
<1> DEFINE j == Resolved(raw)
           acked == {rows[i].time : i \in RowAt(m, j)}
           readAt == IF acked = {} THEN t ELSE Newest(acked)
<1>1. chats' = [chats EXCEPT ![j].known = TRUE, ![j].read = Later(@, readAt)]
  BY DEF HandleReceipt, resolveLIDChat
<1>2. LidTypeOK /\ lids \subseteq People  BY DEF LidInv, LidTypeOK
<1>3. j \in Jids /\ \A p \in lids : j # Lid(p)  BY <1>2, ResolvedIs DEF Addresses
<1>4. readAt \in Times
  <2>1. acked \subseteq 1..MaxTime  BY <1>2 DEF LidTypeOK, Rows, Times, RowAt
  <2>2. acked # {} => Newest(acked) \in acked  BY <2>1, LidAssumption, NewestIs
  <2>3. QED  BY <2>1, <2>2 DEF Times
<1> HIDE DEF j, readAt
<1>5. QED  BY <1>1, <1>3, <1>4

LEMMA ReceiptKeeps ==
  ASSUME LidInv, NEW m \in Msgs, NEW raw \in Jids, NEW t \in Times, HandleReceipt(m, raw, t)
  PROVE  Kept
<1>1. sent' = sent /\ rows' = rows  BY DEF HandleReceipt
<1>2. PICK j \in Jids, u \in Times :
        /\ \A p \in lids : j # Lid(p)
        /\ chats' = [chats EXCEPT ![j].known = TRUE, ![j].read = Later(@, u)]
  BY ReceiptEffect
<1>3. chats \in [Jids -> Chats] /\ MaxTime \in Nat /\ lids \subseteq People
  BY LidAssumption DEF LidInv, LidTypeOK
<1>4. \A k \in Jids : chats[k] \in Chats /\ chats[k].newest \in 0..MaxTime /\ chats[k].read \in 0..MaxTime
  BY <1>3 DEF Chats
<1>5. Later(chats[j].read, u) \in 0..MaxTime /\ chats[j].read <= Later(chats[j].read, u)
  BY <1>3, <1>4 DEF Later, Times
<1>6. \A k \in Jids \ {j} : chats'[k] = chats[k]  BY <1>2, <1>3
<1>7. /\ chats'[j] \in Chats /\ chats'[j].known
      /\ chats'[j].newest = chats[j].newest /\ chats'[j].read = Later(chats[j].read, u)
      /\ chats'[j].name = chats[j].name
  BY <1>2, <1>3, <1>4, <1>5 DEF Chats
<1>8. chats' = [k \in Jids |-> chats'[k]]  BY <1>2, <1>3
<1>9. chats' \in [Jids -> Chats]  BY <1>4, <1>6, <1>7, <1>8
<1>10. \A k \in Jids : chats[k].newest <= chats'[k].newest /\ chats[k].read <= chats'[k].read
  BY <1>3, <1>4, <1>5, <1>6, <1>7
<1>11. \A p \in lids : Lid(p) \in Jids \ {j}  BY <1>2, <1>3, Forms
<1>12. \A k \in Jids : chats'[k].name = chats[k].name  BY <1>6, <1>7
<1>13. ChatsKept  BY <1>6, <1>7, <1>9, <1>10, <1>11, <1>12, Zenon DEF ChatsKept
<1>14. QED  BY <1>1, <1>13, SameRows DEF Kept

LEMMA SendersKeep ==
  ASSUME LidInv, MigrateLegacyLIDSendersToPhones
  PROVE  Kept
<1>1. sent' = sent /\ chats' = chats  BY DEF MigrateLegacyLIDSendersToPhones
<1>2. LidTypeOK /\ lids \subseteq People  BY DEF LidInv, LidTypeOK
<1>3. CASE rows' = rows  BY <1>1, <1>3, SameRows, SameChats DEF Kept
<1>4. CASE rows' = [i \in DOMAIN rows |->
                     IF rows[i].sender[2] = "lid" /\ rows[i].sender[1] \in lids
                     THEN [rows[i] EXCEPT !.sender = Phone(@[1])] ELSE rows[i]]
  <2>1. ASSUME NEW i \in DOMAIN rows PROVE SameRow(i)
    <3>1. rows[i] \in Rows  BY <1>2 DEF LidTypeOK
    <3>2. CASE rows[i].sender[2] = "lid" /\ rows[i].sender[1] \in lids
      <4> DEFINE a == Phone(rows[i].sender[1])
      <4>1. rows'[i] = [rows[i] EXCEPT !.sender = a] /\ i \in DOMAIN rows'  BY <1>4, <3>2
      <4>2. a \in Addresses /\ a[1] = rows[i].sender[1] /\ \A p \in lids : a # Lid(p)
        BY <1>2, <3>2, Forms DEF Addresses
      <4> HIDE DEF a
      <4>3. QED  BY <3>1, <4>1, <4>2 DEF SameRow, Rows
    <3>3. CASE ~(rows[i].sender[2] = "lid" /\ rows[i].sender[1] \in lids)
      BY <1>4, <3>1, <3>3 DEF SameRow
    <3>4. QED  BY <3>2, <3>3
  <2>2. RowsKept  BY <1>4, <2>1 DEF RowsKept
  <2>3. QED  BY <1>1, <2>2, SameChats DEF Kept
<1>5. QED  BY <1>3, <1>4 DEF MigrateLegacyLIDSendersToPhones

LEMMA BridgeKeeps ==
  ASSUME LidInv, [Bridge]_lidVars, ~MigrateLegacyLIDChatsToPhoneJIDs
  PROVE  Kept
<1>1. ASSUME NEW p \in People, MapIsLearnt(p) PROVE Kept
  BY <1>1, SameRows, SameChats DEF MapIsLearnt, store, bounds, Kept
<1>2. ASSUME NEW m \in Msgs, NEW raw \in Jids, Arrive(m, raw) PROVE Kept
  BY <1>2, MessageKeeps, SyncedKeeps, RevokeKeeps, ReceiptKeeps, Zenon DEF Arrive
<1>3. CASE Stop  BY <1>3, SameRows, SameChats DEF Stop, store, Kept
<1>4. CASE MigrateLegacyLIDSendersToPhones  BY <1>4, SendersKeep
<1>5. CASE UNCHANGED lidVars  BY <1>5, SameRows, SameChats DEF lidVars, state, store, bounds, Kept
<1>6. QED  BY <1>1, <1>2, <1>3, <1>4, <1>5, Zenon DEF Bridge, Step

-----------------------------------------------------------------------------
(* The chat migration *)

\* The LID chat of each person in Legacy is merged into the phone chat.
ChatsMerged ==
  /\ chats' \in [Jids -> Chats]
  /\ \A j \in Jids : j[1] \notin Legacy => chats'[j] = chats[j]
  /\ \A p \in Legacy :
       /\ chats'[Lid(p)] = NoChat
       /\ chats'[Phone(p)].known
       /\ chats'[Phone(p)].newest = Later(chats[Phone(p)].newest, chats[Lid(p)].newest)
       /\ chats'[Phone(p)].read = Later(chats[Phone(p)].read, chats[Lid(p)].read)
       /\ chats'[Phone(p)].name \in {chats[Phone(p)].name, chats[Lid(p)].name, Phone(p)}

LEMMA ChatsAreMerged ==
  ASSUME LidInv, MigrateLegacyLIDChatsToPhoneJIDs
  PROVE  ChatsMerged
<1>1. /\ chats \in [Jids -> Chats] /\ MaxTime \in Nat /\ lids \subseteq People
      /\ \A i \in DOMAIN rows : rows[i] \in Rows
  BY LidAssumption DEF LidInv, LidTypeOK
<1>2. chats' = [j \in Jids |-> IF j[1] \notin Legacy THEN chats[j]
                               ELSE IF j[2] = "lid" THEN NoChat ELSE MergedChat(j[1])]
  BY DEF MigrateLegacyLIDChatsToPhoneJIDs
<1>3. Legacy \subseteq People  BY <1>1 DEF Legacy
<1>4. NoChat \in Chats  BY <1>1 DEF NoChat, Chats, Names
<1>5. ASSUME NEW p \in Legacy
      PROVE  /\ MergedChat(p) \in Chats /\ MergedChat(p).known
             /\ MergedChat(p).newest = Later(chats[Phone(p)].newest, chats[Lid(p)].newest)
             /\ MergedChat(p).read = Later(chats[Phone(p)].read, chats[Lid(p)].read)
             /\ MergedChat(p).name \in {chats[Phone(p)].name, chats[Lid(p)].name, Phone(p)}
  <2>1. chats[Phone(p)] \in Chats /\ chats[Lid(p)] \in Chats  BY <1>1, <1>3, Forms
  <2>2. SourceNewest(p) = chats[Lid(p)].newest
    <3>1. CASE chats[Lid(p)].newest # 0  BY <3>1 DEF SourceNewest
    <3>2. CASE chats[Lid(p)].newest = 0
      <4>1. ASSUME NEW i \in InLid(p) PROVE FALSE
        <5>1. i \in DOMAIN rows /\ rows[i].chat = Lid(p)  BY DEF InLid
        <5>2. rows[i].time \in 1..MaxTime  BY <1>1, <5>1 DEF Rows, Times
        <5>3. chats[Lid(p)].newest >= rows[i].time  BY <5>1 DEF LidInv, RowsHaveChats
        <5>4. QED  BY <1>1, <3>2, <5>2, <5>3
      <4>2. {rows[i].time : i \in InLid(p)} = {}  BY <4>1
      <4>3. QED  BY <3>2, <4>2 DEF SourceNewest, Newest
    <3>3. QED  BY <3>1, <3>2
  <2>3. /\ Later(chats[Phone(p)].newest, chats[Lid(p)].newest) \in 0..MaxTime
        /\ Later(chats[Phone(p)].read, chats[Lid(p)].read) \in 0..MaxTime
    BY <2>1 DEF Later, Chats
  <2> DEFINE n == IF chats[Phone(p)].name # NoName THEN chats[Phone(p)].name
                  ELSE IF chats[Lid(p)].name # NoName THEN chats[Lid(p)].name ELSE Phone(p)
             a == Later(chats[Phone(p)].newest, chats[Lid(p)].newest)
             b == Later(chats[Phone(p)].read, chats[Lid(p)].read)
  <2>4. n \in Names /\ n \in {chats[Phone(p)].name, chats[Lid(p)].name, Phone(p)}
    <3>1. Phone(p) \in Names  BY <1>3, Forms DEF Names, Addresses
    <3>2. chats[Phone(p)].name \in Names /\ chats[Lid(p)].name \in Names  BY <2>1 DEF Chats
    <3>3. QED  BY <3>1, <3>2
  <2>5. MergedChat(p) = [known |-> TRUE, name |-> n, newest |-> a, read |-> b]
    BY <2>2 DEF MergedChat
  <2> HIDE DEF n
  <2>6. QED  BY <2>3, <2>4, <2>5 DEF Chats
<1>6. ASSUME NEW j \in Jids PROVE chats'[j] \in Chats
  BY <1>1, <1>2, <1>4, <1>5
<1>7. chats' \in [Jids -> Chats]  BY <1>2, <1>6
<1>8. \A j \in Jids : j[1] \notin Legacy => chats'[j] = chats[j]  BY <1>2
<1>9. ASSUME NEW p \in Legacy PROVE chats'[Lid(p)] = NoChat /\ chats'[Phone(p)] = MergedChat(p)
  BY <1>2, <1>3, Forms
<1>10. QED  BY <1>5, <1>7, <1>8, <1>9 DEF ChatsMerged

\* Where the rows of the LID chats go, for the invariant.
MovedRow(i) ==
  \E p \in Legacy, k \in DOMAIN rows :
    /\ rows[k].chat = Lid(p) /\ RowAt(rows[k].id, Phone(p)) = {}
    /\ i = LastRow + k /\ i \notin DOMAIN rows
    /\ rows'[i] \in Rows /\ rows'[i].chat = Phone(p) /\ ~rows'[i].deleted
    /\ rows'[i].id = rows[k].id /\ rows'[i].sender = rows[k].sender
    /\ rows'[i].mine = rows[k].mine /\ rows'[i].time = rows[k].time

RowsMoved ==
  /\ \A i \in DOMAIN rows' : (i \in DOMAIN rows \ InLegacyChat /\ rows'[i] = rows[i]) \/ MovedRow(i)
  /\ \A i \in DOMAIN rows \ InLegacyChat : i \in DOMAIN rows' /\ rows'[i] = rows[i]
  /\ \A p \in Legacy, k \in DOMAIN rows :
       rows[k].chat = Lid(p) /\ RowAt(rows[k].id, Phone(p)) = {} =>
         LastRow + k \in DOMAIN rows' /\ MovedRow(LastRow + k)
  /\ DOMAIN rows' \subseteq 1..(LastRow + LastRow)

LEMMA RowsAreMovedRight ==
  ASSUME LidInv, MigrateLegacyLIDChatsToPhoneJIDs
  PROVE  RowsMoved
<1>1. LidTypeOK /\ rows' = MovedRows  BY DEF LidInv, MigrateLegacyLIDChatsToPhoneJIDs
<1>2. /\ \A i \in DOMAIN rows' :
              \/ i \in DOMAIN rows \ InLegacyChat /\ rows'[i] = rows[i]
              \/ \E k \in InLegacyChat :
                   /\ RowAt(rows[k].id, Phone(rows[k].chat[1])) = {}
                   /\ i = LastRow + k /\ i \notin DOMAIN rows /\ rows'[i] = Moved(rows[k])
      /\ \A i \in DOMAIN rows \ InLegacyChat : i \in DOMAIN rows'
      /\ \A k \in InLegacyChat :
              RowAt(rows[k].id, Phone(rows[k].chat[1])) = {} => LastRow + k \in DOMAIN rows'
      /\ DOMAIN rows' \subseteq 1..(LastRow + LastRow)
  BY <1>1, RowsAreMoved
<1>3. LastRow \in Nat /\ DOMAIN rows \subseteq 1..LastRow /\ \A i \in DOMAIN rows : rows[i] \in Rows
  BY <1>1 DEF LidTypeOK
<1>4. lids \subseteq People /\ Legacy \subseteq lids  BY <1>1 DEF LidTypeOK, Legacy
<1>5. \A k \in InLegacyChat : k \in DOMAIN rows /\ \E p \in Legacy : rows[k].chat = Lid(p) /\ rows[k].chat[1] = p
  BY Forms DEF InLegacyChat
<1>6. ASSUME NEW k \in InLegacyChat, NEW i, RowAt(rows[k].id, Phone(rows[k].chat[1])) = {},
             i = LastRow + k, i \notin DOMAIN rows, rows'[i] = Moved(rows[k])
      PROVE  MovedRow(i)
  <2>1. PICK p \in Legacy : k \in DOMAIN rows /\ rows[k].chat = Lid(p) /\ rows[k].chat[1] = p  BY <1>5
  <2>2. Phone(p) \in Jids  BY <1>4, Forms
  <2>3. rows[k] \in Rows /\ rows'[i] = [rows[k] EXCEPT !.chat = Phone(p), !.deleted = FALSE]
    BY <1>3, <1>6, <2>1 DEF Moved
  <2>4. /\ rows'[i] \in Rows /\ rows'[i].chat = Phone(p) /\ ~rows'[i].deleted
        /\ rows'[i].id = rows[k].id /\ rows'[i].sender = rows[k].sender
        /\ rows'[i].mine = rows[k].mine /\ rows'[i].time = rows[k].time
    BY <2>2, <2>3 DEF Rows
  <2>5. QED  BY <1>6, <2>1, <2>4 DEF MovedRow
<1>7. \A i \in DOMAIN rows' : (i \in DOMAIN rows \ InLegacyChat /\ rows'[i] = rows[i]) \/ MovedRow(i)
  BY <1>2, <1>6
<1>8. \A i \in DOMAIN rows \ InLegacyChat : i \in DOMAIN rows' /\ rows'[i] = rows[i]
  <2> SUFFICES ASSUME NEW i \in DOMAIN rows \ InLegacyChat PROVE i \in DOMAIN rows' /\ rows'[i] = rows[i]
    OBVIOUS
  <2>1. i \in DOMAIN rows'  BY <1>2
  <2>2. ~MovedRow(i)  BY DEF MovedRow
  <2>3. QED  BY <1>7, <2>1, <2>2
<1>9. ASSUME NEW p \in Legacy, NEW k \in DOMAIN rows, rows[k].chat = Lid(p), RowAt(rows[k].id, Phone(p)) = {}
      PROVE  LastRow + k \in DOMAIN rows' /\ MovedRow(LastRow + k)
  <2>1. k \in InLegacyChat /\ rows[k].chat[1] = p  BY <1>9, Forms DEF InLegacyChat
  <2>2. LastRow + k \in DOMAIN rows'  BY <1>2, <1>9, <2>1
  <2>3. k \in 1..LastRow  BY <1>3
  <2>4. LastRow + k \notin DOMAIN rows  BY <1>3, <2>3
  <2>5. QED  BY <1>7, <2>2, <2>4
<1>10. QED  BY <1>2, <1>7, <1>8, <1>9 DEF RowsMoved

-----------------------------------------------------------------------------
(* The invariant of the writers *)

\* The map only grows; a start is completed by its second migration, which
\* leaves no sender under a LID of the map.
LEMMA ControlStep ==
  ASSUME LidTypeOK, [Bridge]_lidVars
  PROVE  /\ lids' \subseteq People /\ settled' \subseteq lids' /\ lids \subseteq lids'
         /\ stage' \in {"up", "down", "chats moved"}
         /\ \/ settled' = settled
            \/ /\ stage = "chats moved" /\ settled' = lids
               /\ \A i \in DOMAIN rows', p \in lids : rows'[i].sender # Lid(p)
         /\ stage' = "chats moved" =>
              MigrateLegacyLIDChatsToPhoneJIDs \/ (stage = "chats moved" /\ lids' = lids)
         /\ MigrateLegacyLIDChatsToPhoneJIDs => lids' = lids /\ settled' = settled /\ sent' = sent
         /\ strangers \subseteq strangers' /\ strangers' \subseteq strangers \union People
         /\ \/ UNCHANGED <<chats, strangers>>
            \/ \A p \in People : chats'[Lid(p)].known => p \in strangers'
<1> DEFINE Goal ==
         /\ lids' \subseteq People /\ settled' \subseteq lids' /\ lids \subseteq lids'
         /\ stage' \in {"up", "down", "chats moved"}
         /\ \/ settled' = settled
            \/ /\ stage = "chats moved" /\ settled' = lids
               /\ \A i \in DOMAIN rows', p \in lids : rows'[i].sender # Lid(p)
         /\ stage' = "chats moved" =>
              MigrateLegacyLIDChatsToPhoneJIDs \/ (stage = "chats moved" /\ lids' = lids)
         /\ MigrateLegacyLIDChatsToPhoneJIDs => lids' = lids /\ settled' = settled /\ sent' = sent
<1>a. /\ lids \subseteq People /\ settled \subseteq lids /\ stage \in {"up", "down", "chats moved"}
      /\ \A i \in DOMAIN rows : rows[i] \in Rows
  BY DEF LidTypeOK
<1>b. MigrateLegacyLIDChatsToPhoneJIDs => stage = "down" /\ lids' = lids /\ settled' = settled /\ sent' = sent
  BY DEF MigrateLegacyLIDChatsToPhoneJIDs, bounds
<1>1. ASSUME NEW p \in People, MapIsLearnt(p) PROVE Goal
  BY <1>a, <1>b, <1>1 DEF MapIsLearnt
<1>2. ASSUME NEW m \in Msgs, NEW raw \in Jids, Arrive(m, raw) PROVE Goal
  <2>1. stage = "up" /\ UNCHANGED <<lids, stage, settled>>
    BY <1>2 DEF Arrive, HandleMessage, HandleSynced, HandleRevoke, HandleReceipt
  <2>2. QED  BY <1>a, <1>b, <2>1
<1>3. ASSUME Stop PROVE Goal  BY <1>a, <1>b, <1>3 DEF Stop
<1>4. ASSUME MigrateLegacyLIDSendersToPhones PROVE Goal
  <2>1. stage = "chats moved" /\ lids' = lids /\ stage' \in {"up", "down"}
    BY <1>4 DEF MigrateLegacyLIDSendersToPhones
  <2>2. CASE settled' = settled  BY <1>a, <1>b, <2>1, <2>2
  <2>3. CASE settled' = lids /\ rows' = [i \in DOMAIN rows |->
                     IF rows[i].sender[2] = "lid" /\ rows[i].sender[1] \in lids
                     THEN [rows[i] EXCEPT !.sender = Phone(@[1])] ELSE rows[i]]
    <3>1. ASSUME NEW i \in DOMAIN rows', NEW p \in lids PROVE rows'[i].sender # Lid(p)
      <4>1. i \in DOMAIN rows /\ rows[i] \in Rows  BY <1>a, <2>3
      <4>2. CASE rows[i].sender[2] = "lid" /\ rows[i].sender[1] \in lids
        <5> DEFINE a == Phone(rows[i].sender[1])
        <5>1. rows'[i] = [rows[i] EXCEPT !.sender = a]  BY <2>3, <4>1, <4>2
        <5>2. rows'[i].sender = a  BY <4>1, <5>1 DEF Rows
        <5>3. QED  BY <5>2, Forms
      <4>3. CASE ~(rows[i].sender[2] = "lid" /\ rows[i].sender[1] \in lids)
        BY <2>3, <4>1, <4>3, Forms
      <4>4. QED  BY <4>2, <4>3
    <3>2. QED  BY <1>a, <1>b, <2>1, <2>3, <3>1
  <2>4. QED  BY <1>4, <2>2, <2>3 DEF MigrateLegacyLIDSendersToPhones
<1>5. ASSUME MigrateLegacyLIDChatsToPhoneJIDs PROVE Goal
  BY <1>a, <1>b, <1>5 DEF MigrateLegacyLIDChatsToPhoneJIDs
<1>6. ASSUME UNCHANGED lidVars PROVE Goal
  BY <1>a, <1>b, <1>6 DEF lidVars, state, store, bounds
<1>7. Goal  BY <1>1, <1>2, <1>3, <1>4, <1>5, <1>6, Zenon DEF Bridge, Step
<1> HIDE DEF Goal
<1>8. /\ strangers \subseteq strangers' /\ strangers' \subseteq strangers \union People
      /\ \/ UNCHANGED <<chats, strangers>>
         \/ \A p \in People : chats'[Lid(p)].known => p \in strangers'
  <2>1. CASE Bridge
    <3>1. strangers' = strangers \union {p \in People : chats'[Lid(p)].known}  BY <2>1 DEF Bridge
    <3>2. QED  BY <3>1
  <2>2. CASE UNCHANGED lidVars  BY <2>2 DEF lidVars, state, store
  <2>3. QED  BY <2>1, <2>2
<1>9. QED  BY <1>7, <1>8 DEF Goal

LEMMA KeptInv ==
  ASSUME LidInv, [Bridge]_lidVars, ~MigrateLegacyLIDChatsToPhoneJIDs
  PROVE  LidInv'
<1>1. Kept  BY BridgeKeeps
<1>2. sent' = sent /\ ChatsKept /\ RowsKept  BY <1>1 DEF Kept
<1>3. LidTypeOK  BY DEF LidInv
<1>4. /\ lids \subseteq People /\ settled \subseteq lids /\ chats \in [Jids -> Chats]
      /\ LastRow \in Nat /\ DOMAIN rows \subseteq 1..LastRow
      /\ \A i \in DOMAIN rows : rows[i] \in Rows
      /\ \A i, k \in DOMAIN rows : i # k => <<rows[i].id, rows[i].chat>> # <<rows[k].id, rows[k].chat>>
  BY <1>3 DEF LidTypeOK
<1>5. \A i \in DOMAIN rows : SameRow(i)  BY <1>2 DEF RowsKept
<1>6. \A i \in DOMAIN rows' \ DOMAIN rows : NewRow(i)  BY <1>2 DEF RowsKept
<1>7. \A i \in DOMAIN rows' : rows'[i] \in Rows  BY <1>5, <1>6 DEF SameRow, NewRow
<1>8. LidTypeOK'
  <2>1. DOMAIN rows' \subseteq 1..(LastRow + 1)  BY <1>4, <1>6 DEF NewRow
  <2>2. LastRow' \in Nat /\ DOMAIN rows' \subseteq 1..LastRow'  BY <1>4, <2>1, RowidsEnd
  <2>3. ASSUME NEW i \in DOMAIN rows', NEW k \in DOMAIN rows', i # k
        PROVE  <<rows'[i].id, rows'[i].chat>> # <<rows'[k].id, rows'[k].chat>>
    <3>1. CASE i \in DOMAIN rows /\ k \in DOMAIN rows
      BY <1>4, <1>5, <2>3, <3>1 DEF SameRow
    <3>2. CASE i \in DOMAIN rows /\ k \notin DOMAIN rows
      BY <1>5, <1>6, <3>2 DEF SameRow, NewRow, RowAt
    <3>3. CASE i \notin DOMAIN rows /\ k \in DOMAIN rows
      BY <1>5, <1>6, <3>3 DEF SameRow, NewRow, RowAt
    <3>4. CASE i \notin DOMAIN rows /\ k \notin DOMAIN rows
      BY <1>6, <2>3, <3>4 DEF NewRow
    <3>5. QED  BY <3>1, <3>2, <3>3, <3>4
  <2>4. chats' \in [Jids -> Chats]  BY <1>2 DEF ChatsKept
  <2>5. strangers' \subseteq People
    BY <1>3, ControlStep DEF LidTypeOK
  <2>6. QED  BY <1>3, <1>7, <2>2, <2>3, <2>4, <2>5, ControlStep, Zenon DEF LidTypeOK
<1>9. RowsAreAsSent'
  <2> SUFFICES ASSUME NEW i \in DOMAIN rows'
               PROVE  /\ rows'[i].chat[1] = sent[rows'[i].id].in
                      /\ rows'[i].sender[1] = sent[rows'[i].id].from
                      /\ rows'[i].mine <=> rows'[i].sender[1] = Me
    BY <1>2 DEF RowsAreAsSent
  <2>1. CASE i \in DOMAIN rows
    <3>1. /\ rows[i].chat[1] = sent[rows[i].id].in
          /\ rows[i].sender[1] = sent[rows[i].id].from
          /\ rows[i].mine <=> rows[i].sender[1] = Me
      BY <2>1 DEF LidInv, RowsAreAsSent
    <3>2. SameRow(i) /\ rows'[i].sender[1] = rows[i].sender[1]  BY <1>5, <2>1 DEF SameRow
    <3>3. QED  BY <3>1, <3>2 DEF SameRow
  <2>2. CASE i \notin DOMAIN rows  BY <1>6, <2>2 DEF NewRow
  <2>3. QED  BY <2>1, <2>2
<1>10. RowsHaveChats'
  <2> SUFFICES ASSUME NEW i \in DOMAIN rows'
               PROVE  chats'[rows'[i].chat].known /\ chats'[rows'[i].chat].newest >= rows'[i].time
    BY DEF RowsHaveChats
  <2>1. CASE i \in DOMAIN rows
    <3> DEFINE j == rows[i].chat
    <3>1. /\ rows'[i].chat = j /\ j \in Jids /\ rows[i].time \in Nat
          /\ rows'[i].time = rows[i].time \/ chats'[j].newest >= rows'[i].time
      BY <1>4, <1>5, <2>1 DEF SameRow, Rows, Times
    <3>2. chats[j].known /\ chats[j].newest >= rows[i].time  BY <2>1 DEF LidInv, RowsHaveChats
    <3>3. chats'[j].known /\ chats[j].newest <= chats'[j].newest  BY <1>2, <3>1, <3>2 DEF ChatsKept
    <3>4. chats[j].newest \in 0..MaxTime /\ chats'[j].newest \in 0..MaxTime
      BY <1>2, <1>4, <3>1 DEF ChatsKept, Chats
    <3> HIDE DEF j
    <3>5. QED  BY <3>1, <3>2, <3>3, <3>4
  <2>2. CASE i \notin DOMAIN rows  BY <1>6, <2>2 DEF NewRow
  <2>3. QED  BY <2>1, <2>2
<1>11. ASSUME NEW p \in lids, ChatMoved(p) PROVE ChatMoved(p)'
  <2>1. ~chats'[Lid(p)].known  BY <1>2, <1>11 DEF ChatsKept, ChatMoved
  <2>2. ASSUME NEW i \in DOMAIN rows' PROVE rows'[i].chat # Lid(p)
    BY <1>5, <1>6, <1>11 DEF SameRow, NewRow, ChatMoved
  <2>3. QED  BY <2>1, <2>2 DEF ChatMoved, Lid
<1>12. ASSUME NEW p \in lids, NEW i \in DOMAIN rows', rows'[i].sender = Lid(p)
       PROVE  i \in DOMAIN rows /\ rows[i].sender = Lid(p)
  BY <1>5, <1>6, <1>12 DEF SameRow, NewRow
<1>13. NamesAreTheirs'
  <2>a. NamesAreTheirs  BY DEF LidInv
  <2>b. \A j \in Jids : chats'[j].name = chats[j].name \/ Takes(j, chats'[j].name)
    BY <1>2 DEF ChatsKept
  <2>1. \A j \in Jids : Fits(j, chats'[j].name)  BY <2>a, <2>b DEF NamesAreTheirs, Takes
  <2>2. ASSUME NEW p \in Known \ strangers' PROVE chats'[Phone(p)].name \in {NoName, Named(p)}
    <3>1. p \in Known \ strangers /\ Phone(p) \in Jids  BY <1>3, ControlStep, Forms, LidAssumption
    <3>2. chats[Phone(p)].name \in {NoName, Named(p)}  BY <2>a, <3>1 DEF NamesAreTheirs
    <3>3. QED  BY <2>b, <3>1, <3>2 DEF Takes
  <2>3. \A p \in People : chats'[Lid(p)].known => p \in strangers'
    BY <1>3, <2>a, ControlStep DEF NamesAreTheirs
  <2>4. QED
    BY <2>1, <2>2, <2>3 DEF NamesAreTheirs, Fits, IsDigits, Named, Push, NoName, Phone, Lid
<1>14. SettledStay'
  <2>1. ASSUME NEW p \in settled'
        PROVE  ChatMoved(p)' /\ \A i \in DOMAIN rows' : rows'[i].sender # Lid(p)
    <3>1. CASE settled' = settled
      <4>1. p \in lids /\ ChatMoved(p) /\ \A i \in DOMAIN rows : rows[i].sender # Lid(p)
        BY <1>4, <2>1, <3>1 DEF LidInv, SettledStay
      <4>2. QED  BY <1>11, <1>12, <4>1
    <3>2. CASE /\ stage = "chats moved" /\ settled' = lids
               /\ \A i \in DOMAIN rows', q \in lids : rows'[i].sender # Lid(q)
      <4>1. p \in lids /\ ChatMoved(p)  BY <2>1, <3>2 DEF LidInv, SettledStay
      <4>2. QED  BY <1>11, <3>2, <4>1
    <3>3. QED  BY <1>3, <3>1, <3>2, ControlStep
  <2>2. ASSUME stage' = "chats moved", NEW p \in lids' PROVE ChatMoved(p)'
    <3>1. stage = "chats moved" /\ lids' = lids  BY <1>3, <2>2, ControlStep
    <3>2. QED  BY <1>11, <2>2, <3>1 DEF LidInv, SettledStay
  <2>3. QED  BY <2>1, <2>2 DEF SettledStay, Lid
<1>15. QED  BY <1>2, <1>8, <1>9, <1>10, <1>13, <1>14 DEF LidInv

LEMMA MigrationInv ==
  ASSUME LidInv, Bridge, MigrateLegacyLIDChatsToPhoneJIDs
  PROVE  LidInv'
<1>1. ChatsMerged /\ RowsMoved  BY ChatsAreMerged, RowsAreMovedRight
<1>2. LidTypeOK /\ MaxTime \in Nat  BY LidAssumption DEF LidInv
<1>3. /\ lids \subseteq People /\ settled \subseteq lids /\ chats \in [Jids -> Chats]
      /\ LastRow \in Nat /\ DOMAIN rows \subseteq 1..LastRow
      /\ \A i \in DOMAIN rows : rows[i] \in Rows
      /\ \A i, k \in DOMAIN rows : i # k => <<rows[i].id, rows[i].chat>> # <<rows[k].id, rows[k].chat>>
  BY <1>2 DEF LidTypeOK
<1>4. sent' = sent /\ lids' = lids /\ settled' = settled /\ stage' = "chats moved"
  BY DEF MigrateLegacyLIDChatsToPhoneJIDs, bounds
<1>5. Legacy \subseteq lids  BY DEF Legacy
<1>6. \A i \in DOMAIN rows' : (i \in DOMAIN rows \ InLegacyChat /\ rows'[i] = rows[i]) \/ MovedRow(i)
  BY <1>1 DEF RowsMoved
<1>7. \A p \in lids : \A i \in DOMAIN rows \ InLegacyChat : rows[i].chat # Lid(p)
  BY DEF InLegacyChat, Legacy, InLid
<1>8. \A i \in DOMAIN rows' : rows'[i] \in Rows  BY <1>3, <1>6 DEF MovedRow
<1>9. LidTypeOK'
  <2>1. LastRow + LastRow \in Nat /\ DOMAIN rows' \subseteq 1..(LastRow + LastRow)
    BY <1>1, <1>3 DEF RowsMoved
  <2>2. LastRow' \in Nat /\ DOMAIN rows' \subseteq 1..LastRow'  BY <2>1, RowidsEnd
  <2>3. ASSUME NEW i \in DOMAIN rows', NEW k \in DOMAIN rows', i # k
        PROVE  <<rows'[i].id, rows'[i].chat>> # <<rows'[k].id, rows'[k].chat>>
    <3>1. CASE i \in DOMAIN rows /\ rows'[i] = rows[i] /\ k \in DOMAIN rows /\ rows'[k] = rows[k]
      BY <1>3, <2>3, <3>1
    <3>2. CASE i \in DOMAIN rows /\ rows'[i] = rows[i] /\ MovedRow(k)
      <4>1. PICK p \in Legacy, l \in DOMAIN rows :
              rows'[k].chat = Phone(p) /\ rows'[k].id = rows[l].id /\ RowAt(rows[l].id, Phone(p)) = {}
        BY <3>2 DEF MovedRow
      <4>2. QED  BY <3>2, <4>1 DEF RowAt
    <3>3. CASE MovedRow(i) /\ k \in DOMAIN rows /\ rows'[k] = rows[k]
      <4>1. PICK p \in Legacy, l \in DOMAIN rows :
              rows'[i].chat = Phone(p) /\ rows'[i].id = rows[l].id /\ RowAt(rows[l].id, Phone(p)) = {}
        BY <3>3 DEF MovedRow
      <4>2. QED  BY <3>3, <4>1 DEF RowAt
    <3>4. CASE MovedRow(i) /\ MovedRow(k)
      <4>1. PICK p \in Legacy, l \in DOMAIN rows :
              /\ rows[l].chat = Lid(p) /\ i = LastRow + l
              /\ rows'[i].chat = Phone(p) /\ rows'[i].id = rows[l].id
        BY <3>4 DEF MovedRow
      <4>2. PICK q \in Legacy, n \in DOMAIN rows :
              /\ rows[n].chat = Lid(q) /\ k = LastRow + n
              /\ rows'[k].chat = Phone(q) /\ rows'[k].id = rows[n].id
        BY <3>4 DEF MovedRow
      <4>3. l # n  BY <2>3, <4>1, <4>2
      <4>4. <<rows[l].id, rows[l].chat>> # <<rows[n].id, rows[n].chat>>  BY <1>3, <4>3
      <4>5. Phone(p)[1] = p /\ Phone(q)[1] = q  BY Forms
      <4>6. QED  BY <4>1, <4>2, <4>4, <4>5
    <3>5. QED  BY <1>6, <3>1, <3>2, <3>3, <3>4
  <2>4. chats' \in [Jids -> Chats]  BY <1>1 DEF ChatsMerged
  <2>5. stage' \in {"up", "down", "chats moved"}  BY <1>4
  <2>6. lids' \subseteq People /\ settled' \subseteq lids'  BY <1>3, <1>4
  <2>7. strangers' \subseteq People
    BY <1>2, ControlStep DEF LidTypeOK
  <2>8. QED  BY <1>8, <2>2, <2>3, <2>4, <2>5, <2>6, <2>7, Zenon DEF LidTypeOK
<1>10. RowsAreAsSent'
  <2> SUFFICES ASSUME NEW i \in DOMAIN rows'
               PROVE  /\ rows'[i].chat[1] = sent[rows'[i].id].in
                      /\ rows'[i].sender[1] = sent[rows'[i].id].from
                      /\ rows'[i].mine <=> rows'[i].sender[1] = Me
    BY <1>4 DEF RowsAreAsSent
  <2>1. CASE i \in DOMAIN rows /\ rows'[i] = rows[i]
    BY <2>1 DEF LidInv, RowsAreAsSent
  <2>2. CASE MovedRow(i)
    <3>1. PICK p \in Legacy, k \in DOMAIN rows :
            /\ rows[k].chat = Lid(p) /\ rows'[i].chat = Phone(p)
            /\ rows'[i].id = rows[k].id /\ rows'[i].sender = rows[k].sender
            /\ rows'[i].mine = rows[k].mine /\ rows'[i].time = rows[k].time
      BY <2>2 DEF MovedRow
    <3>2. rows'[i].chat[1] = rows[k].chat[1]  BY <3>1, Forms
    <3>3. QED  BY <3>1, <3>2 DEF LidInv, RowsAreAsSent
  <2>3. QED  BY <1>6, <2>1, <2>2
<1>11. RowsHaveChats'
  <2> SUFFICES ASSUME NEW i \in DOMAIN rows'
               PROVE  chats'[rows'[i].chat].known /\ chats'[rows'[i].chat].newest >= rows'[i].time
    BY DEF RowsHaveChats
  <2>a. \A j \in Jids : chats[j].newest \in 0..MaxTime  BY <1>3 DEF Chats
  <2>b. \A k \in DOMAIN rows : rows[k].time \in 1..MaxTime /\ rows[k].chat \in Jids  BY <1>3 DEF Rows, Times
  <2>1. CASE i \in DOMAIN rows \ InLegacyChat /\ rows'[i] = rows[i]
    <3> DEFINE j == rows[i].chat
    <3>1. j \in Jids /\ chats[j].known /\ chats[j].newest >= rows[i].time
      BY <2>1, <2>b DEF LidInv, RowsHaveChats
    <3>2. CASE j[1] \notin Legacy
      <4>1. chats'[j] = chats[j]  BY <1>1, <3>1, <3>2 DEF ChatsMerged
      <4>2. QED  BY <2>1, <3>1, <4>1
    <3>3. CASE j[1] \in Legacy
      <4> DEFINE p == j[1]
      <4>1. p \in lids /\ p \in People  BY <1>3, <1>5, <3>3
      <4>2. j = Phone(p)
        <5>1. j # Lid(p)  BY <1>7, <2>1, <4>1
        <5>2. p \notin Groups  BY <4>1, LidAssumption
        <5>3. QED  BY <3>1, <5>1, <5>2, JidForms
      <4>3. /\ chats'[j].known
            /\ chats'[j].newest = Later(chats[j].newest, chats[Lid(p)].newest)
        BY <1>1, <3>3, <4>2 DEF ChatsMerged
      <4>4. chats[j].newest \in 0..MaxTime /\ chats[Lid(p)].newest \in 0..MaxTime /\ rows[i].time \in 1..MaxTime
        BY <2>1, <2>a, <2>b, <3>1, <4>1, Forms
      <4> HIDE DEF j, p
      <4>5. chats'[j].newest >= rows[i].time  BY <1>2, <3>1, <4>3, <4>4 DEF Later
      <4>6. QED  BY <2>1, <4>3, <4>5 DEF j
    <3>4. QED  BY <3>2, <3>3
  <2>2. CASE MovedRow(i)
    <3>1. PICK p \in Legacy, k \in DOMAIN rows :
            /\ rows[k].chat = Lid(p) /\ rows'[i].chat = Phone(p) /\ rows'[i].time = rows[k].time
      BY <2>2 DEF MovedRow
    <3>2. chats[Lid(p)].newest >= rows[k].time  BY <3>1 DEF LidInv, RowsHaveChats
    <3>3. /\ chats'[Phone(p)].known
          /\ chats'[Phone(p)].newest = Later(chats[Phone(p)].newest, chats[Lid(p)].newest)
      BY <1>1 DEF ChatsMerged
    <3>4. /\ chats[Phone(p)].newest \in 0..MaxTime /\ chats[Lid(p)].newest \in 0..MaxTime
          /\ rows[k].time \in 1..MaxTime
      BY <1>3, <1>5, <2>a, <2>b, Forms
    <3>5. chats'[Phone(p)].newest >= rows[k].time  BY <1>2, <3>2, <3>3, <3>4 DEF Later
    <3>6. QED  BY <3>1, <3>3, <3>5
  <2>3. QED  BY <1>6, <2>1, <2>2
<1>12. ASSUME NEW p \in lids PROVE ChatMoved(p)'
  <2>1. ~chats'[Lid(p)].known
    <3>1. CASE p \in Legacy  BY <1>1, <3>1 DEF ChatsMerged, NoChat
    <3>2. CASE p \notin Legacy
      <4>1. Lid(p) \in Jids /\ Lid(p)[1] = p  BY <1>3, Forms
      <4>2. chats'[Lid(p)] = chats[Lid(p)]  BY <1>1, <3>2, <4>1 DEF ChatsMerged
      <4>3. QED  BY <3>2, <4>2 DEF Legacy
    <3>3. QED  BY <3>1, <3>2
  <2>2. ASSUME NEW i \in DOMAIN rows' PROVE rows'[i].chat # Lid(p)
    <3>1. CASE i \in DOMAIN rows \ InLegacyChat /\ rows'[i] = rows[i]  BY <1>7, <3>1
    <3>2. CASE MovedRow(i)  BY <3>2, Forms DEF MovedRow
    <3>3. QED  BY <1>6, <3>1, <3>2
  <2>3. QED  BY <2>1, <2>2 DEF ChatMoved, Lid
<1>13. SettledStay'
  <2>1. ASSUME NEW p \in settled, NEW i \in DOMAIN rows' PROVE rows'[i].sender # Lid(p)
    <3>1. \A k \in DOMAIN rows : rows[k].sender # Lid(p)  BY DEF LidInv, SettledStay
    <3>2. \E k \in DOMAIN rows : rows'[i].sender = rows[k].sender  BY <1>6 DEF MovedRow
    <3>3. QED  BY <3>1, <3>2
  <2>2. QED  BY <1>3, <1>4, <1>12, <2>1 DEF SettledStay, Lid
<1>14. NamesAreTheirs'
  <2>a. NamesAreTheirs  BY DEF LidInv
  <2>b. /\ strangers \subseteq strangers'
        /\ \A p \in Legacy : chats[Lid(p)].known /\ p \in strangers /\ p \in People
    <3>1. \A p \in Legacy : chats[Lid(p)].known  BY DEF Legacy, InLid, LidInv, RowsHaveChats
    <3>2. QED  BY <1>2, <1>3, <1>5, <2>a, <3>1, ControlStep DEF NamesAreTheirs
  <2>1. ASSUME NEW j \in Jids PROVE Fits(j, chats'[j].name)
    <3>1. CASE j[1] \notin Legacy
      BY <1>1, <2>a, <3>1 DEF ChatsMerged, NamesAreTheirs
    <3>2. ASSUME NEW p \in Legacy, j = Lid(p) PROVE Fits(j, chats'[j].name)
      <4>1. chats'[j].name = NoName  BY <1>1, <3>2 DEF ChatsMerged, NoChat
      <4>2. QED  BY <4>1 DEF Fits, Names
    <3>3. ASSUME NEW p \in Legacy, j = Phone(p) PROVE Fits(j, chats'[j].name)
      <4>1. chats'[j].name \in {chats[Phone(p)].name, chats[Lid(p)].name, Phone(p)}
        BY <1>1, <3>3 DEF ChatsMerged
      <4>2. /\ Phone(p) \in Jids /\ Lid(p) \in Jids /\ Phone(p)[1] = p /\ Lid(p)[1] = p
        BY <2>b, Forms
      <4>3. Fits(Phone(p), chats[Phone(p)].name) /\ Fits(Lid(p), chats[Lid(p)].name)
        BY <2>a, <4>2 DEF NamesAreTheirs
      <4>4. Fits(j, Phone(p)) /\ Fits(j, chats[Lid(p)].name) /\ Fits(j, chats[Phone(p)].name)
        BY <3>3, <4>2, <4>3 DEF Fits, IsDigits, Addresses, Names
      <4>5. QED  BY <4>1, <4>4
    <3>4. j[1] \in Legacy => j = Phone(j[1]) \/ j = Lid(j[1])
      BY <2>b, JidForms, LidAssumption
    <3>5. QED  BY <3>1, <3>2, <3>3, <3>4
  <2>2. ASSUME NEW p \in Known \ strangers' PROVE chats'[Phone(p)].name \in {NoName, Named(p)}
    <3>1. p \in Known \ strangers /\ Phone(p) \in Jids /\ Phone(p)[1] \notin Legacy
      BY <2>b, Forms, LidAssumption
    <3>2. chats'[Phone(p)] = chats[Phone(p)]  BY <1>1, <3>1 DEF ChatsMerged
    <3>3. QED  BY <2>a, <3>1, <3>2 DEF NamesAreTheirs
  <2>3. \A p \in People : chats'[Lid(p)].known => p \in strangers'
    BY <1>2, <2>a, ControlStep DEF NamesAreTheirs
  <2>4. QED
    BY <2>1, <2>2, <2>3 DEF NamesAreTheirs, Fits, IsDigits, Named, Push, NoName, Phone, Lid
<1>15. QED  BY <1>4, <1>9, <1>10, <1>11, <1>13, <1>14 DEF LidInv

LEMMA LidInvInit == LidInit => LidInv
<1> SUFFICES ASSUME LidInit PROVE LidInv
  OBVIOUS
<1>1. DOMAIN rows = {} /\ LastRow = 0  BY DEF LidInit, LastRow, Newest
<1>2. chats = [j \in Jids |-> NoChat] /\ NoName \in Names  BY DEF LidInit, Names
<1>3. chats \in [Jids -> Chats]  BY <1>2, LidAssumption DEF NoChat, Chats
<1>4. LidTypeOK  BY <1>1, <1>3 DEF LidInit, LidTypeOK
<1>5. \A j \in Jids : ~chats[j].known /\ chats[j].name = NoName  BY <1>2 DEF NoChat
<1>6. NamesAreTheirs  BY <1>2, <1>5, Forms, LidAssumption DEF NamesAreTheirs, Fits
<1>7. QED  BY <1>1, <1>4, <1>6 DEF LidInit, LidInv, RowsAreAsSent, RowsHaveChats, SettledStay

LEMMA LidInvStep == LidInv /\ [Bridge]_lidVars => LidInv'
<1> SUFFICES ASSUME LidInv, [Bridge]_lidVars PROVE LidInv'
  OBVIOUS
<1>1. CASE ~MigrateLegacyLIDChatsToPhoneJIDs  BY <1>1, KeptInv
<1>2. CASE MigrateLegacyLIDChatsToPhoneJIDs
  <2>1. stage = "down" /\ stage' = "chats moved"  BY <1>2 DEF MigrateLegacyLIDChatsToPhoneJIDs
  <2>2. Bridge  BY <2>1 DEF lidVars, state
  <2>3. QED  BY <1>2, <2>2, MigrationInv
<1>3. QED  BY <1>1, <1>2

\* The reads leave the tables alone.
LEMMA ReadsWriteNothing == [ReadNext]_readVars => [Bridge]_lidVars
BY DEF ReadNext, readVars, Begin, ReadPage, ReadContext, Write

\* The archive's own steps alone, or with a reader beside them.
LEMMA LidInvariance == (LidSpec => []LidInv) /\ (ReadSpec => []LidInv)
<1>1. ReadInit => LidInv  BY LidInvInit DEF ReadInit
<1>2. LidInv /\ [ReadNext]_readVars => LidInv'  BY ReadsWriteNothing, LidInvStep
<1>3. LidSpec => []LidInv  BY LidInvInit, LidInvStep, PTL DEF LidSpec
<1>4. ReadSpec => []LidInv  BY <1>1, <1>2, PTL DEF ReadSpec
<1>5. QED  BY <1>3, <1>4

\* The types of the tables (LidChats).
THEOREM ArchiveTypes == ReadSpec => []LidTypeOK
<1>1. LidInv => LidTypeOK  BY DEF LidInv
<1>2. QED  BY <1>1, LidInvariance, PTL

\* Every row has a chat that is no older (StoreChat and StoreMessage, main.go
\* 636-651 and 813-851; the merge of two chats, main.go 353-478).
THEOREM EveryRowHasItsChat == ReadSpec => []RowsHaveChats
<1>1. LidInv => RowsHaveChats  BY DEF LidInv
<1>2. QED  BY <1>1, LidInvariance, PTL

\* What a completed start has moved under the phone number stays there, whatever
\* arrives addressed by the LID (resolveLIDChat and resolveUserJID, main.go
\* 1703-1762; the two migrations of a start, main.go 263-616).
THEOREM OneAddressForEach == ReadSpec => []OnePersonOneAddress
<1>1. LidInv => OnePersonOneAddress
  BY DEF LidInv, SettledStay, ChatMoved, OnePersonOneAddress
<1>2. QED  BY <1>1, LidInvariance, PTL

-----------------------------------------------------------------------------
(* Nothing is lost *)

LEMMA KeptLosesNothing ==
  ASSUME LidInv, Kept
  PROVE  /\ Stored \subseteq Stored'
         /\ \A p \in People : /\ Reached(p).newest <= Reached(p)'.newest
                              /\ Reached(p).read <= Reached(p)'.read
         /\ Deleted \subseteq Deleted'
<1>1. ChatsKept /\ \A i \in DOMAIN rows : SameRow(i)  BY DEF Kept, RowsKept
<1>2. Stored \subseteq Stored'  BY <1>1 DEF Stored, SameRow
<1>3. Deleted \subseteq Deleted'  BY <1>1 DEF Deleted, SameRow
<1>4. ASSUME NEW p \in People
      PROVE  Reached(p).newest <= Reached(p)'.newest /\ Reached(p).read <= Reached(p)'.read
  <2>1. Phone(p) \in Jids /\ Lid(p) \in Jids  BY Forms
  <2>2. \A j \in {Phone(p), Lid(p)} :
          /\ chats[j].newest \in 0..MaxTime /\ chats[j].read \in 0..MaxTime
          /\ chats'[j].newest \in 0..MaxTime /\ chats'[j].read \in 0..MaxTime
          /\ chats[j].newest <= chats'[j].newest /\ chats[j].read <= chats'[j].read
    BY <1>1, <2>1 DEF LidInv, LidTypeOK, ChatsKept, Chats
  <2>3. /\ Reached(p).newest = Later(chats[Phone(p)].newest, chats[Lid(p)].newest)
        /\ Reached(p).read = Later(chats[Phone(p)].read, chats[Lid(p)].read)
        /\ Reached(p)'.newest = Later(chats'[Phone(p)].newest, chats'[Lid(p)].newest)
        /\ Reached(p)'.read = Later(chats'[Phone(p)].read, chats'[Lid(p)].read)
    BY DEF Reached, Phone, Lid
  <2>4. MaxTime \in Nat  BY LidAssumption
  <2>5. QED  BY <2>2, <2>3, <2>4 DEF Later
<1>5. QED  BY <1>2, <1>3, <1>4

LEMMA MigrationLosesNothing ==
  ASSUME LidInv, MigrateLegacyLIDChatsToPhoneJIDs
  PROVE  /\ Stored \subseteq Stored'
         /\ \A p \in People : /\ Reached(p).newest <= Reached(p)'.newest
                              /\ Reached(p).read <= Reached(p)'.read
         /\ \A m \in Deleted \ Deleted' :
              stage = "down" /\ \E i \in Copies(m) : rows[i].chat \in {Lid(p) : p \in Legacy}
<1>1. ChatsMerged /\ RowsMoved  BY ChatsAreMerged, RowsAreMovedRight
<1>2. \A i \in DOMAIN rows \ InLegacyChat : i \in DOMAIN rows' /\ rows'[i] = rows[i]
  BY <1>1 DEF RowsMoved
<1>3. ASSUME NEW i \in DOMAIN rows PROVE rows[i].id \in Stored'
  <2>1. CASE i \notin InLegacyChat  BY <1>2, <2>1 DEF Stored
  <2>2. ASSUME i \in InLegacyChat, NEW p \in Legacy, rows[i].chat = Lid(p) PROVE rows[i].id \in Stored'
    <3>1. CASE RowAt(rows[i].id, Phone(p)) = {}
      <4>1. LastRow + i \in DOMAIN rows' /\ MovedRow(LastRow + i)  BY <1>1, <2>2, <3>1 DEF RowsMoved
      <4>2. PICK k \in DOMAIN rows : LastRow + i = LastRow + k /\ rows'[LastRow + i].id = rows[k].id
        BY <4>1 DEF MovedRow
      <4>3. i = k
        <5>1. LastRow \in Nat /\ DOMAIN rows \subseteq 1..LastRow  BY DEF LidInv, LidTypeOK
        <5>2. QED  BY <4>2, <5>1
      <4>4. QED  BY <4>1, <4>2, <4>3 DEF Stored
    <3>2. CASE RowAt(rows[i].id, Phone(p)) # {}
      <4>1. PICK k \in DOMAIN rows : rows[k].id = rows[i].id /\ rows[k].chat = Phone(p)
        BY <3>2 DEF RowAt
      <4>2. k \notin InLegacyChat  BY <4>1, Forms DEF InLegacyChat
      <4>3. QED  BY <1>2, <4>1, <4>2 DEF Stored
    <3>3. QED  BY <3>1, <3>2
  <2>3. QED  BY <2>1, <2>2 DEF InLegacyChat
<1>4. Stored \subseteq Stored'  BY <1>3 DEF Stored
<1>5. ASSUME NEW p \in People
      PROVE  Reached(p).newest <= Reached(p)'.newest /\ Reached(p).read <= Reached(p)'.read
  <2>1. Phone(p) \in Jids /\ Lid(p) \in Jids /\ Phone(p)[1] = p /\ Lid(p)[1] = p  BY Forms
  <2>2. \A j \in {Phone(p), Lid(p)} : chats[j].newest \in 0..MaxTime /\ chats[j].read \in 0..MaxTime
    BY <2>1 DEF LidInv, LidTypeOK, Chats
  <2>3. /\ Reached(p).newest = Later(chats[Phone(p)].newest, chats[Lid(p)].newest)
        /\ Reached(p).read = Later(chats[Phone(p)].read, chats[Lid(p)].read)
        /\ Reached(p)'.newest = Later(chats'[Phone(p)].newest, chats'[Lid(p)].newest)
        /\ Reached(p)'.read = Later(chats'[Phone(p)].read, chats'[Lid(p)].read)
    BY DEF Reached, Phone, Lid
  <2>4. MaxTime \in Nat  BY LidAssumption
  <2>5. CASE p \in Legacy
    <3>1. /\ chats'[Lid(p)].newest = 0 /\ chats'[Lid(p)].read = 0
          /\ chats'[Phone(p)].newest = Later(chats[Phone(p)].newest, chats[Lid(p)].newest)
          /\ chats'[Phone(p)].read = Later(chats[Phone(p)].read, chats[Lid(p)].read)
      BY <1>1, <2>5 DEF ChatsMerged, NoChat
    <3>2. QED  BY <2>2, <2>3, <2>4, <3>1 DEF Later
  <2>6. CASE p \notin Legacy
    <3>1. chats'[Lid(p)] = chats[Lid(p)] /\ chats'[Phone(p)] = chats[Phone(p)]
      BY <1>1, <2>1, <2>6 DEF ChatsMerged
    <3>2. QED  BY <2>2, <2>3, <2>4, <3>1 DEF Later
  <2>7. QED  BY <2>5, <2>6
<1>6. ASSUME NEW m \in Deleted \ Deleted'
      PROVE  stage = "down" /\ \E i \in Copies(m) : rows[i].chat \in {Lid(p) : p \in Legacy}
  <2>1. PICK i \in DOMAIN rows : rows[i].id = m /\ rows[i].deleted  BY DEF Deleted
  <2>2. i \in InLegacyChat
    <3> SUFFICES ASSUME i \notin InLegacyChat PROVE FALSE
      OBVIOUS
    <3>1. i \in DOMAIN rows' /\ rows'[i] = rows[i]  BY <1>2
    <3>2. m \in Deleted'  BY <2>1, <3>1 DEF Deleted
    <3>3. QED  BY <1>6, <3>2
  <2>3. i \in Copies(m) /\ rows[i].chat \in {Lid(p) : p \in Legacy}  BY <2>1, <2>2 DEF Copies, InLegacyChat
  <2>4. QED  BY <2>3 DEF MigrateLegacyLIDChatsToPhoneJIDs
<1>7. QED  BY <1>4, <1>5, <1>6

\* A stored message stays stored; a person's newest message and read marker
\* never go back; only a chat migration forgets that a message was deleted.
THEOREM NothingIsLostEver == ReadSpec => NothingIsLost
<1> DEFINE A == /\ Stored \subseteq Stored'
                /\ \A p \in People : /\ Reached(p).newest <= Reached(p)'.newest
                                     /\ Reached(p).read <= Reached(p)'.read
                /\ \A m \in Deleted \ Deleted' :
                     stage = "down" /\ \E i \in Copies(m) : rows[i].chat \in {Lid(p) : p \in Legacy}
<1>1. ASSUME LidInv, [Bridge]_lidVars PROVE A
  <2>1. CASE MigrateLegacyLIDChatsToPhoneJIDs  BY <1>1, <2>1, MigrationLosesNothing
  <2>2. CASE ~MigrateLegacyLIDChatsToPhoneJIDs
    <3>1. Kept  BY <1>1, <2>2, BridgeKeeps
    <3>2. /\ Stored \subseteq Stored'
          /\ \A p \in People : /\ Reached(p).newest <= Reached(p)'.newest
                               /\ Reached(p).read <= Reached(p)'.read
          /\ Deleted \subseteq Deleted'
      BY <1>1, <3>1, KeptLosesNothing
    <3>3. QED  BY <3>2
  <2>3. QED  BY <2>1, <2>2
<1> HIDE DEF A
<1>2. LidInv /\ [ReadNext]_readVars => [A]_lidVars  BY <1>1, ReadsWriteNothing
<1>3. ReadSpec => [][A]_lidVars  BY <1>2, LidInvariance, PTL DEF ReadSpec
<1>4. QED  BY <1>3 DEF NothingIsLost, A

-----------------------------------------------------------------------------
(* What a chat is shown as *)

\* A finite set can be put in order.
LEMMA FiniteOrder ==
  ASSUME NEW S, IsFiniteSet(S)
  PROVE  /\ Cardinality(S) \in Nat
         /\ \E g \in [S -> 1..Cardinality(S)] : \A x, y \in S : x # y => g[x] # g[y]
<1> DEFINE N == Cardinality(S)
<1>1. N \in Nat /\ ExistsBijection(1..N, S)  BY FS_CardinalityType
<1>2. IsFiniteSet(1..N) /\ Cardinality(1..N) = N  BY <1>1, FS_Interval
<1>3. ExistsBijection(S, 1..N)  BY <1>1, <1>2, FS_SameCardinalityBij
<1>4. PICK g \in Bijection(S, 1..N) : TRUE  BY <1>3 DEF ExistsBijection
<1>5. g \in [S -> 1..N] /\ \A x, y \in S : x # y => g[x] # g[y]
  BY <1>4 DEF Bijection, Injection, IsInjective
<1>6. QED  BY <1>1, <1>5

LEMMA IdOrderIs ==
  /\ Cardinality(Msgs) \in Nat /\ IdOrder \in [Msgs -> 1..Cardinality(Msgs)]
  /\ \A m, n \in Msgs : m # n => IdOrder[m] # IdOrder[n]
<1>1. /\ Cardinality(Msgs) \in Nat
      /\ \E g \in [Msgs -> 1..Cardinality(Msgs)] : \A m, n \in Msgs : m # n => g[m] # g[n]
  BY FiniteOrder, ReadAssumption
<1>2. QED  BY <1>1, Zenon DEF IdOrder

\* The rows of chat j are those there were, or new, with the time they had or
\* one that does not put somebody else's message forward.
RowsOfStay(j) ==
  /\ \A i \in DOMAIN rows : rows[i].chat = j =>
       /\ i \in DOMAIN rows' /\ rows'[i].chat = j
       /\ rows'[i].id = rows[i].id /\ rows'[i].mine = rows[i].mine
       /\ IF rows[i].mine THEN rows[i].time <= rows'[i].time ELSE rows'[i].time <= rows[i].time
  /\ \A i \in DOMAIN rows' : rows'[i].chat = j /\ i \in DOMAIN rows => rows[i].chat = j

\* Of the rows with a chat's newest time one is shown.
LEMMA OneIsShown ==
  ASSUME LidInv, NEW j, NEW i \in DOMAIN rows, rows[i].chat = j, rows[i].time = chats[j].newest
  PROVE  \E k \in last_message_join(j) : IdOrder[rows[i].id] <= IdOrder[rows[k].id]
<1> DEFINE latest == {k \in DOMAIN rows : rows[k].chat = j /\ rows[k].time = chats[j].newest}
           S == {IdOrder[rows[k].id] : k \in latest}
           n == Cardinality(Msgs)
<1>1. n \in Nat /\ \A k \in DOMAIN rows : IdOrder[rows[k].id] \in 1..n
  BY IdOrderIs DEF LidInv, LidTypeOK, Rows
<1>2. i \in latest  OBVIOUS
<1> HIDE DEF latest, n
<1>3. \A k \in latest : k \in DOMAIN rows  BY DEF latest
<1>4. S \in SUBSET (1..n) /\ IdOrder[rows[i].id] \in S  BY <1>1, <1>2, <1>3
<1> HIDE DEF S
<1>5. Newest(S) \in S /\ \A u \in S : u <= Newest(S)  BY <1>1, <1>4, NewestIs
<1>6. PICK k \in latest : IdOrder[rows[k].id] = Newest(S)  BY <1>5 DEF S
<1>7. \A l \in latest : IdOrder[rows[l].id] <= IdOrder[rows[k].id]  BY <1>5, <1>6 DEF S
<1>8. k \in last_message_join(j)  BY <1>7 DEF last_message_join, latest
<1>9. QED  BY <1>2, <1>7, <1>8

\* The message a chat is shown with is a new one, or it was shown before.
LEMMA UnreadIsNew ==
  ASSUME LidInv, LidInv', NEW j \in Jids, RowsOfStay(j),
         chats'[j].newest \in 0..MaxTime, chats'[j].read \in 0..MaxTime,
         chats[j].newest <= chats'[j].newest, chats[j].read <= chats'[j].read,
         ~unread(j), unread(j)'
  PROVE  \E i \in DOMAIN rows' \ DOMAIN rows : rows'[i].chat = j /\ ~rows'[i].mine
<1>1. /\ chats[j].newest \in 0..MaxTime /\ chats[j].read \in 0..MaxTime /\ MaxTime \in Nat
      /\ \A i \in DOMAIN rows : rows[i].time \in 1..MaxTime /\ rows[i].id \in Msgs
      /\ \A i \in DOMAIN rows' : rows'[i].time \in 1..MaxTime
  BY LidAssumption DEF LidInv, LidTypeOK, Chats, Rows, Times
<1>2. PICK i \in DOMAIN rows' :
        /\ rows'[i].chat = j /\ rows'[i].time = chats'[j].newest /\ ~rows'[i].mine
        /\ \A k \in DOMAIN rows' : rows'[k].chat = j /\ rows'[k].time = chats'[j].newest =>
             IdOrder[rows'[k].id] <= IdOrder[rows'[i].id]
  BY DEF unread, last_message_join
<1>3. chats'[j].newest # 0 /\ (chats'[j].read = 0 \/ chats'[j].newest > chats'[j].read)
  BY DEF unread
<1> SUFFICES ASSUME i \in DOMAIN rows PROVE FALSE
  BY <1>2
<1>4. rows[i].chat = j /\ ~rows[i].mine /\ rows'[i].id = rows[i].id /\ rows'[i].time <= rows[i].time
  BY <1>2 DEF RowsOfStay
<1>5. chats[j].newest >= rows[i].time  BY <1>4 DEF LidInv, RowsHaveChats
<1>6. chats'[j].newest = chats[j].newest /\ rows[i].time = chats[j].newest
  BY <1>1, <1>2, <1>4, <1>5
<1>7. PICK k \in last_message_join(j) : IdOrder[rows[i].id] <= IdOrder[rows[k].id]
  BY <1>4, <1>6, OneIsShown
<1>8. k \in DOMAIN rows /\ rows[k].chat = j /\ rows[k].time = chats[j].newest
  BY DEF last_message_join
<1>9. ~rows[k].mine
  <2> SUFFICES ASSUME rows[k].mine PROVE FALSE
    OBVIOUS
  <2>1. /\ k \in DOMAIN rows' /\ rows'[k].chat = j /\ rows'[k].id = rows[k].id
        /\ rows[k].time <= rows'[k].time
    BY <1>8 DEF RowsOfStay
  <2>2. chats'[j].newest >= rows'[k].time  BY <2>1 DEF LidInv, RowsHaveChats
  <2>3. rows'[k].time = chats'[j].newest  BY <1>1, <1>6, <1>8, <2>1, <2>2
  <2>4. IdOrder[rows[k].id] <= IdOrder[rows[i].id]  BY <1>2, <1>4, <2>1, <2>3
  <2>5. IdOrder[rows[k].id] \in Nat /\ IdOrder[rows[i].id] \in Nat  BY <1>1, <1>8, IdOrderIs
  <2>6. IdOrder[rows[k].id] = IdOrder[rows[i].id]  BY <1>7, <2>4, <2>5
  <2>7. rows[k].id = rows[i].id  BY <1>1, <1>8, <2>6, IdOrderIs
  <2>8. k = i  BY <1>4, <1>8, <2>7 DEF LidInv, LidTypeOK
  <2>9. QED  BY <1>4, <2>8
<1>10. chats[j].newest # 0 /\ (chats[j].read = 0 \/ chats[j].newest > chats[j].read)
  BY <1>1, <1>3, <1>6
<1>11. unread(j)  BY <1>7, <1>9, <1>10 DEF unread
<1>12. QED  BY <1>11

\* A chat turns unread only by a message of somebody else's that is new in it, or
\* when a row in it is restamped (Chat.unread and _last_message_join, whatsapp.py
\* 77-97 and 189-205; handleMessage and StoreMessage, main.go 1856-1861 and 838).
THEOREM UnreadNeedsAMessage == ReadSpec => TurnsUnread
<1> DEFINE A == \A j \in Jids : ~unread(j) /\ unread(j)' =>
                  \/ Restamped(j)
                  \/ \E i \in DOMAIN rows' : rows'[i].chat = j /\ ~rows'[i].mine /\ RowAt(rows'[i].id, j) = {}
<1>1. ASSUME LidInv, LidInv', [Bridge]_lidVars PROVE A
  <2> SUFFICES ASSUME NEW j \in Jids, ~unread(j), unread(j)', ~Restamped(j)
               PROVE  \E i \in DOMAIN rows' : rows'[i].chat = j /\ ~rows'[i].mine /\ RowAt(rows'[i].id, j) = {}
    OBVIOUS
  <2>1. MaxTime \in Nat /\ lids \subseteq People  BY <1>1, LidAssumption DEF LidInv, LidTypeOK
  <2>a. chats[j].newest \in 0..MaxTime /\ chats[j].read \in 0..MaxTime
    BY <1>1 DEF LidInv, LidTypeOK, Chats
  <2>b. \A i \in DOMAIN rows : rows[i].time \in 1..MaxTime
    BY <1>1 DEF LidInv, LidTypeOK, Rows, Times
  <2>2. CASE ~MigrateLegacyLIDChatsToPhoneJIDs
    <3>1. ChatsKept /\ RowsKept  BY <1>1, <2>2, BridgeKeeps DEF Kept
    <3>2. /\ chats'[j].newest \in 0..MaxTime /\ chats'[j].read \in 0..MaxTime
          /\ chats[j].newest <= chats'[j].newest /\ chats[j].read <= chats'[j].read
      BY <3>1 DEF ChatsKept, Chats
    <3>3. RowsOfStay(j)
      <4>1. ASSUME NEW i \in DOMAIN rows, rows[i].chat = j
            PROVE  IF rows[i].mine THEN rows[i].time <= rows'[i].time ELSE rows'[i].time <= rows[i].time
        <5>1. i \in DOMAIN rows' /\ rows'[i] \in Rows  BY <3>1 DEF RowsKept, SameRow
        <5>2. rows'[i].time \in 1..MaxTime  BY <5>1 DEF Rows, Times
        <5>3. ~(IF rows[i].mine THEN rows'[i].time < rows[i].time ELSE rows'[i].time > rows[i].time)
          BY <4>1, <5>1 DEF Restamped
        <5>4. QED  BY <2>1, <2>b, <5>2, <5>3
      <4>2. QED  BY <3>1, <4>1 DEF RowsKept, SameRow, RowsOfStay
    <3>4. PICK i \in DOMAIN rows' \ DOMAIN rows : rows'[i].chat = j /\ ~rows'[i].mine
      BY <1>1, <3>2, <3>3, UnreadIsNew
    <3>5. RowAt(rows'[i].id, j) = {}  BY <3>1, <3>4 DEF RowsKept, NewRow
    <3>6. QED  BY <3>4, <3>5
  <2>3. CASE MigrateLegacyLIDChatsToPhoneJIDs
    <3>1. ChatsMerged /\ RowsMoved  BY <1>1, <2>3, ChatsAreMerged, RowsAreMovedRight
    <3>2. Legacy \subseteq People  BY <2>1 DEF Legacy
    <3>3. \A p \in Legacy : j # Lid(p)
      BY <3>1 DEF ChatsMerged, NoChat, unread
    <3>4. j[1] \in Legacy => j = Phone(j[1])
      BY <3>2, <3>3, JidForms, LidAssumption
    <3>5. chats' \in [Jids -> Chats]  BY <3>1 DEF ChatsMerged
    <3>6. chats'[j].newest \in 0..MaxTime /\ chats'[j].read \in 0..MaxTime  BY <3>5 DEF Chats
    <3>7. chats[j].newest <= chats'[j].newest /\ chats[j].read <= chats'[j].read
      <4>1. CASE j[1] \notin Legacy
        <5>1. chats'[j] = chats[j]  BY <3>1, <4>1 DEF ChatsMerged
        <5>2. QED  BY <2>1, <2>a, <5>1
      <4>2. CASE j[1] \in Legacy
        <5> DEFINE l == Lid(j[1])
        <5>1. /\ chats'[j].newest = Later(chats[j].newest, chats[l].newest)
              /\ chats'[j].read = Later(chats[j].read, chats[l].read)
          BY <3>1, <3>4, <4>2 DEF ChatsMerged
        <5>2. l \in Jids  BY <3>2, <4>2, Forms
        <5>3. chats[l].newest \in 0..MaxTime /\ chats[l].read \in 0..MaxTime
          BY <1>1, <5>2 DEF LidInv, LidTypeOK, Chats
        <5> HIDE DEF l
        <5>4. QED  BY <2>1, <2>a, <5>1, <5>3 DEF Later
      <4>3. QED  BY <4>1, <4>2
    <3>8. RowsOfStay(j)
      <4>1. \A i \in DOMAIN rows : rows[i].chat = j => i \in DOMAIN rows' /\ rows'[i] = rows[i]
        BY <3>1, <3>3 DEF InLegacyChat, RowsMoved
      <4>2. \A i \in DOMAIN rows : rows[i].time <= rows[i].time  BY <2>1, <2>b
      <4>3. \A i \in DOMAIN rows' : i \in DOMAIN rows => rows'[i] = rows[i]
        BY <3>1 DEF RowsMoved, MovedRow
      <4>4. QED  BY <4>1, <4>2, <4>3 DEF RowsOfStay
    <3>9. PICK i \in DOMAIN rows' \ DOMAIN rows : rows'[i].chat = j /\ ~rows'[i].mine
      BY <1>1, <3>6, <3>7, <3>8, UnreadIsNew
    <3>10. MovedRow(i)  BY <3>1, <3>9 DEF RowsMoved
    <3>11. RowAt(rows'[i].id, j) = {}  BY <3>9, <3>10 DEF MovedRow
    <3>12. QED  BY <3>9, <3>11
  <2>4. QED  BY <2>2, <2>3
<1> HIDE DEF A
<1>2. LidInv /\ LidInv' /\ [ReadNext]_readVars => [A]_readVars  BY <1>1, ReadsWriteNothing
<1>3. ReadSpec => [][A]_readVars  BY <1>2, LidInvariance, PTL DEF ReadSpec
<1>4. QED  BY <1>3 DEF TurnsUnread, A

-----------------------------------------------------------------------------
(* What is said of a person *)

LEMMA FormForms ==
  /\ \A a, s : Form(a, s).user = a /\ Form(a, s).suffix = s
  /\ \A a, b, s, t : Form(a, s) = Form(b, t) <=> a = b /\ s = t
  /\ \A j : JidForm(j) = Form(j, j[2])
<1>1. \A a, s : Form(a, s).user = a /\ Form(a, s).suffix = s  BY DEF Form
<1>2. ASSUME NEW a, NEW b, NEW s, NEW t PROVE Form(a, s) = Form(b, t) <=> a = b /\ s = t
  <2>1. Form(a, s).user = a /\ Form(a, s).suffix = s  BY <1>1
  <2>2. Form(b, t).user = b /\ Form(b, t).suffix = t  BY <1>1
  <2>3. QED  BY <2>1, <2>2
<1>3. QED  BY <1>1, <1>2 DEF JidForm

\* The address of a sender names the person, whatever its form.
LEMMA AddressForms ==
  ASSUME NEW a \in Addresses, NEW p \in People, a[1] = p
  PROVE  a = Phone(p) \/ a = Lid(p)
<1>1. CASE a \in Jids
  <2>1. p \notin Groups  BY LidAssumption
  <2>2. QED  BY <1>1, <2>1, JidForms
<1>2. CASE a = Phone(Me)
  <2>1. a[1] = Me  BY <1>2, Forms
  <2>2. QED  BY <2>1, LidAssumption
<1>3. QED  BY <1>1, <1>2 DEF Addresses

\* The sender filter, asked for a person in the map, finds their rows.
LEMMA Aliases == LidInv => AliasesCatchAll
<1> SUFFICES ASSUME LidInv, NEW p \in lids, NEW v \in FormsOf(p)
             PROVE  WrittenBy(v) = {i \in DOMAIN rows : rows[i].sender[1] = p}
  BY DEF AliasesCatchAll
<1>1. p \in People  BY DEF LidInv, LidTypeOK
<1>2. v.user = Phone(p) \/ v.user = Lid(p)  BY FormForms DEF FormsOf
<1>3. v.user[1] = p  BY <1>2, Forms
<1>4. sender_aliases(v) = FormsOf(p)  BY <1>3 DEF sender_aliases
<1>5. ASSUME NEW i \in DOMAIN rows
      PROVE  Form(rows[i].sender, "bare") \in FormsOf(p) <=> rows[i].sender[1] = p
  <2>1. rows[i].sender \in Addresses  BY DEF LidInv, LidTypeOK, Rows
  <2>2. Form(rows[i].sender, "bare") \in FormsOf(p) <=>
          rows[i].sender = Phone(p) \/ rows[i].sender = Lid(p)
    BY FormForms DEF FormsOf
  <2>3. QED  BY <1>1, <2>1, <2>2, AddressForms, Forms
<1>6. QED  BY <1>4, <1>5 DEF WrittenBy

LEMMA SettledIsWhole ==
  ASSUME LidInv, stage = "up", NEW p \in settled
  PROVE  LET v == Form(Phone(p), "pn")
             theirs == {i \in DOMAIN rows : Involves(i, p)}
         IN /\ \A i \in get_last_interaction(v) : \A k \in theirs : rows[k].time <= rows[i].time
            /\ theirs # {} => get_last_interaction(v) # {}
            /\ {rows[i].chat : i \in theirs} \subseteq get_contact_chats(v)
            /\ search_contacts(Named(p)) \union search_contacts(Push(p)) \subseteq {Phone(p)}
            /\ Within = {} => get_direct_chat_by_contact(Phone(p)) \subseteq {Phone(p)}
<1> DEFINE v == Form(Phone(p), "pn")
           theirs == {i \in DOMAIN rows : Involves(i, p)}
<1>1. /\ p \in lids /\ p \in People /\ v \in FormsOf(p)
      /\ \A i \in DOMAIN rows : rows[i].chat \in Jids /\ rows[i].time \in 1..MaxTime
      /\ ChatMoved(p) /\ MaxTime \in Nat
  BY LidAssumption DEF LidInv, LidTypeOK, Rows, Times, FormsOf, SettledStay
<1>2. WrittenBy(v) = {i \in DOMAIN rows : rows[i].sender[1] = p}
  BY <1>1, Aliases DEF AliasesCatchAll
<1>3. p \notin Groups  BY <1>1, LidAssumption
<1>4. ASSUME NEW i \in DOMAIN rows
      PROVE  JidForm(rows[i].chat) = v <=> rows[i].chat[1] = p
  <2>1. rows[i].chat # Lid(p)  BY <1>1 DEF ChatMoved
  <2>2. rows[i].chat[1] = p => rows[i].chat = Phone(p)  BY <1>1, <1>3, <2>1, JidForms
  <2>3. JidForm(rows[i].chat) = v <=> rows[i].chat = Phone(p)  BY FormForms, Forms
  <2>4. QED  BY <2>2, <2>3, Forms
<1>5. {i \in DOMAIN rows : i \in WrittenBy(v) \/ JidForm(rows[i].chat) = v} = theirs
  BY <1>2, <1>4 DEF Involves
<1> HIDE DEF v
<1>6. get_last_interaction(v) = {i \in theirs : \A k \in theirs : rows[k].time <= rows[i].time}
  BY <1>5 DEF get_last_interaction
<1>7. theirs # {} => get_last_interaction(v) # {}
  <2> SUFFICES ASSUME theirs # {} PROVE get_last_interaction(v) # {}
    OBVIOUS
  <2> DEFINE S == {rows[i].time : i \in theirs}
  <2>1. S \in SUBSET (1..MaxTime) /\ S # {}  BY <1>1
  <2> HIDE DEF S
  <2>2. Newest(S) \in S /\ \A u \in S : u <= Newest(S)  BY <1>1, <2>1, NewestIs
  <2>3. PICK i \in theirs : rows[i].time = Newest(S)  BY <2>2 DEF S
  <2>4. \A k \in theirs : rows[k].time <= rows[i].time  BY <2>2, <2>3 DEF S
  <2>5. QED  BY <1>6, <2>4
<1>8. ASSUME NEW i \in theirs PROVE rows[i].chat \in get_contact_chats(v)
  <2>1. i \in DOMAIN rows /\ rows[i].chat \in Jids /\ chats[rows[i].chat].known
    BY <1>1 DEF LidInv, RowsHaveChats
  <2>2. i \in WrittenBy(v) \/ JidForm(rows[i].chat) = v  BY <1>5
  <2>3. QED  BY <2>1, <2>2 DEF get_contact_chats, WrittenBy
<1>9. search_contacts(Named(p)) \union search_contacts(Push(p)) \subseteq {Phone(p)}
  <2>1. ASSUME NEW j \in Jids, chats[j].known, chats[j].name \in {Named(p), Push(p)} PROVE j = Phone(p)
    <3>1. Fits(j, chats[j].name)  BY DEF LidInv, NamesAreTheirs
    <3>2. chats[j].name \in {NoName, Named(j[1]), Push(j[1])}
      BY <2>1, <3>1, NameForms DEF Fits, IsDigits
    <3>3. j[1] = p  BY <2>1, <3>2, NameForms
    <3>4. QED  BY <1>1, <1>3, <2>1, <3>3, JidForms DEF ChatMoved
  <2>2. \A q \in Known, n \in {Named(p), Push(p)} : Named(q) = n => q = p  BY NameForms
  <2>3. QED  BY <2>1, <2>2 DEF search_contacts
<1>10. Within = {} => get_direct_chat_by_contact(Phone(p)) \subseteq {Phone(p)}
  BY DEF get_direct_chat_by_contact, Like
<1>11. QED  BY <1>6, <1>7, <1>8, <1>9, <1>10 DEF v

\* What the tools say of a person whose start is completed is whole
\* (_sender_aliases, get_contact_chats, get_last_interaction, search_contacts and
\* get_direct_chat_by_contact of whatsapp.py).
THEOREM SettledContactIsWhole == ReadSpec => []ContactIsWhole
<1>1. LidInv => ContactIsWhole
  BY Aliases, SettledIsWhole, Zenon DEF ContactIsWhole
<1>2. QED  BY <1>1, LidInvariance, PTL

\* A bare number of a known person, or a LID the map knows, leads to the name.
LEMMA NameOfSender ==
  ASSUME LidInv, NEW p \in Known, NEW a, a = Phone(p) \/ (a = Lid(p) /\ p \in lids)
  PROVE  ContactName(Form(a, "bare")) = {Named(p)}
<1>1. p \in People  BY LidAssumption
<1>2. Form(a, "bare").user = a /\ Form(a, "bare").suffix = "bare"  BY FormForms
<1>a. \A q \in Known : Phone(q) = Phone(p) <=> q = p
  <2>1. Phone(p)[1] = p /\ \A q \in Known : Phone(q)[1] = q  BY Forms
  <2>2. QED  BY <2>1
<1>3. resolve_name_from_whatsmeow(Form(Phone(p), "pn")) = {Named(p)}
  <2>1. {q \in Known : Form(Phone(q), "pn") \in {Form(Phone(p), "pn")}} = {p}
    BY <1>a, FormForms
  <2>2. resolve_name_from_whatsmeow(Form(Phone(p), "pn")) = {Named(q) : q \in {p}}
    BY <2>1, FormForms DEF resolve_name_from_whatsmeow
  <2>3. QED  BY <2>2
<1>4. CASE a = Lid(p) /\ p \in lids
  <2>1. resolve_lid_to_phone(a) = {Phone(p)}  BY <1>4, Forms DEF resolve_lid_to_phone
  <2>2. {Form(b, "pn") : b \in {Phone(p)}} = {Form(Phone(p), "pn")}  OBVIOUS
  <2>3. {q \in Known : Form(Phone(q), "pn") \in {Form(Phone(p), "pn")}} = {p}
    BY <1>a, FormForms
  <2>4. resolve_name_from_whatsmeow(Form(a, "bare")) = {Named(q) : q \in {p}}
    BY <1>2, <2>1, <2>2, <2>3 DEF resolve_name_from_whatsmeow
  <2>5. QED  BY <2>4 DEF ContactName
<1>5. CASE a = Phone(p)
  <2>1. resolve_lid_to_phone(a) = {}  BY <1>5, Forms DEF resolve_lid_to_phone
  <2>2. {q \in Known : Form(Phone(q), "pn") \in {Form(a, "bare")}} = {}
    BY FormForms
  <2>3. resolve_name_from_whatsmeow(Form(a, "bare")) = {Named(q) : q \in {}}
    BY <1>2, <2>1, <2>2 DEF resolve_name_from_whatsmeow
  <2>4. QED  BY <1>2, <1>3, <1>5, <2>3 DEF ContactName
<1>6. QED  BY <1>4, <1>5

LEMMA NoBareChat == \A a : get_chat(Form(a, "bare")) = {}
BY FormForms, JidForms, Forms DEF get_chat

\* Beside a message of somebody else's stands the name the owner has for them,
\* or the push name of somebody whose LID was not known at first.
LEMMA MessagesAreNamed ==
  ASSUME LidInv, Within = {}, NEW i \in DOMAIN rows, NEW p, p = rows[i].sender[1], p \in Known,
         rows[i].sender = Phone(p) \/ p \in lids
  PROVE  msg_to_dict(i) \subseteq {Named(p)} \union (IF p \in strangers THEN {Push(p)} ELSE {})
<1> DEFINE a == rows[i].sender
           v == Form(a, "bare")
           shown == {Named(p)} \union (IF p \in strangers THEN {Push(p)} ELSE {})
           answer(j) == IF chats[j].name = NoName \/ IsDigits(chats[j].name) THEN {Named(p)} ELSE {chats[j].name}
<1>1. p \in People /\ a \in Addresses  BY LidAssumption DEF LidInv, LidTypeOK, Rows
<1>2. a = Phone(p) \/ (a = Lid(p) /\ p \in lids)  BY <1>1, AddressForms
<1>3. ~rows[i].mine  BY <1>1, LidAssumption DEF LidInv, RowsAreAsSent
<1>4. ContactName(v) = {Named(p)}  BY <1>2, NameOfSender
<1>5. v.user = a  BY FormForms
<1>6. get_chat(v) = {}  BY NoBareChat
<1> HIDE DEF a, v
<1>7. ASSUME NEW j \in Like(a) PROVE answer(j) \subseteq shown
  <2>1. j \in Jids /\ chats[j].known /\ j = a /\ j[1] = p  BY <1>2, <1>7, Forms DEF Like
  <2>2. chats[j].name = NoName \/ IsDigits(chats[j].name) \/ chats[j].name \in {Named(p), Push(p)}
    BY <2>1 DEF LidInv, NamesAreTheirs, Fits
  <2>3. chats[j].name = Push(p) => p \in strangers
    <3>1. CASE a = Phone(p)
      BY <2>1, <3>1, NameForms DEF LidInv, NamesAreTheirs
    <3>2. CASE a = Lid(p)  BY <1>1, <2>1, <3>2 DEF LidInv, NamesAreTheirs
    <3>3. QED  BY <1>2, <3>1, <3>2
  <2>4. QED  BY <2>2, <2>3
<1>8. get_sender_name(v) = IF Like(a) = {} THEN {Named(p)} ELSE UNION {answer(j) : j \in Like(a)}
  BY <1>4, <1>5, <1>6 DEF get_sender_name
<1> HIDE DEF answer
<1>9. get_sender_name(v) \subseteq shown
  <2>1. CASE Like(a) = {}  BY <1>8, <2>1
  <2>2. CASE Like(a) # {}  BY <1>7, <1>8, <2>2
  <2>3. QED  BY <2>1, <2>2
<1>10. QED  BY <1>3, <1>9 DEF msg_to_dict, v, a

\* Asked for by phone, a known person is named, unless once filed by LID.
LEMMA ContactIsNamed ==
  ASSUME LidInv, Within = {}, NEW p \in Known \ strangers
  PROVE  get_contact(Form(Phone(p), "bare")) \subseteq {[is_lid |-> FALSE, name |-> Named(p)]}
<1> DEFINE pn == Form(Phone(p), "pn")
           lid == Form(Phone(p), "lid")
           named == {j \in get_chat(pn) : chats[j].name # NoName}
<1>1. /\ p \in People /\ Phone(p) \in Jids /\ Phone(p)[1] = p /\ Phone(p)[2] = "pn"
  BY LidAssumption, Forms
<1>2. chats[Phone(p)].name \in {NoName, Named(p)}  BY DEF LidInv, NamesAreTheirs
<1>3. get_chat(lid) = {}
  <2> SUFFICES ASSUME NEW j \in Jids, JidForm(j) = lid PROVE FALSE
    BY DEF get_chat
  <2>1. j = Phone(p) /\ j[2] = "lid"  BY FormForms
  <2>2. QED  BY <1>1, <2>1
<1>4. \A j \in get_chat(pn) : j = Phone(p) /\ chats[j].known
  BY FormForms DEF get_chat
<1>5. get_chat(pn) = {} => ~chats[Phone(p)].known
  BY <1>1, FormForms DEF get_chat
<1>6. ContactName(pn) = {Named(p)}
  <2>1. \A q \in Known : Phone(q)[1] = q  BY Forms
  <2>2. {q \in Known : Form(Phone(q), "pn") \in {pn}} = {p}  BY <1>1, <2>1, FormForms
  <2>3. pn.suffix = "pn"  BY FormForms
  <2>4. resolve_name_from_whatsmeow(pn) = {Named(q) : q \in {p}}
    BY <2>2, <2>3 DEF resolve_name_from_whatsmeow
  <2>5. QED  BY <2>4 DEF ContactName
<1>7. Form(Phone(p), "bare").suffix = "bare" /\ Form(Phone(p), "bare").user = Phone(p)
  BY FormForms
<1>8. pn.user = Phone(p) /\ pn.suffix = "pn"  BY FormForms
<1> HIDE DEF pn, lid
<1>9. named = {} => get_sender_name(pn) = {Named(p)}
  <2> SUFFICES ASSUME named = {} PROVE get_sender_name(pn) = {Named(p)}
    OBVIOUS
  <2>1. CASE get_chat(pn) = {}
    <3>1. Like(Phone(p)) = {}  BY <1>5, <2>1 DEF Like
    <3>2. QED  BY <1>6, <1>8, <2>1, <3>1 DEF get_sender_name
  <2>2. CASE get_chat(pn) # {}
    <3> DEFINE answer(j) == IF chats[j].name = NoName \/ IsDigits(chats[j].name) THEN {Named(p)}
                            ELSE {chats[j].name}
    <3>1. \A j \in get_chat(pn) : answer(j) = {Named(p)}  OBVIOUS
    <3>2. get_sender_name(pn) = UNION {answer(j) : j \in get_chat(pn)}
      BY <1>6, <2>2 DEF get_sender_name
    <3> HIDE DEF answer
    <3>3. QED  BY <2>2, <3>1, <3>2
  <2>3. QED  BY <2>1, <2>2
<1>10. \A j \in named : chats[j].name = Named(p)
  BY <1>2, <1>4
<1> DEFINE names == IF named = {} THEN get_sender_name(pn) ELSE {chats[j].name : j \in named}
<1>11. names = {Named(p)}
  <2>1. CASE named = {}  BY <1>9, <2>1
  <2>2. CASE named # {}
    <3> HIDE DEF named
    <3>1. {chats[j].name : j \in named} = {Named(p)}  BY <1>10, <2>2
    <3>2. QED  BY <2>2, <3>1
  <2>3. QED  BY <2>1, <2>2
<1>12. get_contact(Form(Phone(p), "bare")) = {[is_lid |-> pn.suffix = "lid", name |-> n] : n \in names}
  <2> DEFINE v == Form(Phone(p), "bare")
             candidates == IF v.suffix = "bare" THEN <<Form(v.user, "pn"), Form(v.user, "lid")>> ELSE <<v>>
             hits == {n \in DOMAIN candidates : get_chat(candidates[n]) # {}}
             used == candidates[IF hits = {} \/ 1 \in hits THEN 1 ELSE 2]
  <2>1. candidates = <<pn, lid>>  BY <1>7 DEF pn, lid
  <2>2. used = pn
    <3> HIDE DEF candidates
    <3>1. ~(2 \in hits)  BY <1>3, <2>1
    <3>2. hits \subseteq {1, 2}  BY <2>1
    <3> HIDE DEF hits
    <3>3. hits = {} \/ 1 \in hits  BY <3>1, <3>2
    <3>4. QED  BY <2>1, <3>3
  <2>3. get_contact(v) =
          {[is_lid |-> used.suffix = "lid", name |-> n] :
             n \in IF {j \in get_chat(used) : chats[j].name # NoName} = {} THEN get_sender_name(used)
                   ELSE {chats[j].name : j \in {k \in get_chat(used) : chats[k].name # NoName}}}
    BY DEF get_contact
  <2> HIDE DEF used
  <2>4. QED  BY <2>2, <2>3
<1> HIDE DEF names
<1>13. QED  BY <1>8, <1>11, <1>12

\* Known people are shown by their name, or by a push name of their own that their
\* chat got while the map did not know them (GetChatName and the push name in
\* handleMessage, main.go 3272-3390 and 1841-1851; get_sender_name and
\* _resolve_name_from_whatsmeow, whatsapp.py 271-377; get_contact, main.py 75-163).
THEOREM KnownPeopleAreNamed == ReadSpec => []KnownAreNamed
<1>1. LidInv => KnownAreNamed
  BY MessagesAreNamed, ContactIsNamed, Zenon DEF KnownAreNamed
<1>2. QED  BY <1>1, LidInvariance, PTL

-----------------------------------------------------------------------------
(* A caller who pages: the invariant of the reader *)

ReaderOK ==
  /\ reader = [phase |-> reader.phase, call |-> reader.call, page |-> reader.page,
               todo |-> reader.todo, owed |-> reader.owed]
  /\ reader.phase \in {"idle", "paging"} /\ reader.page \in Nat
  /\ reader.todo \in Seq(Msgs)
  /\ reader.phase = "paging" => \E c \in Listings : reader.call = {c}
  /\ reader.phase = "idle" => reader.call = {} /\ reader.todo = <<>> /\ reader.owed = {}

\* Contexts are read of stored messages.
TodoIsStored ==
  \A n \in DOMAIN reader.todo :
    reader.todo[n] \in Stored /\ \A c \in reader.call : c.op = "list_messages"

\* Not on the pages the caller has seen.
Unseen(c, x) == reader.page * PageSize <= Rank(c, x)

\* What is owed will come: as a context still to be read, or on a page to come;
\* of a chat, if it was not active since.
WillCome(c, o) ==
  IF c.op = "list_messages"
  THEN \/ \E n \in DOMAIN reader.todo : reader.todo[n] = o.key
       \/ \E x \in Matched(c) : rows[x].id = o.key /\ Unseen(c, x)
  ELSE /\ o.key \in Matched(c) /\ o.time \in Nat
       /\ \/ o.time < chats[o.key].newest
          \/ o.time = chats[o.key].newest /\ Unseen(c, o.key)

ReaderInv ==
  /\ ReaderOK
  /\ TodoIsStored
  /\ \A c \in reader.call, o \in reader.owed : WillCome(c, o)

-----------------------------------------------------------------------------
(* Places in a listing *)

LEMMA JidOrderIs ==
  /\ IsFiniteSet(Jids)
  /\ JidOrder \in [Jids -> 1..Cardinality(Jids)] /\ Cardinality(Jids) \in Nat
  /\ \A j, k \in Jids : j # k => JidOrder[j] # JidOrder[k]
<1>1. IsFiniteSet(People) /\ IsFiniteSet(Groups)  BY ReadAssumption
<1>2. IsFiniteSet({Phone(p) : p \in People})
  <2>1. [p \in People |-> Phone(p)] \in Surjection(People, {Phone(p) : p \in People})
    BY DEF Surjection
  <2>2. QED  BY <1>1, <2>1, FS_Surjection
<1>3. IsFiniteSet({Lid(p) : p \in People})
  <2>1. [p \in People |-> Lid(p)] \in Surjection(People, {Lid(p) : p \in People})
    BY DEF Surjection
  <2>2. QED  BY <1>1, <2>1, FS_Surjection
<1>4. IsFiniteSet({<<g, "group">> : g \in Groups})
  <2>1. [g \in Groups |-> <<g, "group">>] \in Surjection(Groups, {<<g, "group">> : g \in Groups})
    BY DEF Surjection
  <2>2. QED  BY <1>1, <2>1, FS_Surjection
<1>5. IsFiniteSet(Jids)
  <2>1. IsFiniteSet({Phone(p) : p \in People} \union {Lid(p) : p \in People})  BY <1>2, <1>3, FS_Union
  <2>2. QED  BY <1>4, <2>1, FS_Union DEF Jids
<1>6. /\ Cardinality(Jids) \in Nat
      /\ \E g \in [Jids -> 1..Cardinality(Jids)] : \A j, k \in Jids : j # k => g[j] # g[k]
  BY <1>5, FiniteOrder
<1>7. /\ JidOrder \in [Jids -> 1..Cardinality(Jids)]
      /\ \A j, k \in Jids : j # k => JidOrder[j] # JidOrder[k]
  BY <1>6, Zenon DEF JidOrder
<1>8. QED  BY <1>5, <1>6, <1>7

LEMMA ListingForms ==
  ASSUME LidInv, NEW c \in Listings
  PROVE  \/ /\ c.op = "list_messages" /\ Matched(c) \subseteq DOMAIN rows
            /\ \A x : SortKey(c, x) = <<IF c.sort = "newest" THEN MaxTime - rows[x].time ELSE rows[x].time, x>>
         \/ /\ c.op = "list_chats" /\ ~c.context /\ Matched(c) = {j \in Jids : chats[j].known}
            /\ \A x : SortKey(c, x) = <<MaxTime - chats[x].newest, JidOrder[x]>>
<1>1. CASE c.op = "list_messages" /\ c.sort = "newest"
  BY <1>1 DEF Matched, SortKey, list_messages
<1>2. CASE c.op = "list_messages" /\ c.sort = "oldest"
  BY <1>2 DEF Matched, SortKey, list_messages
<1>3. CASE c.op = "list_chats" /\ c.sort = "last_active" /\ ~c.context
  BY <1>3 DEF Matched, SortKey, list_chats
<1>4. QED  BY <1>1, <1>2, <1>3, ReadAssumption

LEMMA Keys ==
  ASSUME LidInv, NEW c \in Listings
  PROVE  /\ IsFiniteSet(Matched(c))
         /\ \A x \in Matched(c) : SortKey(c, x)[1] \in Int /\ SortKey(c, x)[2] \in Int
         /\ \A x, y \in Matched(c) : x # y => SortKey(c, x)[2] # SortKey(c, y)[2]
<1>1. MaxTime \in Nat  BY LidAssumption
<1>2. CASE /\ Matched(c) \subseteq DOMAIN rows
           /\ \A x : SortKey(c, x) = <<IF c.sort = "newest" THEN MaxTime - rows[x].time ELSE rows[x].time, x>>
  <2>1. /\ LastRow \in Nat /\ DOMAIN rows \subseteq 1..LastRow
        /\ \A x \in DOMAIN rows : rows[x].time \in 1..MaxTime
    BY DEF LidInv, LidTypeOK, Rows, Times
  <2>2. IsFiniteSet(1..LastRow)  BY <2>1, FS_Interval
  <2>3. IsFiniteSet(Matched(c))  BY <1>2, <2>1, <2>2, FS_Subset
  <2>4. \A x \in DOMAIN rows : (IF c.sort = "newest" THEN MaxTime - rows[x].time ELSE rows[x].time) \in Int /\ x \in Int
    BY <1>1, <2>1
  <2>5. QED  BY <1>2, <2>3, <2>4
<1>3. CASE /\ Matched(c) = {j \in Jids : chats[j].known}
           /\ \A x : SortKey(c, x) = <<MaxTime - chats[x].newest, JidOrder[x]>>
  <2>1. \A j \in Jids : chats[j].newest \in 0..MaxTime  BY DEF LidInv, LidTypeOK, Chats
  <2>2. IsFiniteSet(Matched(c))  BY <1>3, JidOrderIs, FS_Subset
  <2>3. \A j \in Jids : JidOrder[j] \in Int /\ MaxTime - chats[j].newest \in Int
    BY <1>1, <2>1, JidOrderIs
  <2>4. QED  BY <1>3, <2>2, <2>3, JidOrderIs
<1>4. QED  BY <1>2, <1>3, ListingForms

\* The place of a match is the number of those before it: no two have the same
\* and none is left out.
LEMMA Places ==
  ASSUME LidInv, NEW c \in Listings
  PROVE  /\ \A x \in Matched(c) : Rank(c, x) \in Nat
         /\ \A x, y \in Matched(c) : x # y => Rank(c, x) # Rank(c, y)
         /\ \A x \in Matched(c) : \A r \in 0..Rank(c, x) : \E y \in Matched(c) : Rank(c, y) = r
<1> DEFINE M == Matched(c)
           B(x) == {y \in M : Precedes(c, y, x)}
<1>1. /\ IsFiniteSet(M)
      /\ \A x \in M : SortKey(c, x)[1] \in Int /\ SortKey(c, x)[2] \in Int
      /\ \A x, y \in M : x # y => SortKey(c, x)[2] # SortKey(c, y)[2]
  BY Keys
<1>2. /\ \A x \in M : ~Precedes(c, x, x)
      /\ \A x, y \in M : x # y => Precedes(c, x, y) \/ Precedes(c, y, x)
      /\ \A x, y, z \in M : Precedes(c, z, y) /\ Precedes(c, y, x) => Precedes(c, z, x)
  BY <1>1 DEF Precedes
<1> HIDE DEF M
<1>3. \A x \in M : Rank(c, x) = Cardinality(B(x))  BY DEF Rank, M
<1>4. ASSUME NEW x \in M PROVE IsFiniteSet(B(x)) /\ Cardinality(B(x)) \in Nat
  <2>1. B(x) \in SUBSET M  OBVIOUS
  <2>2. IsFiniteSet(B(x))  BY <1>1, <2>1, FS_Subset
  <2>3. QED  BY <2>2, FS_CardinalityType
<1>5. ASSUME NEW x \in M, NEW y \in M, Precedes(c, y, x)
      PROVE  Cardinality(B(y)) < Cardinality(B(x))
  <2>1. B(y) \subseteq B(x) /\ y \in B(x) /\ y \notin B(y)  BY <1>2, <1>5
  <2>2. IsFiniteSet(B(x)) /\ Cardinality(B(x)) \in Nat /\ Cardinality(B(y)) \in Nat  BY <1>4
  <2> HIDE DEF B
  <2>3. Cardinality(B(y)) <= Cardinality(B(x)) /\ (Cardinality(B(x)) = Cardinality(B(y)) => B(x) = B(y))
    BY <2>1, <2>2, FS_Subset
  <2>4. QED  BY <2>1, <2>2, <2>3
<1>6. ASSUME NEW x \in M, NEW y \in M, x # y PROVE Cardinality(B(x)) # Cardinality(B(y))
  <2>1. Cardinality(B(x)) \in Nat /\ Cardinality(B(y)) \in Nat  BY <1>4
  <2>2. CASE Precedes(c, x, y)
    <3>1. Cardinality(B(x)) < Cardinality(B(y))  BY <1>5, <2>2
    <3> HIDE DEF B
    <3>2. QED  BY <2>1, <3>1
  <2>3. CASE Precedes(c, y, x)
    <3>1. Cardinality(B(y)) < Cardinality(B(x))  BY <1>5, <2>3
    <3> HIDE DEF B
    <3>2. QED  BY <2>1, <3>1
  <2>4. QED  BY <1>2, <1>6, <2>2, <2>3
<1>7. ASSUME NEW x \in M, NEW r \in 0..(Cardinality(B(x)) - 1) PROVE \E y \in M : Cardinality(B(y)) = r
  <2> DEFINE n == Cardinality(B(x))
             f == [y \in B(x) |-> Cardinality(B(y))]
  <2>1. n \in Nat /\ IsFiniteSet(B(x))  BY <1>4
  <2>2. ASSUME NEW y \in B(x) PROVE Cardinality(B(y)) \in 0..(n - 1)
    <3>1. y \in M /\ Precedes(c, y, x)  OBVIOUS
    <3>2. Cardinality(B(y)) < n /\ Cardinality(B(y)) \in Nat  BY <1>4, <1>5, <3>1
    <3> HIDE DEF B, n
    <3>3. QED  BY <2>1, <3>2
  <2>3. f \in [B(x) -> 0..(n - 1)]  BY <2>2
  <2>4. \A y, z \in B(x) : f[y] = f[z] => y = z  BY <1>6
  <2>5. f \in Injection(B(x), 0..(n - 1))  BY <2>3, <2>4 DEF Injection, IsInjective
  <2>6. IsFiniteSet(0..(n - 1)) /\ Cardinality(0..(n - 1)) = n  BY <2>1, FS_Interval
  <2> HIDE DEF f
  <2>7. f \in Surjection(B(x), 0..(n - 1))  BY <2>5, <2>6, FS_Injection
  <2>8. PICK y \in B(x) : f[y] = r  BY <2>7 DEF Surjection
  <2>9. QED  BY <2>8 DEF f
<1>8. ASSUME NEW x \in M, NEW r \in 0..Cardinality(B(x)) PROVE \E y \in M : Cardinality(B(y)) = r
  <2>1. CASE r = Cardinality(B(x))  BY <2>1
  <2>2. CASE r # Cardinality(B(x))
    <3>1. r \in 0..(Cardinality(B(x)) - 1)  BY <1>4, <2>2
    <3>2. QED  BY <1>7, <3>1
  <2>3. QED  BY <2>1, <2>2
<1> HIDE DEF B
<1>9. QED  BY <1>3, <1>4, <1>6, <1>8 DEF M

-----------------------------------------------------------------------------
(* Pages *)

\* Without a page at k there is none after it.
LEMMA LastPage ==
  ASSUME LidInv, NEW c \in Listings, NEW k \in Nat, OnPage(c, k) = {}, NEW x \in Matched(c)
  PROVE  ~(k * PageSize <= Rank(c, x))
<1> SUFFICES ASSUME k * PageSize <= Rank(c, x) PROVE FALSE
  OBVIOUS
<1>1. PageSize \in Nat /\ PageSize > 0 /\ k * PageSize \in Nat /\ Rank(c, x) \in Nat
  BY ReadAssumption, Places
<1> DEFINE offset == k * PageSize
<1> HIDE DEF offset
<1>2. offset \in 0..Rank(c, x)  BY <1>1 DEF offset
<1>3. PICK y \in Matched(c) : Rank(c, y) = offset  BY <1>2, Places
<1>4. offset <= Rank(c, y) /\ Rank(c, y) < offset + PageSize  BY <1>1, <1>3 DEF offset
<1>5. y \in OnPage(c, k)  BY <1>4 DEF OnPage, offset
<1>6. QED  BY <1>5

LEMMA PagePassed ==
  ASSUME LidInv, NEW c \in Listings, NEW k \in Nat, NEW x \in Matched(c),
         k * PageSize <= Rank(c, x), x \notin OnPage(c, k)
  PROVE  (k + 1) * PageSize <= Rank(c, x)
<1>1. PageSize \in Nat /\ k * PageSize \in Nat /\ Rank(c, x) \in Nat  BY ReadAssumption, Places
<1>2. ~(Rank(c, x) < k * PageSize + PageSize)  BY DEF OnPage
<1>3. (k + 1) * PageSize = k * PageSize + PageSize  BY <1>1
<1>4. QED  BY <1>1, <1>2, <1>3

\* A page in its order is made of its matches.
LEMMA PageIsListed ==
  ASSUME LidInv, NEW c \in Listings, c.op = "list_messages", NEW k \in Nat
  PROVE  /\ PageInOrder(c, k) \in Seq(Msgs)
         /\ \A n \in DOMAIN PageInOrder(c, k) : PageInOrder(c, k)[n] \in Stored
         /\ \A x \in OnPage(c, k) : \E n \in DOMAIN PageInOrder(c, k) : PageInOrder(c, k)[n] = rows[x].id
<1> DEFINE found == OnPage(c, k)
           offset == k * PageSize
           At(x) == Rank(c, x) - offset + 1
           D == {At(x) : x \in found}
           m == Newest(D)
<1>1. PageSize \in Nat /\ PageSize > 0 /\ offset \in Nat /\ \A x \in Matched(c) : Rank(c, x) \in Nat
  BY ReadAssumption, Places
<1>2. found = {x \in Matched(c) : offset <= Rank(c, x) /\ Rank(c, x) < offset + PageSize}
  BY DEF OnPage
<1> HIDE DEF found, offset
<1>3. found \subseteq Matched(c) /\ Matched(c) \subseteq DOMAIN rows  BY <1>2, ListingForms
<1>4. D \in SUBSET (1..PageSize) /\ \A x \in found : At(x) \in D  BY <1>1, <1>2
<1> HIDE DEF D
<1>5. /\ m \in 0..PageSize /\ (D = {} => m = 0) /\ (D # {} => m \in D)
      /\ \A u \in D : u <= m
  BY <1>1, <1>4, NewestIs
<1> HIDE DEF m
<1>6. ASSUME NEW n \in 1..m PROVE \E x \in found : At(x) = n
  <2>1. m \in D  BY <1>5
  <2>2. PICK x \in found : At(x) = m  BY <2>1 DEF D
  <2>3. x \in Matched(c) /\ Rank(c, x) = offset + m - 1 /\ Rank(c, x) < offset + PageSize
    BY <1>1, <1>2, <1>5, <2>2
  <2>4. offset + n - 1 \in 0..Rank(c, x)  BY <1>1, <1>5, <2>3
  <2>5. PICK y \in Matched(c) : Rank(c, y) = offset + n - 1  BY <2>3, <2>4, Places
  <2>6. offset <= Rank(c, y) /\ Rank(c, y) < offset + PageSize  BY <1>1, <1>5, <2>3, <2>5
  <2>7. y \in found  BY <1>2, <2>6
  <2>8. QED  BY <1>1, <2>5, <2>7
<1>7. ASSUME NEW x \in found PROVE At(x) \in 1..m
  <2>1. At(x) \in D  BY <1>4
  <2> HIDE DEF At
  <2>2. At(x) \in 1..PageSize /\ At(x) <= m  BY <1>4, <1>5, <2>1
  <2>3. QED  BY <1>1, <1>5, <2>2
<1>8. \A x, y \in found : x # y => At(x) # At(y)
  BY <1>1, <1>3, Places
<1>9. Cardinality(found) = m
  <2> DEFINE f == [x \in found |-> At(x)]
  <2>1. f \in [found -> 1..m]  BY <1>7
  <2>2. f \in Surjection(found, 1..m)  BY <1>6, <2>1 DEF Surjection
  <2>3. f \in Injection(found, 1..m)  BY <1>8, <2>1 DEF Injection, IsInjective
  <2>4. IsFiniteSet(found)  BY <1>3, Keys, FS_Subset
  <2>5. Cardinality(1..m) = m  BY <1>5, FS_Interval
  <2> HIDE DEF f
  <2>6. Cardinality(1..m) = Cardinality(found)  BY <2>2, <2>3, <2>4, FS_Surjection
  <2>7. QED  BY <2>5, <2>6
<1>10. m \in Nat  BY <1>5
<1> DEFINE there(n) == CHOOSE x \in found : Rank(c, x) = offset + (n - 1)
<1>11. PageInOrder(c, k) = [n \in 1..m |-> rows[there(n)].id]
  BY <1>9 DEF PageInOrder, found, offset
<1>12. ASSUME NEW n \in 1..m PROVE there(n) \in found /\ At(there(n)) = n
  <2>1. PICK x \in found : At(x) = n  BY <1>6
  <2>2. Rank(c, x) = offset + (n - 1)  BY <1>1, <1>3, <1>10, <2>1
  <2>3. there(n) \in found /\ Rank(c, there(n)) = offset + (n - 1)  BY <2>2
  <2> HIDE DEF there
  <2>4. QED  BY <1>1, <1>3, <1>10, <2>3
<1>13. \A i \in DOMAIN rows : rows[i].id \in Msgs /\ rows[i].id \in Stored
  BY DEF LidInv, LidTypeOK, Rows, Stored
<1>14. ASSUME NEW x \in found PROVE there(At(x)) = x
  BY <1>7, <1>8, <1>12
<1> HIDE DEF there, At
<1>15. \A n \in 1..m : rows[there(n)].id \in Msgs /\ rows[there(n)].id \in Stored
  BY <1>3, <1>12, <1>13
<1>16. PageInOrder(c, k) \in [1..m -> Msgs]  BY <1>11, <1>15
<1>17. PageInOrder(c, k) \in Seq(Msgs)  BY <1>10, <1>16
<1>18. DOMAIN PageInOrder(c, k) = 1..m  BY <1>11
<1>19. ASSUME NEW x \in found PROVE \E n \in 1..m : PageInOrder(c, k)[n] = rows[x].id
  <2>1. At(x) \in 1..m /\ there(At(x)) = x  BY <1>7, <1>14
  <2>2. PageInOrder(c, k)[At(x)] = rows[x].id  BY <1>11, <2>1
  <2>3. QED  BY <2>1, <2>2
<1>20. QED  BY <1>11, <1>15, <1>17, <1>18, <1>19 DEF found

-----------------------------------------------------------------------------
(* Pages while the bridge writes *)

LEMMA UnwrittenIsKept ==
  ASSUME LidInv, [Bridge]_lidVars, ~Rewritten
  PROVE  Kept /\ \A i \in DOMAIN rows : rows'[i].sender = rows[i].sender /\ rows'[i].time = rows[i].time
<1>1. ASSUME NEW i \in DOMAIN rows PROVE rows'[i].sender = rows[i].sender /\ rows'[i].time = rows[i].time
  <2>1. rows'[i] = [rows[i] EXCEPT !.deleted = rows'[i].deleted] /\ rows[i] \in Rows
    BY DEF Rewritten, LidInv, LidTypeOK
  <2>2. QED  BY <2>1 DEF Rows
<1>2. CASE ~MigrateLegacyLIDChatsToPhoneJIDs  BY <1>1, <1>2, BridgeKeeps
<1>3. CASE MigrateLegacyLIDChatsToPhoneJIDs
  <2>1. ChatsMerged /\ RowsMoved  BY <1>3, ChatsAreMerged, RowsAreMovedRight
  <2>2. ASSUME NEW p \in Legacy PROVE FALSE
    <3>1. Lid(p) \in Jids
      <4>1. p \in People  BY DEF Legacy, LidInv, LidTypeOK
      <4>2. QED  BY <4>1, Forms
    <3>2. chats[Lid(p)].known
      BY DEF Legacy, InLid, LidInv, RowsHaveChats
    <3>3. ~chats'[Lid(p)].known  BY <2>1 DEF ChatsMerged, NoChat
    <3>4. QED  BY <3>1, <3>2, <3>3 DEF Rewritten
  <2>3. InLegacyChat = {}  BY <2>2 DEF InLegacyChat
  <2>4. /\ \A i \in DOMAIN rows : i \in DOMAIN rows' /\ rows'[i] = rows[i]
        /\ DOMAIN rows' \subseteq DOMAIN rows
    BY <2>1, <2>2, <2>3 DEF RowsMoved, MovedRow
  <2>5. RowsKept  BY <2>4 DEF RowsKept, SameRow, LidInv, LidTypeOK
  <2>6. chats' = chats
    <3>1. chats' \in [Jids -> Chats] /\ chats \in [Jids -> Chats]
      BY <2>1 DEF ChatsMerged, LidInv, LidTypeOK
    <3>2. \A j \in Jids : chats'[j] = chats[j]  BY <2>1, <2>2 DEF ChatsMerged
    <3>3. QED  BY <3>1, <3>2
  <2>7. sent' = sent  BY <1>3 DEF MigrateLegacyLIDChatsToPhoneJIDs, bounds
  <2>8. QED  BY <1>1, <2>5, <2>6, <2>7, SameChats DEF Kept
<1>4. QED  BY <1>2, <1>3

\* Whoever the sender filter found it finds again.
LEMMA WritersStay ==
  ASSUME LidInv, [Bridge]_lidVars, ~Rewritten, NEW i \in DOMAIN rows, NEW v, i \in WrittenBy(v)
  PROVE  i \in WrittenBy(v)'
<1>1. Kept /\ rows'[i].sender = rows[i].sender  BY UnwrittenIsKept
<1>2. i \in DOMAIN rows'  BY <1>1 DEF Kept, RowsKept, SameRow
<1> DEFINE a == rows[i].sender
           b == Form(a, "bare")
<1>3. a \in Addresses /\ lids \subseteq People  BY DEF LidInv, LidTypeOK, Rows
<1>4. lids \subseteq lids' /\ lids' \subseteq People  BY ControlStep DEF LidInv
<1>5. b \in sender_aliases(v)  BY DEF WrittenBy
<1>6. b \in IF v.user[1] \in lids' THEN FormsOf(v.user[1])
           ELSE {Form(v.user, "bare"), Form(v.user, "pn"), Form(v.user, "lid")}
  <2>1. CASE v.user[1] \in lids  BY <1>4, <1>5, <2>1 DEF sender_aliases
  <2>2. CASE v.user[1] \notin lids
    <3>1. b \in {Form(v.user, "bare"), Form(v.user, "pn"), Form(v.user, "lid")}
      BY <1>5, <2>2 DEF sender_aliases
    <3>2. a = v.user  BY <3>1, FormForms
    <3>3. CASE v.user[1] \in lids'
      <4>1. a = Phone(v.user[1]) \/ a = Lid(v.user[1])  BY <1>3, <1>4, <3>2, <3>3, AddressForms
      <4>2. QED  BY <3>3, <4>1 DEF FormsOf
    <3>4. QED  BY <3>1, <3>3
  <2>3. QED  BY <2>1, <2>2
<1>7. sender_aliases(v)' = IF v.user[1] \in lids' THEN FormsOf(v.user[1])
                           ELSE {Form(v.user, "bare"), Form(v.user, "pn"), Form(v.user, "lid")}
  BY DEF sender_aliases, FormsOf, Form, Phone, Lid
<1>8. Form(rows'[i].sender, "bare") = b  BY <1>1
<1>9. WrittenBy(v)' = {k \in DOMAIN rows' : Form(rows'[k].sender, "bare") \in sender_aliases(v)'}
  BY DEF WrittenBy, Form
<1> HIDE DEF b
<1>10. QED  BY <1>2, <1>6, <1>7, <1>8, <1>9

\* A message listed before a write has not come nearer to the front after it.
LEMMA MessagesMoveBack ==
  ASSUME LidInv, LidInv', [Bridge]_lidVars, ~Rewritten,
         NEW c \in Listings, c.op = "list_messages", NEW x \in Matched(c)
  PROVE  x \in Matched(c)' /\ rows'[x].id = rows[x].id /\ Rank(c, x)' \in Nat /\ Rank(c, x) <= Rank(c, x)'
<1>1. Kept /\ \A y \in DOMAIN rows : rows'[y].time = rows[y].time  BY UnwrittenIsKept
<1>2. /\ Matched(c) \subseteq DOMAIN rows
      /\ \A y : SortKey(c, y) = <<IF c.sort = "newest" THEN MaxTime - rows[y].time ELSE rows[y].time, y>>
  BY ListingForms
<1>3. \A y : SortKey(c, y)' = <<IF c.sort = "newest" THEN MaxTime - rows'[y].time ELSE rows'[y].time, y>>
  <2>1. c.sort \in {"newest", "oldest"}  BY ReadAssumption
  <2>2. QED  BY <2>1 DEF SortKey
<1>4. \A y \in DOMAIN rows : /\ y \in DOMAIN rows' /\ rows'[y].id = rows[y].id
                             /\ rows'[y].time = rows[y].time /\ rows'[y].chat = rows[y].chat
  BY <1>1 DEF Kept, RowsKept, SameRow
<1>5. \A y \in DOMAIN rows : SortKey(c, y)' = SortKey(c, y)  BY <1>2, <1>3, <1>4
<1>6. Matched(c) = list_messages(c.filter) /\ Matched(c)' = list_messages(c.filter)'
  BY DEF Matched
<1> DEFINE f == c.filter
<1>7. ASSUME NEW y \in Matched(c) PROVE y \in Matched(c)'
  <2>1. /\ y \in DOMAIN rows /\ chats[rows[y].chat].known
        /\ f.after < rows[y].time /\ rows[y].time < f.before
        /\ \A v \in f.sender : y \in WrittenBy(v)
        /\ \A j \in f.chat : rows[y].chat = j
        /\ f.query => rows[y].id \in Hits
    BY <1>6 DEF list_messages
  <2>2. rows[y].chat \in Jids  BY <2>1 DEF LidInv, LidTypeOK, Rows
  <2>3. chats'[rows[y].chat].known  BY <1>1, <2>1, <2>2 DEF Kept, ChatsKept
  <2>4. \A v \in f.sender : y \in WrittenBy(v)'  BY <2>1, WritersStay
  <2> HIDE DEF f
  <2>5. y \in list_messages(f)'  BY <1>4, <2>1, <2>3, <2>4 DEF list_messages
  <2>6. QED  BY <1>6, <2>5 DEF f
<1> DEFINE B == {y \in Matched(c) : Precedes(c, y, x)}
           C == {y \in Matched(c)' : Precedes(c, y, x)'}
<1>8. B \subseteq C
  BY <1>2, <1>5, <1>7 DEF Precedes
<1>9. IsFiniteSet(C)
  <2>1. LastRow' \in Nat /\ DOMAIN rows' \subseteq 1..LastRow'  BY DEF LidInv, LidTypeOK
  <2>2. IsFiniteSet(1..LastRow')  BY <2>1, FS_Interval
  <2>3. Matched(c)' \subseteq DOMAIN rows'  BY <1>6 DEF list_messages
  <2>4. C \in SUBSET (1..LastRow')  BY <2>1, <2>3
  <2>5. QED  BY <2>2, <2>4, FS_Subset
<1>10. Rank(c, x) = Cardinality(B) /\ Rank(c, x)' = Cardinality(C)  BY DEF Rank
<1> HIDE DEF B, C
<1>11. Cardinality(B) <= Cardinality(C) /\ Cardinality(C) \in Nat
  BY <1>8, <1>9, FS_Subset, FS_CardinalityType
<1>12. QED  BY <1>2, <1>4, <1>7, <1>10, <1>11

\* Nor has a chat, unless it became active.
LEMMA ChatsMoveBack ==
  ASSUME LidInv, LidInv', [Bridge]_lidVars, ~Rewritten,
         NEW c \in Listings, c.op = "list_chats", NEW x \in Matched(c)
  PROVE  /\ x \in Matched(c)' /\ chats[x].newest <= chats'[x].newest
         /\ chats'[x].newest = chats[x].newest => Rank(c, x)' \in Nat /\ Rank(c, x) <= Rank(c, x)'
<1>1. ChatsKept  BY UnwrittenIsKept DEF Kept
<1>2. /\ Matched(c) = {j \in Jids : chats[j].known}
      /\ \A y : SortKey(c, y) = <<MaxTime - chats[y].newest, JidOrder[y]>>
  BY ListingForms
<1>3. Matched(c)' = {j \in Jids : chats'[j].known}
  BY DEF Matched, list_chats
<1>4. \A y : SortKey(c, y)' = <<MaxTime - chats'[y].newest, JidOrder[y]>>
  <2>1. c.sort = "last_active"  BY ReadAssumption
  <2>2. QED  BY <2>1 DEF SortKey
<1>5. /\ MaxTime \in Nat
      /\ \A j \in Jids : /\ chats[j].newest \in 0..MaxTime /\ chats'[j].newest \in 0..MaxTime
                         /\ chats[j].newest <= chats'[j].newest
                         /\ chats[j].known => chats'[j].known
  BY <1>1, LidAssumption DEF LidInv, LidTypeOK, ChatsKept, Chats
<1>6. ASSUME chats'[x].newest = chats[x].newest PROVE Rank(c, x)' \in Nat /\ Rank(c, x) <= Rank(c, x)'
  <2> DEFINE B == {y \in Matched(c) : Precedes(c, y, x)}
             C == {y \in Matched(c)' : Precedes(c, y, x)'}
  <2>1. ASSUME NEW y \in Matched(c), Precedes(c, y, x) PROVE y \in Matched(c)' /\ Precedes(c, y, x)'
    <3>1. x \in Jids /\ y \in Jids /\ y \in Matched(c)'  BY <1>2, <1>3, <1>5, <2>1
    <3>2. JidOrder[x] \in Int /\ JidOrder[y] \in Int  BY <3>1, JidOrderIs
    <3>3. \/ MaxTime - chats[y].newest < MaxTime - chats[x].newest
          \/ MaxTime - chats[y].newest = MaxTime - chats[x].newest /\ JidOrder[y] < JidOrder[x]
      BY <1>2, <2>1 DEF Precedes
    <3>4. \/ MaxTime - chats'[y].newest < MaxTime - chats'[x].newest
          \/ MaxTime - chats'[y].newest = MaxTime - chats'[x].newest /\ JidOrder[y] < JidOrder[x]
      BY <1>5, <1>6, <3>1, <3>2, <3>3
    <3>5. QED  BY <1>4, <3>1, <3>4 DEF Precedes
  <2>2. B \subseteq C  BY <2>1
  <2>3. IsFiniteSet(C)
    <3>1. C \in SUBSET Jids  BY <1>3
    <3>2. QED  BY <3>1, JidOrderIs, FS_Subset
  <2>4. Rank(c, x) = Cardinality(B) /\ Rank(c, x)' = Cardinality(C)  BY DEF Rank
  <2> HIDE DEF B, C
  <2>5. Cardinality(B) <= Cardinality(C) /\ Cardinality(C) \in Nat
    BY <2>2, <2>3, FS_Subset, FS_CardinalityType
  <2>6. QED  BY <2>4, <2>5
<1>7. QED  BY <1>2, <1>3, <1>5, <1>6

-----------------------------------------------------------------------------
(* What is owed comes *)

\* Whatever is written, nothing owed slips in front of the page to come.
LEMMA WriteOwes ==
  ASSUME LidInv, LidInv', ReaderInv, Write
  PROVE  ReaderInv'
<1>1. /\ [Bridge]_lidVars
      /\ reader' = [reader EXCEPT !.owed = IF Rewritten THEN {} ELSE @]
  BY DEF Write
<1>2. /\ reader.phase \in {"idle", "paging"} /\ reader.page \in Nat /\ reader.todo \in Seq(Msgs)
      /\ reader.phase = "paging" => \E c \in Listings : reader.call = {c}
      /\ reader.phase = "idle" => reader.call = {} /\ reader.todo = <<>> /\ reader.owed = {}
  BY DEF ReaderInv, ReaderOK
<1>3. reader' = [phase |-> reader.phase, call |-> reader.call, page |-> reader.page, todo |-> reader.todo,
                 owed |-> IF Rewritten THEN {} ELSE reader.owed]
  <2>1. reader = [phase |-> reader.phase, call |-> reader.call, page |-> reader.page,
                  todo |-> reader.todo, owed |-> reader.owed]
    BY DEF ReaderInv, ReaderOK
  <2>2. QED  BY <1>1, <2>1
<1>4. /\ reader'.phase = reader.phase /\ reader'.call = reader.call /\ reader'.page = reader.page
      /\ reader'.todo = reader.todo /\ reader'.owed = IF Rewritten THEN {} ELSE reader.owed
  BY <1>3
<1>5. ReaderOK'
  <2>1. reader' = [phase |-> reader'.phase, call |-> reader'.call, page |-> reader'.page,
                   todo |-> reader'.todo, owed |-> reader'.owed]
    BY <1>3
  <2>2. reader.phase = "idle" => reader'.owed = {}  BY <1>2, <1>4
  <2>3. QED  BY <1>2, <1>4, <2>1, <2>2, Zenon DEF ReaderOK
<1>6. Stored \subseteq Stored'
  <2>1. CASE MigrateLegacyLIDChatsToPhoneJIDs  BY <2>1, MigrationLosesNothing
  <2>2. CASE ~MigrateLegacyLIDChatsToPhoneJIDs  BY <1>1, <2>2, BridgeKeeps, KeptLosesNothing
  <2>3. QED  BY <2>1, <2>2
<1>7. TodoIsStored'
  BY <1>4, <1>6 DEF ReaderInv, TodoIsStored
<1>8. ASSUME NEW c \in reader.call, NEW o \in reader'.owed PROVE WillCome(c, o)'
  <2>1. ~Rewritten /\ o \in reader.owed  BY <1>4, <1>8
  <2>2. WillCome(c, o) /\ c \in Listings  BY <1>2, <2>1 DEF ReaderInv
  <2>3. CASE c.op = "list_messages"
    <3>1. CASE \E n \in DOMAIN reader.todo : reader.todo[n] = o.key
      BY <1>4, <2>3, <3>1 DEF WillCome
    <3>2. ASSUME NEW x \in Matched(c), rows[x].id = o.key, Unseen(c, x) PROVE WillCome(c, o)'
      <4>1. /\ x \in Matched(c)' /\ rows'[x].id = rows[x].id
            /\ Rank(c, x)' \in Nat /\ Rank(c, x) <= Rank(c, x)'
        BY <1>1, <2>1, <2>2, <2>3, MessagesMoveBack
      <4>2. Unseen(c, x)'
        <5>1. Rank(c, x) \in Nat /\ reader.page * PageSize \in Nat  BY <1>2, <2>2, Places, ReadAssumption
        <5>2. reader'.page * PageSize = reader.page * PageSize  BY <1>4
        <5>3. reader.page * PageSize <= Rank(c, x)  BY <3>2 DEF Unseen
        <5>4. reader'.page * PageSize <= Rank(c, x)'  BY <4>1, <5>1, <5>2, <5>3
        <5>5. QED  BY <5>4 DEF Unseen
      <4>3. QED  BY <2>3, <3>2, <4>1, <4>2 DEF WillCome
    <3>3. QED  BY <2>2, <2>3, <3>1, <3>2 DEF WillCome
  <2>4. CASE c.op = "list_chats"
    <3> DEFINE x == o.key
    <3>1. /\ x \in Matched(c) /\ o.time \in Nat
          /\ \/ o.time < chats[x].newest
             \/ o.time = chats[x].newest /\ Unseen(c, x)
      BY <2>2, <2>4 DEF WillCome
    <3>2. /\ x \in Matched(c)' /\ chats[x].newest <= chats'[x].newest
          /\ chats'[x].newest = chats[x].newest => Rank(c, x)' \in Nat /\ Rank(c, x) <= Rank(c, x)'
      BY <1>1, <2>1, <2>2, <2>4, <3>1, ChatsMoveBack
    <3>3. chats[x].newest \in Nat /\ chats'[x].newest \in Nat
      <4>1. x \in Jids  BY <2>2, <2>4, <3>1, ListingForms
      <4>2. chats[x] \in Chats /\ chats'[x] \in Chats  BY <4>1 DEF LidInv, LidTypeOK
      <4>3. QED  BY <4>2, LidAssumption DEF Chats
    <3> HIDE DEF x
    <3>4. CASE o.time < chats'[x].newest
      BY <2>4, <3>1, <3>2, <3>4 DEF WillCome, x
    <3>5. CASE ~(o.time < chats'[x].newest)
      <4>1. o.time = chats[x].newest /\ Unseen(c, x) /\ chats'[x].newest = chats[x].newest
        BY <3>1, <3>2, <3>3, <3>5
      <4>2. Unseen(c, x)'
        <5>1. Rank(c, x) \in Nat /\ reader.page * PageSize \in Nat
          BY <1>2, <2>2, <3>1, Places, ReadAssumption
        <5>2. reader'.page * PageSize = reader.page * PageSize  BY <1>4
        <5>3. reader.page * PageSize <= Rank(c, x)  BY <4>1 DEF Unseen
        <5>4. reader'.page * PageSize <= Rank(c, x)'  BY <3>2, <4>1, <5>1, <5>2, <5>3
        <5>5. QED  BY <5>4 DEF Unseen
      <4>3. QED  BY <2>4, <3>1, <3>2, <4>1, <4>2 DEF WillCome, x
    <3>6. QED  BY <3>4, <3>5
  <2>5. QED  BY <2>2, <2>3, <2>4, ReadAssumption
<1>9. QED  BY <1>4, <1>5, <1>7, <1>8 DEF ReaderInv

\* A read changes nothing but the reader.
LEMMA SameTables ==
  ASSUME UNCHANGED lidVars
  PROVE  /\ Stored' = Stored
         /\ \A c : Matched(c)' = Matched(c)
         /\ \A c, x : Rank(c, x)' = Rank(c, x)
<1>1. UNCHANGED <<lids, rows, chats>>  BY DEF lidVars, state, store
<1>2. Stored' = Stored  BY <1>1 DEF Stored
<1>3. \A v : WrittenBy(v)' = WrittenBy(v)
  BY <1>1 DEF WrittenBy, sender_aliases, FormsOf, Form, Phone, Lid
<1>4. \A f : list_messages(f)' = list_messages(f)  BY <1>1, <1>3 DEF list_messages
<1>5. list_chats' = list_chats  BY <1>1 DEF list_chats
<1>6. \A c : Matched(c)' = Matched(c)  BY <1>4, <1>5 DEF Matched
<1>7. \A c, x : SortKey(c, x)' = SortKey(c, x)  BY <1>1 DEF SortKey
<1>8. \A c, y, x : Precedes(c, y, x)' = Precedes(c, y, x)  BY <1>7 DEF Precedes
<1>9. \A c, x : Rank(c, x)' = Rank(c, x)  BY <1>6, <1>8 DEF Rank
<1>10. QED  BY <1>2, <1>6, <1>9

\* All that matched when a listing begins is on a page to come.
LEMMA BeginOwes ==
  ASSUME LidInv, ReaderInv, NEW c \in Listings, Begin(c)
  PROVE  ReaderInv'
<1> DEFINE due == {[key |-> Key(c, x), time |-> Time(c, x)] : x \in Matched(c)}
<1>1. /\ UNCHANGED lidVars
      /\ reader' = [phase |-> "paging", call |-> {c}, page |-> 0, todo |-> <<>>, owed |-> due]
  BY DEF Begin, Idle
<1> HIDE DEF due
<1>2. /\ reader'.phase = "paging" /\ reader'.call = {c} /\ reader'.page = 0
      /\ reader'.todo = <<>> /\ reader'.owed = due
  BY <1>1
<1>3. ReaderOK'
  <2>1. reader' = [phase |-> reader'.phase, call |-> reader'.call, page |-> reader'.page,
                   todo |-> reader'.todo, owed |-> reader'.owed]
    BY <1>1
  <2>2. <<>> \in Seq(Msgs)  OBVIOUS
  <2>3. QED  BY <1>2, <2>1, <2>2 DEF ReaderOK
<1>4. TodoIsStored'  BY <1>2 DEF TodoIsStored
<1>5. ASSUME NEW o \in due PROVE WillCome(c, o)'
  <2>1. PICK x \in Matched(c) : o = [key |-> Key(c, x), time |-> Time(c, x)]  BY DEF due
  <2>2. x \in Matched(c)' /\ Unseen(c, x)'
    <3>1. Rank(c, x) \in Nat  BY Places
    <3>2. reader'.page * PageSize = 0  BY <1>2, ReadAssumption
    <3>3. reader'.page * PageSize <= Rank(c, x)'  BY <1>1, <3>1, <3>2, SameTables
    <3>4. QED  BY <1>1, <3>3, SameTables DEF Unseen
  <2>3. CASE c.op = "list_messages"
    <3>1. rows'[x].id = o.key  BY <1>1, <2>1, <2>3 DEF Key, lidVars, state, store
    <3>2. QED  BY <2>2, <2>3, <3>1 DEF WillCome
  <2>4. CASE c.op = "list_chats"
    <3>1. o.key = x /\ o.time = chats'[x].newest /\ x \in Jids
      BY <1>1, <2>1, <2>4, ListingForms DEF Key, Time, lidVars, state, store
    <3>2. chats[x] \in Chats  BY <3>1 DEF LidInv, LidTypeOK
    <3>3. o.time \in Nat  BY <1>1, <3>1, <3>2, LidAssumption DEF Chats, lidVars, state, store
    <3>4. QED  BY <2>2, <2>4, <3>1, <3>3 DEF WillCome
  <2>5. QED  BY <2>3, <2>4, ReadAssumption
<1>6. QED  BY <1>2, <1>3, <1>4, <1>5 DEF ReaderInv

\* A page without an end hands over what is on it, at once or by its contexts.
LEMMA PageOwes ==
  ASSUME LidInv, ReaderInv, NEW c \in Listings, ReadPage(c)
  PROVE  ReaderInv'
<1> DEFINE found == OnPage(c, reader.page)
           shown == {Key(c, x) : x \in found}
<1>1. /\ reader.phase = "paging" /\ reader.call = {c} /\ reader.todo = <<>> /\ UNCHANGED lidVars
      /\ reader' = IF found = {} THEN Idle
                   ELSE IF c.context
                        THEN [reader EXCEPT !.page = @ + 1, !.todo = PageInOrder(c, reader.page)]
                        ELSE [reader EXCEPT !.page = @ + 1, !.owed = Without(@, shown)]
  BY DEF ReadPage
<1>2. /\ reader.page \in Nat
      /\ reader = [phase |-> reader.phase, call |-> reader.call, page |-> reader.page,
                   todo |-> reader.todo, owed |-> reader.owed]
  BY DEF ReaderInv, ReaderOK
<1>3. CASE found = {}
  <2>1. /\ reader' = [phase |-> "idle", call |-> {}, page |-> 0, todo |-> <<>>, owed |-> {}]
        /\ <<>> \in Seq(Msgs)
    BY <1>1, <1>3 DEF Idle
  <2>2. ReaderOK'  BY <2>1 DEF ReaderOK
  <2>3. TodoIsStored'  BY <2>1 DEF TodoIsStored
  <2>4. QED  BY <2>1, <2>2, <2>3 DEF ReaderInv
<1> DEFINE k == reader.page
           todo == IF c.context THEN PageInOrder(c, k) ELSE <<>>
           owed == IF c.context THEN reader.owed ELSE Without(reader.owed, shown)
<1>4. CASE found # {}
  <2>1. reader' = [phase |-> "paging", call |-> {c}, page |-> k + 1, todo |-> todo, owed |-> owed]
    <3>1. CASE c.context  BY <1>1, <1>2, <1>4, <3>1
    <3>2. CASE ~c.context  BY <1>1, <1>2, <1>4, <3>2
    <3>3. QED  BY <3>1, <3>2
  <2> HIDE DEF found, todo, owed
  <2>2. /\ reader'.phase = "paging" /\ reader'.call = {c} /\ reader'.page = k + 1
        /\ reader'.todo = todo /\ reader'.owed = owed
    BY <2>1
  <2>3. c.op = "list_messages" \/ (c.op = "list_chats" /\ ~c.context)  BY ReadAssumption
  <2>4. /\ todo \in Seq(Msgs)
        /\ \A n \in DOMAIN todo : todo[n] \in Stored /\ c.op = "list_messages"
    <3>1. CASE c.context  BY <1>2, <2>3, <3>1, PageIsListed DEF todo
    <3>2. CASE ~c.context  BY <3>2 DEF todo
    <3>3. QED  BY <3>1, <3>2
  <2>5. ReaderOK'
    <3>1. reader' = [phase |-> reader'.phase, call |-> reader'.call, page |-> reader'.page,
                     todo |-> reader'.todo, owed |-> reader'.owed]
      BY <2>1
    <3>2. QED  BY <1>2, <2>2, <2>4, <3>1 DEF ReaderOK
  <2>6. TodoIsStored'  BY <1>1, <2>2, <2>4, SameTables DEF TodoIsStored
  <2>7. ASSUME NEW x \in Matched(c), Unseen(c, x), x \notin found PROVE x \in Matched(c)' /\ Unseen(c, x)'
    <3>1. k * PageSize <= Rank(c, x)  BY <2>7 DEF Unseen
    <3>2. (k + 1) * PageSize <= Rank(c, x)  BY <1>2, <2>7, <3>1, PagePassed DEF found
    <3>3. reader'.page * PageSize <= Rank(c, x)'  BY <1>1, <2>2, <3>2, SameTables
    <3>4. QED  BY <1>1, <3>3, SameTables DEF Unseen
  <2>8. ASSUME NEW o \in owed PROVE WillCome(c, o)'
    <3>1. o \in reader.owed /\ (~c.context => o.key \notin shown)
      BY DEF owed, Without
    <3>2. WillCome(c, o)  BY <1>1, <3>1 DEF ReaderInv
    <3>3. CASE c.op = "list_messages"
      <4>1. PICK x \in Matched(c) : rows[x].id = o.key /\ Unseen(c, x)
        BY <1>1, <3>2, <3>3 DEF WillCome
      <4>2. rows'[x].id = o.key  BY <1>1, <4>1 DEF lidVars, state, store
      <4>3. CASE x \notin found  BY <2>7, <3>3, <4>1, <4>2, <4>3 DEF WillCome
      <4>4. CASE x \in found
        <5>1. Key(c, x) = o.key /\ o.key \in shown  BY <3>3, <4>1, <4>4 DEF Key
        <5>2. c.context  BY <3>1, <5>1
        <5>3. \E n \in DOMAIN todo : todo[n] = o.key
          BY <1>2, <3>3, <4>1, <4>4, <5>2, PageIsListed DEF todo, found
        <5>4. QED  BY <2>2, <3>3, <5>3 DEF WillCome
      <4>5. QED  BY <4>3, <4>4
    <3>4. CASE c.op = "list_chats" /\ ~c.context
      <4>1. /\ o.key \in Matched(c) /\ o.time \in Nat
            /\ \/ o.time < chats[o.key].newest
               \/ o.time = chats[o.key].newest /\ Unseen(c, o.key)
        BY <3>2, <3>4 DEF WillCome
      <4>2. o.key \notin found
        <5>1. o.key \notin shown  BY <3>1, <3>4
        <5>2. Key(c, o.key) = o.key  BY <3>4 DEF Key
        <5>3. QED  BY <5>1, <5>2
      <4>3. chats' = chats /\ o.key \in Matched(c)'  BY <1>1, <4>1, SameTables DEF lidVars, state, store
      <4>4. Unseen(c, o.key) => Unseen(c, o.key)'  BY <2>7, <4>1, <4>2
      <4>5. QED  BY <3>4, <4>1, <4>3, <4>4 DEF WillCome
    <3>5. QED  BY <2>3, <3>3, <3>4
  <2>9. QED  BY <2>2, <2>5, <2>6, <2>8 DEF ReaderInv
<1>5. QED  BY <1>3, <1>4

\* A message on a page is there when its context is read, and is in it.
LEMMA ContextIsFound ==
  ASSUME LidInv, NEW m \in Stored
  PROVE  get_message_context(m) # {} /\ \A shown \in get_message_context(m) : m \in shown
<1>1. PICK i \in DOMAIN rows : rows[i].id = m  BY DEF Stored
<1>2. i \in Copies(m) /\ chats[rows[i].chat].known  BY <1>1 DEF Copies, LidInv, RowsHaveChats
<1> DEFINE A == {i2 \in Copies(m) : chats[rows[i2].chat].known}
           around(i2) == Neighbours(rows[i2].chat, rows[i2].time, Context, FALSE)
                           \union Neighbours(rows[i2].chat, rows[i2].time, Context, TRUE)
           F(i2) == {m} \union {rows[k].id : k \in around(i2)}
<1>3. get_message_context(m) = {F(i2) : i2 \in A}
  BY Zenon DEF get_message_context
<1>4. A # {}  BY <1>2
<1>5. \A i2 : m \in F(i2)  OBVIOUS
<1> HIDE DEF A, F
<1>6. QED  BY <1>3, <1>4, <1>5

LEMMA ContextOwes ==
  ASSUME LidInv, ReaderInv, ReadContext
  PROVE  ReaderInv'
<1> DEFINE todo == reader.todo
           m == Head(todo)
<1>1. /\ reader.page \in Nat /\ todo \in Seq(Msgs)
      /\ reader = [phase |-> reader.phase, call |-> reader.call, page |-> reader.page,
                   todo |-> todo, owed |-> reader.owed]
      /\ reader.phase = "paging" => \E c \in Listings : reader.call = {c}
  BY DEF ReaderInv, ReaderOK
<1>2. reader.phase = "paging" /\ todo # <<>> /\ UNCHANGED lidVars
  BY DEF ReadContext
<1>3. PICK c \in Listings : reader.call = {c}  BY <1>1, <1>2
<1>4. /\ \A n \in DOMAIN todo : todo[n] \in Stored
      /\ c.op = "list_messages"
  <2>1. 1 \in DOMAIN todo  BY <1>1, <1>2
  <2>2. QED  BY <1>3, <2>1 DEF ReaderInv, TodoIsStored
<1>5. m \in Stored  BY <1>1, <1>2, <1>4
<1>6. PICK shown \in get_message_context(m) :
        reader' = [reader EXCEPT !.todo = Tail(@), !.owed = Without(@, shown)]
  <2>1. get_message_context(m) # {}  BY <1>5, ContextIsFound
  <2>2. QED  BY <2>1 DEF ReadContext
<1>7. m \in shown  BY <1>5, <1>6, ContextIsFound
<1> HIDE DEF todo
<1>8. reader' = [phase |-> "paging", call |-> {c}, page |-> reader.page,
                 todo |-> Tail(todo), owed |-> Without(reader.owed, shown)]
  BY <1>1, <1>2, <1>3, <1>6 DEF todo
<1>9. /\ reader'.phase = "paging" /\ reader'.call = {c} /\ reader'.page = reader.page
      /\ reader'.todo = Tail(todo) /\ reader'.owed = Without(reader.owed, shown)
  BY <1>8
<1>10. /\ Tail(todo) \in Seq(Msgs) /\ DOMAIN Tail(todo) = 1..(Len(todo) - 1) /\ Len(todo) \in Nat \ {0}
       /\ \A n \in 1..(Len(todo) - 1) : Tail(todo)[n] = todo[n + 1] /\ n + 1 \in DOMAIN todo
  BY <1>1, <1>2
<1>11. ReaderOK'
  <2>1. reader' = [phase |-> reader'.phase, call |-> reader'.call, page |-> reader'.page,
                   todo |-> reader'.todo, owed |-> reader'.owed]
    BY <1>8
  <2>2. QED  BY <1>1, <1>9, <1>10, <2>1 DEF ReaderOK
<1>12. TodoIsStored'
  <2>1. \A n \in DOMAIN Tail(todo) : Tail(todo)[n] \in Stored  BY <1>4, <1>10
  <2>2. QED  BY <1>2, <1>4, <1>9, <2>1, SameTables DEF TodoIsStored
<1>13. ASSUME NEW o \in Without(reader.owed, shown) PROVE WillCome(c, o)'
  <2>1. o \in reader.owed /\ o.key # m  BY <1>7 DEF Without
  <2>2. WillCome(c, o)  BY <1>3, <2>1 DEF ReaderInv
  <2>3. CASE \E n \in DOMAIN todo : todo[n] = o.key
    <3>1. PICK n \in DOMAIN todo : todo[n] = o.key  BY <2>3
    <3>2. n \in 1..Len(todo) /\ n # 1  BY <1>1, <2>1, <3>1 DEF todo
    <3>3. n - 1 \in 1..(Len(todo) - 1) /\ Tail(todo)[n - 1] = o.key
      BY <1>10, <3>1, <3>2
    <3>4. \E k \in DOMAIN Tail(todo) : Tail(todo)[k] = o.key  BY <1>10, <3>3
    <3>5. QED  BY <1>4, <1>9, <3>4 DEF WillCome
  <2>4. ASSUME NEW x \in Matched(c), rows[x].id = o.key, Unseen(c, x) PROVE WillCome(c, o)'
    <3>1. x \in Matched(c)' /\ rows'[x].id = o.key  BY <1>2, <2>4, SameTables DEF lidVars, state, store
    <3>2. reader'.page * PageSize <= Rank(c, x)'  BY <1>2, <1>9, <2>4, SameTables DEF Unseen
    <3>3. QED  BY <1>4, <3>1, <3>2 DEF WillCome, Unseen
  <2>5. QED  BY <1>4, <2>2, <2>3, <2>4 DEF WillCome, todo
<1>14. QED  BY <1>9, <1>11, <1>12, <1>13 DEF ReaderInv

LEMMA ReaderInvStep == LidInv /\ LidInv' /\ ReaderInv /\ [ReadNext]_readVars => ReaderInv'
<1> SUFFICES ASSUME LidInv, LidInv', ReaderInv, [ReadNext]_readVars PROVE ReaderInv'
  OBVIOUS
<1>1. CASE Write  BY <1>1, WriteOwes
<1>2. ASSUME NEW c \in Listings, Begin(c) PROVE ReaderInv'  BY <1>2, BeginOwes
<1>3. ASSUME NEW c \in Listings, ReadPage(c) PROVE ReaderInv'  BY <1>3, PageOwes
<1>4. CASE ReadContext  BY <1>4, ContextOwes
<1>5. CASE UNCHANGED readVars
  <2>1. reader' = reader /\ UNCHANGED lidVars  BY <1>5 DEF readVars
  <2>2. ReaderOK'  BY <2>1 DEF ReaderInv, ReaderOK
  <2>3. TodoIsStored'  BY <2>1, SameTables DEF ReaderInv, TodoIsStored
  <2>4. ASSUME NEW c \in reader.call, NEW o \in reader.owed PROVE WillCome(c, o)'
    <3>1. WillCome(c, o)  BY DEF ReaderInv
    <3>2. \A x : Unseen(c, x)' <=> Unseen(c, x)  BY <2>1, SameTables DEF Unseen
    <3>3. UNCHANGED <<rows, chats>> /\ Matched(c)' = Matched(c)  BY <2>1, SameTables DEF lidVars, state, store
    <3>4. QED  BY <2>1, <3>1, <3>2, <3>3 DEF WillCome
  <2>5. QED  BY <2>1, <2>2, <2>3, <2>4 DEF ReaderInv
<1>6. QED  BY <1>1, <1>2, <1>3, <1>4, <1>5 DEF ReadNext

LEMMA ReaderInvInit == ReadInit => ReaderInv
<1> SUFFICES ASSUME ReadInit PROVE ReaderInv
  OBVIOUS
<1>1. reader = [phase |-> "idle", call |-> {}, page |-> 0, todo |-> <<>>, owed |-> {}]
  BY DEF ReadInit, Idle
<1>2. <<>> \in Seq(Msgs)  OBVIOUS
<1>3. QED  BY <1>1, <1>2 DEF ReaderInv, ReaderOK, TodoIsStored

\* Only an empty page ends a listing, and after it there is none.
LEMMA NothingIsMissed ==
  ASSUME LidInv, LidInv', ReaderInv, ReaderInv', [ReadNext]_readVars
  PROVE  /\ reader'.phase # "failed"
         /\ \A c \in reader.call : Ends =>
              IF c.op = "list_messages" THEN reader.owed = {}
              ELSE \A o \in reader.owed : o.time < chats[o.key].newest
<1>1. reader'.phase # "failed"  BY DEF ReaderInv, ReaderOK
<1>2. ASSUME NEW c \in reader.call, Ends
      PROVE  IF c.op = "list_messages" THEN reader.owed = {}
             ELSE \A o \in reader.owed : o.time < chats[o.key].newest
  <2>1. reader.phase = "paging" /\ reader'.phase = "idle"  BY <1>2 DEF Ends, Idle
  <2>2. /\ reader = [phase |-> reader.phase, call |-> reader.call, page |-> reader.page,
                     todo |-> reader.todo, owed |-> reader.owed]
        /\ reader.page \in Nat
        /\ c \in Listings /\ reader.call = {c}
    BY <2>1 DEF ReaderInv, ReaderOK
  <2>3. PICK d \in Listings : ReadPage(d)
    <3>1. CASE Write  BY <2>1, <2>2, <3>1 DEF Write
    <3>2. ASSUME NEW d \in Listings, Begin(d) PROVE FALSE  BY <2>1, <3>2 DEF Begin, Idle
    <3>3. CASE ReadContext
      <4>1. \/ reader' = [reader EXCEPT !.phase = "failed"]
            \/ \E shown : reader' = [reader EXCEPT !.todo = Tail(@), !.owed = Without(@, shown)]
        BY <3>3 DEF ReadContext
      <4>2. QED  BY <2>1, <2>2, <4>1
    <3>4. CASE UNCHANGED readVars  BY <2>1, <3>4 DEF readVars
    <3>5. QED  BY <3>1, <3>2, <3>3, <3>4 DEF ReadNext
  <2>4. OnPage(c, reader.page) = {} /\ reader.todo = <<>>
    <3>1. d = c  BY <2>2, <2>3 DEF ReadPage
    <3>2. CASE OnPage(c, reader.page) # {}
      <4>1. reader'.phase = reader.phase  BY <2>2, <2>3, <3>1, <3>2 DEF ReadPage
      <4>2. QED  BY <2>1, <4>1
    <3>3. QED  BY <2>3, <3>1, <3>2 DEF ReadPage
  <2>5. \A x \in Matched(c) : ~Unseen(c, x)  BY <2>2, <2>4, LastPage DEF Unseen
  <2>6. \A o \in reader.owed : WillCome(c, o)  BY DEF ReaderInv
  <2>7. CASE c.op = "list_messages"
    <3>1. ASSUME NEW o \in reader.owed PROVE FALSE  BY <2>4, <2>5, <2>6, <2>7 DEF WillCome
    <3>2. QED  BY <2>7, <3>1
  <2>8. CASE c.op # "list_messages"  BY <2>5, <2>6, <2>8 DEF WillCome
  <2>9. QED  BY <2>7, <2>8
<1>3. QED  BY <1>1, <1>2

\* Whoever pages to the end has been shown every message that matched when they
\* began, whatever arrives meanwhile; a chat they miss became active while they
\* paged; and no context fails (list_messages, list_chats and
\* get_message_context, whatsapp.py 412-545, 654-738 and 550-651).
THEOREM PagingIsComplete == ReadSpec => PagingMissesNothing
<1> DEFINE A == /\ reader'.phase # "failed"
                /\ \A c \in reader.call : Ends =>
                     IF c.op = "list_messages" THEN reader.owed = {}
                     ELSE \A o \in reader.owed : o.time < chats[o.key].newest
<1>1. LidInv /\ LidInv' /\ ReaderInv /\ ReaderInv' /\ [ReadNext]_readVars => A
  BY NothingIsMissed
<1> HIDE DEF A
<1>2. ReadSpec => []ReaderInv
  BY LidInvariance, ReaderInvInit, ReaderInvStep, PTL DEF ReadSpec
<1>3. ReadSpec => [][A]_readVars
  BY <1>1, <1>2, LidInvariance, PTL DEF ReadSpec
<1>4. QED  BY <1>3 DEF PagingMissesNothing, A

\* The types of the archive and its reader (ArchiveReads).
THEOREM ReaderTypes == ReadSpec => []ReadTypeOK
<1>1. LidInv /\ ReaderInv => ReadTypeOK
  <2> SUFFICES ASSUME LidInv, ReaderInv PROVE ReadTypeOK
    OBVIOUS
  <2>1. reader.call \subseteq Listings  BY DEF ReaderInv, ReaderOK
  <2>2. \A n \in DOMAIN reader.todo : reader.todo[n] \in Msgs  BY DEF ReaderInv, ReaderOK
  <2>3. QED  BY <2>1, <2>2 DEF LidInv, ReaderInv, ReaderOK, ReadTypeOK
<1>2. QED
  BY <1>1, LidInvariance, ReaderInvInit, ReaderInvStep, PTL DEF ReadSpec

-----------------------------------------------------------------------------
(* The bridge's connection.  The statement is inductive together with the   *)
(* types: each action that clears one of its alternatives establishes       *)
(* another.                                                                 *)

ConnectionInv == TypeOK /\ LossIsNoticed

\* The two halves of TypeOK, for provers that are good at one of them each.
FlagsOK ==
  reconnectChan \in BOOLEAN /\ exitChan \in BOOLEAN /\ paired \in BOOLEAN /\ net \in BOOLEAN

DataOK ==
  /\ script \in {"running", "sleeping", "stopped"}
  /\ main \in {"connect", "scan", "wait", "pause", "settle", "serve", "exited"}
  /\ attempt \in 1..MaxRetries
  /\ rec \in {"off", "select", "sleep", "connect", "gone"}
  /\ backoff \in 0..MaxBackoff
  /\ timers \in Nat
  /\ reports \subseteq Reports
  /\ socket \in {"open", "closed", "refused"}
  /\ mishaps \in 0..MaxMishaps

LEMMA TypeParts == TypeOK <=> FlagsOK /\ DataOK
BY Zenon DEF TypeOK, FlagsOK, DataOK

LEMMA FlagsStep == FlagsOK /\ [Next]_vars => FlagsOK'
<1> SUFFICES ASSUME FlagsOK, [Next]_vars PROVE FlagsOK'
  OBVIOUS
<1> USE Zenon
    DEF FlagsOK, process, world, Exit, ProcessEnds, AttemptFails, Mishap
<1>1. CASE Main
  <2>1. CASE FirstConnect  BY <2>1 DEF FirstConnect
  <2>2. CASE ScanSucceeds  BY <2>2 DEF ScanSucceeds
  <2>3. CASE ScanEnds  BY <2>3 DEF ScanEnds
  <2>4. CASE ContextDone  BY <2>4 DEF ContextDone
  <2>5. CASE Retry  BY <2>5 DEF Retry
  <2>6. CASE Settle  BY <2>6 DEF Settle
  <2>7. QED  BY <1>1, <2>1, <2>2, <2>3, <2>4, <2>5, <2>6 DEF Main
<1>2. CASE MainExits  BY <1>2 DEF MainExits
<1>3. CASE RecWakes  BY <1>3 DEF RecWakes
<1>4. CASE RecChecks  BY <1>4 DEF RecChecks
<1>5. CASE RecConnects  BY <1>5 DEF RecConnects
<1>6. CASE RecExits  BY <1>6 DEF RecExits
<1>7. CASE TimerFires  BY <1>7 DEF TimerFires
<1>8. ASSUME NEW e \in Reports, Handle(e) PROVE FlagsOK'
  BY <1>8 DEF Handle
<1>9. ASSUME NEW e \in Reports, Lose(e) PROVE FlagsOK'
  BY <1>9 DEF Lose
<1>10. CASE Pair  BY <1>10 DEF Pair
<1>11. CASE AutoReconnect  BY <1>11 DEF AutoReconnect
<1>12. CASE Outage \/ Recovery  BY <1>12 DEF Outage, Recovery
<1>13. CASE Signal  BY <1>13 DEF Signal
<1>14. CASE Die  BY <1>14 DEF Die
<1>15. CASE Restart  BY <1>15 DEF Restart
<1>16. CASE UNCHANGED vars  BY <1>16 DEF vars
<1>17. QED
  BY <1>1, <1>2, <1>3, <1>4, <1>5, <1>6, <1>7, <1>8, <1>9, <1>10, <1>11, <1>12,
     <1>13, <1>14, <1>15, <1>16 DEF Next, Reconnector, Handler

LEMMA DataStep == DataOK /\ [Next]_vars => DataOK'
<1> SUFFICES ASSUME DataOK, [Next]_vars PROVE DataOK'
  OBVIOUS
<1> USE ConnectionAssumption
    DEF DataOK, process, world, Exit, ProcessEnds, AttemptFails, Mishap, Reports, Signalled
<1>a. ASSUME NEW left \in {"open", "closed", "refused"}, AttemptFails(left) PROVE DataOK'
  <2>1. CASE attempt = MaxRetries /\ Exit  BY <2>1
  <2>2. CASE attempt < MaxRetries /\ attempt' = attempt + 1 /\ main' = "pause"
               /\ socket' = left /\ UNCHANGED <<rec, backoff, timers, reports, script, mishaps>>
    BY <1>a, <2>2
  <2>3. QED  BY <1>a, <2>1, <2>2, Zenon
<1>1. CASE Main
  <2>1. CASE FirstConnect
    <3>1. CASE ~ConnectWorks /\ AttemptFails(socket)  BY <3>1, <1>a
    <3>2. CASE ConnectWorks  BY <2>1, <3>2 DEF FirstConnect
    <3>3. QED  BY <2>1, <3>1, <3>2, Zenon DEF FirstConnect
  <2>2. CASE ScanSucceeds  BY <2>2 DEF ScanSucceeds
  <2>3. CASE ScanEnds  BY <2>3 DEF ScanEnds
  <2>4. CASE ContextDone  BY <2>4, <1>a DEF ContextDone
  <2>5. CASE Retry  BY <2>5 DEF Retry
  <2>6. CASE Settle
    <3>1. CASE socket = "open"  BY <2>6, <3>1 DEF Settle
    <3>2. CASE Exit  BY <3>2
    <3>3. QED  BY <2>6, <3>1, <3>2, Zenon DEF Settle
  <2>7. QED  BY <1>1, <2>1, <2>2, <2>3, <2>4, <2>5, <2>6 DEF Main
<1>2. CASE MainExits  BY <1>2 DEF MainExits
<1>3. CASE RecWakes  BY <1>3 DEF RecWakes
<1>4. CASE RecChecks  BY <1>4 DEF RecChecks
<1>5. CASE RecConnects  BY <1>5 DEF RecConnects
<1>6. CASE RecExits  BY <1>6 DEF RecExits
<1>7. CASE TimerFires  BY <1>7 DEF TimerFires
<1>8. ASSUME NEW e \in Reports, Handle(e) PROVE DataOK'
  BY <1>8 DEF Handle
<1>9. ASSUME NEW e \in Reports, Lose(e) PROVE DataOK'
  BY <1>9 DEF Lose
<1>10. CASE Pair  BY <1>10 DEF Pair
<1>11. CASE AutoReconnect  BY <1>11 DEF AutoReconnect
<1>12. CASE Outage \/ Recovery
  <2>1. CASE Outage  BY <2>1 DEF Outage
  <2>2. CASE Recovery  BY <2>2 DEF Recovery
  <2>3. QED  BY <1>12, <2>1, <2>2
<1>13. CASE Signal
  <2>1. CASE main = "serve"
    <3>1. Mishap /\ UNCHANGED <<main, attempt, rec, backoff, reconnectChan, timers, reports, socket, paired, script>>
      BY <1>13, <2>1, Zenon DEF Signal
    <3>2. QED  BY <3>1
  <2>2. CASE ProcessEnds("stopped")  BY <1>13, <2>2 DEF Signal
  <2>3. QED  BY <1>13, <2>1, <2>2, Zenon DEF Signal
<1>14. CASE Die  BY <1>14 DEF Die
<1>15. CASE Restart  BY <1>15 DEF Restart
<1>16. CASE UNCHANGED vars  BY <1>16 DEF vars
<1>17. QED
  BY <1>1, <1>2, <1>3, <1>4, <1>5, <1>6, <1>7, <1>8, <1>9, <1>10, <1>11, <1>12,
     <1>13, <1>14, <1>15, <1>16 DEF Next, Reconnector, Handler

\* A bridge that has not served yet has nothing to notice.
LEMMA ConnectionInvInit == Init => ConnectionInv
<1> SUFFICES ASSUME Init PROVE ConnectionInv
  OBVIOUS
<1>1. TypeOK
  <2>1. FlagsOK
    BY Zenon DEF Init, FlagsOK
  <2>2. DataOK
    BY ConnectionAssumption DEF Init, DataOK
  <2>3. QED
    BY <2>1, <2>2, TypeParts
<1>2. LossIsNoticed
  BY DEF Init, LossIsNoticed, Serving
<1>3. QED
  BY <1>1, <1>2 DEF ConnectionInv

\* The cases in which the bridge is serving afterwards: a loss puts its report
\* into reports, a report becomes a signal or a timer, a timer a signal, a
\* signal wakes the goroutine, which connects or signals again.
LEMMA NoticedStep == ConnectionInv /\ [Next]_vars => LossIsNoticed'
<1> SUFFICES ASSUME TypeOK, LossIsNoticed, [Next]_vars PROVE LossIsNoticed'
  BY DEF ConnectionInv
<1> USE DEF TypeOK, LossIsNoticed, Serving, process, world
<1>1. CASE Main
  <2> USE DEF Exit, ProcessEnds, AttemptFails
  <2>1. CASE FirstConnect  BY <2>1 DEF FirstConnect
  <2>2. CASE ScanSucceeds  BY <2>2 DEF ScanSucceeds
  <2>3. CASE ScanEnds  BY <2>3 DEF ScanEnds
  <2>4. CASE ContextDone  BY <2>4 DEF ContextDone
  <2>5. CASE Retry  BY <2>5 DEF Retry
  <2>6. CASE Settle  BY <2>6 DEF Settle
  <2>7. QED  BY <1>1, <2>1, <2>2, <2>3, <2>4, <2>5, <2>6 DEF Main
<1>2. CASE MainExits \/ Die  BY <1>2 DEF MainExits, Die, Exit, ProcessEnds
<1>3. CASE RecWakes  BY <1>3 DEF RecWakes
<1>4. CASE RecChecks  BY <1>4 DEF RecChecks
<1>5. CASE RecConnects  BY <1>5 DEF RecConnects
<1>6. CASE RecExits  BY <1>6 DEF RecExits
<1>7. CASE TimerFires  BY <1>7 DEF TimerFires
<1>8. ASSUME NEW e \in Reports, Handle(e) PROVE LossIsNoticed'
  <2>1. CASE e \in Signalled
    BY <1>8, <2>1 DEF Handle
  <2>2. CASE e = "StreamReplaced"
    BY <1>8, <2>2 DEF Handle, Signalled
  <2>3. CASE e \in {"LoggedOut", "ClientOutdated"}
    BY <1>8, <2>3 DEF Handle, Signalled
  <2>4. QED
    BY <2>1, <2>2, <2>3 DEF Reports
<1>9. ASSUME NEW e \in Reports, Lose(e) PROVE LossIsNoticed'
  BY <1>9 DEF Lose, Reports, Signalled
<1>10. CASE Pair  BY <1>10 DEF Pair
<1>11. CASE AutoReconnect  BY <1>11 DEF AutoReconnect
<1>12. CASE Outage \/ Recovery  BY <1>12 DEF Outage, Recovery
<1>13. CASE Signal
  <2>1. CASE main = "serve"
    <3>1. Mishap /\ UNCHANGED <<main, attempt, rec, backoff, reconnectChan, timers, reports, socket, paired, script>>
      BY <1>13, <2>1, Zenon DEF Signal
    <3>2. QED  BY <3>1
  <2>2. CASE ProcessEnds("stopped")  BY <2>2 DEF ProcessEnds
  <2>3. QED  BY <1>13, <2>1, <2>2, Zenon DEF Signal
<1>14. CASE Restart  BY <1>14 DEF Restart
<1>15. CASE UNCHANGED vars  BY <1>15 DEF vars
<1>16. QED
  BY <1>1, <1>2, <1>3, <1>4, <1>5, <1>6, <1>7, <1>8, <1>9, <1>10, <1>11, <1>12,
     <1>13, <1>14, <1>15 DEF Next, Reconnector, Handler

\* The types hold, and no reconnection is lost between the event handler, the
\* timers and the goroutine (main.go 3050-3095 and 3220-3261), but for a client
\* that WhatsApp turned away, which the code leaves without one.
THEOREM NoLossIsForgotten == Spec => [](TypeOK /\ LossIsNoticed)
<1>1. Init => ConnectionInv
  BY ConnectionInvInit
<1>2. ConnectionInv /\ [Next]_vars => ConnectionInv'
  <2> SUFFICES ASSUME ConnectionInv, [Next]_vars PROVE ConnectionInv'
    OBVIOUS
  <2>1. FlagsOK' /\ DataOK'
    BY TypeParts, FlagsStep, DataStep DEF ConnectionInv
  <2>2. TypeOK'
    BY <2>1, Zenon DEF TypeOK, FlagsOK, DataOK
  <2>3. QED
    BY <2>2, NoticedStep DEF ConnectionInv
<1>3. QED
  BY <1>1, <1>2, PTL DEF Spec, ConnectionInv
=============================================================================
