---------------------------- MODULE ArchiveReads ----------------------------
(***************************************************************************)
(* The MCP server's reads of the archive (whatsapp-mcp-server/whatsapp.py) *)
(* beside the bridge that writes it.  A query is one SELECT on one state   *)
(* of the tables; a caller who pages, or asks for context, makes several,  *)
(* and the bridge, another process, stores, learns, stops and migrates     *)
(* between them.                                                           *)
(*                                                                         *)
(* Rows of equal time come in the order of their rowid, as SQLite sorts    *)
(* them, chats of equal time in some fixed order; a lookup that names no   *)
(* order may return any of its rows.  Left out: contents, dates as text,   *)
(* what a query string matches, chats sorted by name, errors of SQLite.    *)
(***************************************************************************)
EXTENDS LidChats, Sequences, FiniteSets

CONSTANTS
  Hits,         \* messages whose text contains the query
  Within,       \* pairs <<a, j>>: the digits of address a occur in those of chat j
  Listings,     \* the listings a caller pages through
  PageSize,     \* the limit of a page
  Context       \* context_before and context_after

ASSUME ReadAssumption ==
  /\ PageSize \in Nat \ {0} /\ Context \in Nat
  /\ IsFiniteSet(People) /\ IsFiniteSet(Groups) /\ IsFiniteSet(Msgs)
  /\ \A c \in Listings :
       \/ c.op = "list_messages" /\ c.sort \in {"newest", "oldest"}
       \/ c.op = "list_chats" /\ c.sort = "last_active" /\ ~c.context

VARIABLE
  reader        \* the caller: phase (idle, paging, failed), the call and its next
                \* page, todo (matches whose context is still to be read) and, as
                \* history, owed: what matched when it began and is not shown yet
readVars == <<lidVars, reader>>

-----------------------------------------------------------------------------
(* Who is asked for *)

\* What follows the @ is the suffix; a bare form has none.
Form(a, suffix) == [user |-> a, suffix |-> suffix]
FormsOf(p) == {Form(Phone(p), "bare"), Form(Phone(p), "pn"), Form(Lid(p), "bare"), Form(Lid(p), "lid")}
JidForm(j) == Form(j, j[2])

\* Mutant: the map is asked in one direction only.
AliasesOfPhones(v) ==
  IF v.user[1] \in lids /\ v.user[2] = "pn" THEN FormsOf(v.user[1])
  ELSE {Form(v.user, "bare"), Form(v.user, "pn"), Form(v.user, "lid")}

sender_aliases(v) ==
  IF v.user[1] \in lids THEN FormsOf(v.user[1])
  ELSE {Form(v.user, "bare"), Form(v.user, "pn"), Form(v.user, "lid")}

WrittenBy(v) == {i \in DOMAIN rows : Form(rows[i].sender, "bare") \in sender_aliases(v)}

\* LIKE '%digits%' on the addresses of chats.
Like(a) == {j \in Jids : chats[j].known /\ (j = a \/ <<a, j>> \in Within)}

-----------------------------------------------------------------------------
(* The name that is shown; the bare address if none *)

resolve_lid_to_phone(a) == IF a[2] = "lid" /\ a[1] \in lids THEN {Phone(a[1])} ELSE {}

\* whatsmeow_contacts knows people by the JID of their phone.
resolve_name_from_whatsmeow(v) ==
  LET phone == IF v.suffix \in {"lid", "bare"} THEN resolve_lid_to_phone(v.user) ELSE {}
      lookup == IF phone # {} THEN {Form(a, "pn") : a \in phone}
                ELSE IF v.suffix = "lid" THEN {} ELSE {v}
  IN {Named(p) : p \in {q \in Known : Form(Phone(q), "pn") \in lookup}}

\* Mutant: a bare number is looked up as it is.
NameOfBare(v) == resolve_name_from_whatsmeow(v)

ContactName(v) ==
  IF resolve_name_from_whatsmeow(v) # {} \/ v.suffix # "bare" THEN resolve_name_from_whatsmeow(v)
  ELSE resolve_name_from_whatsmeow(Form(v.user, "pn"))

get_chat(v) == {j \in Jids : chats[j].known /\ JidForm(j) = v}

\* The name of the chat with that JID; without one, of any whose JID contains
\* the digits.  A name that is all digits counts as none, and the contacts come
\* only after the chats.
get_sender_name(v) ==
  LET found == IF get_chat(v) # {} THEN get_chat(v) ELSE Like(v.user)
      fallback == IF ContactName(v) = {} THEN {v.user} ELSE ContactName(v)
      answer(j) == IF chats[j].name = NoName \/ IsDigits(chats[j].name) THEN fallback ELSE {chats[j].name}
  IN IF found = {} THEN fallback ELSE UNION {answer(j) : j \in found}

\* The name a message is shown with.
msg_to_dict(i) == IF rows[i].mine THEN {Named(Me)} ELSE get_sender_name(Form(rows[i].sender, "bare"))

\* main.py: digits alone are tried as a phone number, then as a LID.  Here the
\* digits of somebody else's number count as a name.
get_contact(v) ==
  LET candidates == IF v.suffix = "bare" THEN <<Form(v.user, "pn"), Form(v.user, "lid")>> ELSE <<v>>
      hits == {n \in DOMAIN candidates : get_chat(candidates[n]) # {}}
      used == candidates[IF hits = {} \/ 1 \in hits THEN 1 ELSE 2]
      named == {j \in get_chat(used) : chats[j].name # NoName}
  IN {[is_lid |-> used.suffix = "lid", name |-> n] :
        n \in IF named = {} THEN get_sender_name(used) ELSE {chats[j].name : j \in named}}

\* Chats, then contacts, of those whose name matches: the JIDs listed.
search_contacts(name) ==
  {j \in Jids : chats[j].known /\ ~IsGroup(j) /\ chats[j].name = name}
    \union {Phone(q) : q \in {k \in Known : Named(k) = name}}

get_direct_chat_by_contact(a) == {j \in Like(a) : ~IsGroup(j)}

-----------------------------------------------------------------------------
(* Chats and messages *)

\* The one message a chat is shown with: the largest id of those with its newest
\* time, none if something without a row moved that time.
IdOrder == CHOOSE f \in [Msgs -> 1..Cardinality(Msgs)] : \A m, n \in Msgs : m # n => f[m] # f[n]
last_message_join(j) ==
  LET latest == {i \in DOMAIN rows : rows[i].chat = j /\ rows[i].time = chats[j].newest}
  IN {i \in latest : \A k \in latest : IdOrder[rows[k].id] <= IdOrder[rows[i].id]}

unread(j) ==
  /\ chats[j].newest # 0
  /\ \E i \in last_message_join(j) : ~rows[i].mine
  /\ chats[j].read = 0 \/ chats[j].newest > chats[j].read

\* A row whose chat is missing is not listed (JOIN chats).
list_messages(f) ==
  {i \in DOMAIN rows :
     /\ chats[rows[i].chat].known
     /\ f.after < rows[i].time /\ rows[i].time < f.before
     /\ \A v \in f.sender : i \in WrittenBy(v)
     /\ \A j \in f.chat : rows[i].chat = j
     /\ f.query => rows[i].id \in Hits}

\* Chats a contact takes part in: a row of theirs, or the very JID asked for.
get_contact_chats(v) ==
  {j \in Jids : chats[j].known /\ (JidForm(j) = v \/ \E i \in WrittenBy(v) : rows[i].chat = j)}

get_last_interaction(v) ==
  LET theirs == {i \in DOMAIN rows : i \in WrittenBy(v) \/ JidForm(rows[i].chat) = v}
  IN {i \in theirs : \A k \in theirs : rows[k].time <= rows[i].time}

list_chats == {j \in Jids : chats[j].known}

Matched(c) ==
  CASE c.op = "list_messages" -> list_messages(c.filter)
    [] c.op = "list_chats" -> list_chats

JidOrder == CHOOSE f \in [Jids -> 1..Cardinality(Jids)] : \A j, k \in Jids : j # k => f[j] # f[k]

\* The position a listing is sorted on, and the one that breaks its ties.
SortKey(c, x) ==
  CASE c.sort = "newest" -> <<MaxTime - rows[x].time, x>>
    [] c.sort = "oldest" -> <<rows[x].time, x>>
    [] c.sort = "last_active" -> <<MaxTime - chats[x].newest, JidOrder[x]>>

Precedes(c, y, x) ==
  LET k == SortKey(c, x)
      l == SortKey(c, y)
  IN l[1] < k[1] \/ (l[1] = k[1] /\ l[2] < k[2])

\* How many come before x: its place in the listing, counted from 0.
Rank(c, x) == Cardinality({y \in Matched(c) : Precedes(c, y, x)})

\* Mutant: the next page starts one row late.
OnPageShifted(c, k) ==
  LET offset == k * PageSize + (IF k = 0 THEN 0 ELSE 1)
  IN {x \in Matched(c) : offset <= Rank(c, x) /\ Rank(c, x) < offset + PageSize}

\* LIMIT and OFFSET.
OnPage(c, k) ==
  LET offset == k * PageSize
  IN {x \in Matched(c) : offset <= Rank(c, x) /\ Rank(c, x) < offset + PageSize}

\* What a caller knows a listed thing by.
Key(c, x) == IF c.op = "list_messages" THEN rows[x].id ELSE x
Time(c, x) == IF c.op = "list_messages" THEN rows[x].time ELSE chats[x].newest

\* The matches of page k in the order of the listing.
PageInOrder(c, k) ==
  [n \in 1..Cardinality(OnPage(c, k)) |->
    rows[CHOOSE x \in OnPage(c, k) : Rank(c, x) = k * PageSize + (n - 1)].id]

\* The n rows of chat j next to time t on one side of it.
Neighbours(j, t, n, later) ==
  LET beyond(s, u) == IF later THEN s > u ELSE s < u
      side == {i \in DOMAIN rows : rows[i].chat = j /\ beyond(rows[i].time, t)}
  IN {i \in side : Cardinality({k \in side : \/ beyond(rows[i].time, rows[k].time)
                                             \/ rows[k].time = rows[i].time /\ k < i}) < n}

\* A message is asked for by its id alone; its three SELECTs are one step here.
get_message_context(m) ==
  LET around(i) == Neighbours(rows[i].chat, rows[i].time, Context, FALSE)
                     \union Neighbours(rows[i].chat, rows[i].time, Context, TRUE)
  IN {{m} \union {rows[k].id : k \in around(i)} : i \in {c \in Copies(m) : chats[rows[c].chat].known}}

-----------------------------------------------------------------------------
(* A caller who pages *)

Idle == [phase |-> "idle", call |-> {}, page |-> 0, todo |-> <<>>, owed |-> {}]
Without(owed, shown) == {o \in owed : o.key \notin shown}

ReadInit == LidInit /\ reader = Idle

Begin(c) ==
  /\ reader = Idle
  /\ reader' = [Idle EXCEPT !.phase = "paging", !.call = {c},
                            !.owed = {[key |-> Key(c, x), time |-> Time(c, x)] : x \in Matched(c)}]
  /\ UNCHANGED lidVars

\* The pages end with an empty one.
ReadPage(c) ==
  /\ reader.phase = "paging" /\ reader.call = {c} /\ reader.todo = <<>>
  /\ LET found == OnPage(c, reader.page)
     IN reader' = IF found = {} THEN Idle
                  ELSE IF c.context
                       THEN [reader EXCEPT !.page = @ + 1, !.todo = PageInOrder(c, reader.page)]
                       ELSE [reader EXCEPT !.page = @ + 1, !.owed = Without(@, {Key(c, x) : x \in found})]
  /\ UNCHANGED lidVars

\* What is not found raises a ValueError that list_messages does not catch.
ReadContext ==
  /\ reader.phase = "paging" /\ reader.todo # <<>>
  /\ LET answers == get_message_context(Head(reader.todo))
     IN IF answers = {} THEN reader' = [reader EXCEPT !.phase = "failed"]
        ELSE \E shown \in answers :
               reader' = [reader EXCEPT !.todo = Tail(@), !.owed = Without(@, shown)]
  /\ UNCHANGED lidVars

\* A stored row, or a chat, is elsewhere after the step, or a row has another
\* sender or time.
Rewritten ==
  \/ \E i \in DOMAIN rows : i \notin DOMAIN rows'
        \/ rows'[i] # [rows[i] EXCEPT !.deleted = rows'[i].deleted]
  \/ \E j \in Jids : chats[j].known /\ ~chats'[j].known

\* The caller of a listing whose rows are moved under it is owed nothing.
Write ==
  /\ Bridge
  /\ reader' = [reader EXCEPT !.owed = IF Rewritten THEN {} ELSE @]

ReadNext ==
  \/ Write
  \/ \E c \in Listings : Begin(c) \/ ReadPage(c)
  \/ ReadContext

ReadSpec == ReadInit /\ [][ReadNext]_readVars

-----------------------------------------------------------------------------
(* Properties *)

Ends == reader.phase = "paging" /\ reader' = Idle

ReadTypeOK ==
  /\ LidTypeOK
  /\ reader.phase \in {"idle", "paging", "failed"} /\ reader.call \subseteq Listings
  /\ reader.page \in Nat /\ \A n \in DOMAIN reader.todo : reader.todo[n] \in Msgs

\* Whoever pages to the end has been shown every message that matched when they
\* began, in either order, whatever arrives or is synchronised meanwhile at any
\* place of the listing, unless stored rows are moved or rewritten below them.
\* Of chats they may miss one, but only one that became active while they paged
\* and so went to a page they had seen.  And no listing with context fails because
\* a match is gone when its context is read, be it by a migration in between.
PagingMissesNothing ==
  [][/\ reader'.phase # "failed"
     /\ \A c \in reader.call : Ends =>
          IF c.op = "list_messages" THEN reader.owed = {}
          ELSE \A o \in reader.owed : o.time < chats[o.key].newest]_readVars

\* Part of the next: asked for a person in any form, the filter finds every row
\* they wrote, under whichever address it was filed, and nobody else's.
AliasesCatchAll ==
  \A p \in lids : \A v \in FormsOf(p) : WrittenBy(v) = {i \in DOMAIN rows : rows[i].sender[1] = p}

\* After a start that knew the LID of a person, what the tools say of them by
\* phone is whole: their last message and all their chats, and one entry for
\* the direct chat, whatever was filed under the LID before; and the filter on
\* senders catches all their rows at any time.
Involves(i, p) == rows[i].chat[1] = p \/ rows[i].sender[1] = p
ContactIsWhole ==
  /\ AliasesCatchAll
  /\ stage = "up" => \A p \in settled :
      LET v == Form(Phone(p), "pn")
          theirs == {i \in DOMAIN rows : Involves(i, p)}
      IN /\ \A i \in get_last_interaction(v) : \A k \in theirs : rows[k].time <= rows[i].time
         /\ theirs # {} => get_last_interaction(v) # {}
         /\ {rows[i].chat : i \in theirs} \subseteq get_contact_chats(v)
         /\ search_contacts(Named(p)) \union search_contacts(Push(p)) \subseteq {Phone(p)}
         /\ Within = {} => get_direct_chat_by_contact(Phone(p)) \subseteq {Phone(p)}

\* Somebody the owner has a name for is shown by it beside each of their
\* messages, filed by phone or under a LID the map knows, and when asked for by
\* phone.  The exception is the code's: whoever had a chat before the map knew
\* them keeps the name it got then, their push name or digits, and a push name
\* goes before the owner's own.  But nobody is shown as somebody else, and no
\* name of theirs is passed over for the bare address.
KnownAreNamed ==
  Within = {} =>
    /\ \A i \in DOMAIN rows :
         LET p == rows[i].sender[1]
         IN p \in Known /\ (rows[i].sender = Phone(p) \/ p \in lids) =>
              msg_to_dict(i) \subseteq {Named(p)} \union (IF p \in strangers THEN {Push(p)} ELSE {})
    /\ \A p \in Known \ strangers :
         get_contact(Form(Phone(p), "bare")) \subseteq {[is_lid |-> FALSE, name |-> Named(p)]}

\* A stored row of chat j is stored again with a time that can show somebody
\* else's message as the newest: theirs with a later one, or the owner's own with
\* an earlier one.
Restamped(j) ==
  \E i \in DOMAIN rows \intersect DOMAIN rows' :
    /\ rows[i].chat = j
    /\ IF rows[i].mine THEN rows'[i].time < rows[i].time ELSE rows'[i].time > rows[i].time

\* A chat that was not shown as unread is so only after a message of somebody
\* else's was stored in it, or moved to it: no redelivery, receipt, revoke or
\* merge of two chats makes read messages unread again.  The exception is the
\* code's: a resend whose original time was forgotten restamps the row it was
\* synced to (main.go 838, 1856-1861).
TurnsUnread ==
  [][\A j \in Jids : ~unread(j) /\ unread(j)' =>
       \/ Restamped(j)
       \/ \E i \in DOMAIN rows' : rows'[i].chat = j /\ ~rows'[i].mine /\ RowAt(rows'[i].id, j) = {}]_readVars
=============================================================================
