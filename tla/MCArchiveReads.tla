--------------------------- MODULE MCArchiveReads ---------------------------
EXTENDS ArchiveReads

CONSTANTS alice, group

Message(in, from, time) == [in |-> in, from |-> from, time |-> time]
MCTraffics ==
  {<<Message(alice, Me, 2), Message(alice, alice, 2)>>,
   <<Message(group, alice, 1), Message(alice, alice, 2)>>}

\* alice in the group and on her own, asked for by her LID.
All == [sender |-> {}, chat |-> {}, after |-> 0, before |-> MaxTime + 1, query |-> FALSE]
MCListings ==
  {[op |-> "list_messages", sort |-> "newest", context |-> TRUE,
    filter |-> [All EXCEPT !.sender = {Form(Lid(alice), "bare")}]],
   [op |-> "list_chats", sort |-> "last_active", context |-> FALSE, filter |-> All]}
=============================================================================
