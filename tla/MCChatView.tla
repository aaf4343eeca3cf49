----------------------------- MODULE MCChatView -----------------------------
EXTENDS ChatView
=============================================================================
