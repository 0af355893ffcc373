-------------------------- MODULE MCChatDiscovery --------------------------
(* A small instance of ChatDiscovery: two processes, one with an AI provider, one topic and *)
(* one chat, public or private.                                                             *)
EXTENDS ChatDiscovery
CONSTANTS w1, w2, topic1, chat
=============================================================================
