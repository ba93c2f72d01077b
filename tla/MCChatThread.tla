----------------------------- MODULE MCChatThread -----------------------------
(* The runs of ChatThread use its constants as they are. *)
EXTENDS ChatThread
=============================================================================
