--------------------------- MODULE MCConversation ---------------------------
(* Three payloads and up to three more to recover, of two devices with two    *)
(* threads each; at most one key of a hash chain may be skipped.            *)
EXTENDS Conversation
=============================================================================
