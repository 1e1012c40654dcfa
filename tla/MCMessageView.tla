--------------------------- MODULE MCMessageView ---------------------------
(* Two conversations: in one the other user writes a message, and edits    *)
(* and deletes it; in the other both users write one, and this user edits  *)
(* and deletes the own.                                                    *)
EXTENDS MessageView, TLC

CONSTANTS a, b, m1, m2, o1

MCConversationOf == (m1 :> a) @@ (o1 :> b) @@ (m2 :> b)
MCHistory == <<m1, m2, o1>>
=============================================================================
