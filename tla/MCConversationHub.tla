-------------------------- MODULE MCConversationHub -------------------------
(* Small instances of ConversationHub for TLC. *)
EXTENDS ConversationHub, TLC

CONSTANTS a, b, e1

\* The subscribers are at a. One event is published at b, the others at a.
AllAtA == [s \in Sub |-> a]
OneFromB == [e \in Event |-> IF e = e1 THEN b ELSE a]
=============================================================================
