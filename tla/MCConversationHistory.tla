----------------------- MODULE MCConversationHistory -----------------------
(* ConversationHistory on a small instance.  Requests, users and turn ids   *)
(* are interchangeable, and no property names one.                          *)
EXTENDS ConversationHistory, TLC

Symmetry == Permutations(Requests) \cup Permutations(Users) \cup Permutations(TurnIds)
=============================================================================
