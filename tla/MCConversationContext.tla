----------------------- MODULE MCConversationContext -----------------------
(* ConversationContext on small instances: two articles and a document. *)
EXTENDS ConversationContext

TwoArticlesOneDocument == [n \in Node |-> IF n = 1 THEN "Document" ELSE "Article"]
=============================================================================
