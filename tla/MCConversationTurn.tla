------------------------ MODULE MCConversationTurn ------------------------
(* ConversationTurn on a small instance. *)
EXTENDS ConversationTurn

ASSUME InstanceAssumption == Req \cup Turn \cup Owner \subseteq Nat

\* Requests, turn ids and principals are each interchangeable, so one of the
\* initial states that differ by renaming is enough: the first request is the
\* first owner's first turn, and the bodies are in order.
Body(r) == Cardinality(Owner) * cid[r] + owner[r]
Representative ==
    \A r, s \in Req : r <= s =>
        /\ Body(r) <= Body(s)
        /\ (\A q \in Req : r <= q) => cid[r] = 1 /\ owner[r] = 1

MCInit == Init /\ Representative
MCSpec == MCInit /\ [][Next]_vars /\ \A r \in Req : WF_vars(Step(r))
=============================================================================
