---------------------- MODULE ConversationHistoryProofs ----------------------
(* Theorems about ConversationHistory, for any requests, browsers, users and *)
(* number of turns.                                                          *)
EXTENDS ConversationHistory, SequenceTheorems, TLAPS

(***************************************************************************)
(* The inductive invariant.  What a request was answered rests on what the  *)
(* database said at an earlier statement of it, so the invariant says, for  *)
(* every position of a handler, what is still true of what it has read.     *)
(***************************************************************************)

Kinds == {"none", "list", "detail", "rename", "title", "delete", "chat", "claim_guest",
          "register", "login"}
Labels == {"idle", "first", "messages", "snapshots", "citations", "message", "update",
           "lock", "begin", "insert", "answer", "claim", "respond", "done"}
HandlerState == [kind : Kinds, at : Labels,
                 reply : {"none", "ok", "replayed", "not_found", "error"},
                 user : Users \cup {Nobody}, browser : Browsers \cup {Nobody},
                 turnId : TurnIds \cup {Nobody}, absent : BOOLEAN,
                 title : Titles, msgs : Seq(Message), snaps : SUBSET Nat, cites : SUBSET Nat]

TypeOK ==
    /\ accounts \subseteq Users
    /\ cookie \in [Browsers -> Users \cup {Nobody}]
    /\ row \in [owner : Users \cup {Guest, Nobody}, title : Titles, deleted : BOOLEAN]
    /\ rowLock \in Requests \cup {Nobody}
    /\ turns \in Seq(BOOLEAN)
    /\ turnIds \in Seq(TurnIds)
    /\ msgs \in Seq(Message)
    /\ req \in [Requests -> HandlerState]

Owned == {"list", "detail", "rename", "title", "delete", "chat"}
AuthKinds == {"register", "login", "claim_guest"}

\* A request that does something acts for a user; it is answered once.
Acting(r) ==
    /\ req[r].kind # "none" => req[r].user \in Users
    /\ req[r].kind = "chat" /\ req[r].at # "done" => req[r].turnId \in TurnIds
    /\ req[r].reply \in {"ok", "replayed"} => req[r].at = "done"
    /\ req[r].reply = "replayed" => req[r].kind = "chat"
    /\ req[r].at \in {"claim", "respond"} => req[r].kind \in AuthKinds

\* A chat request that met no conversation has checked no owner before it has
\* inserted the row, and checks none if it is replayed under the lock.
Unchecked(r) ==
    /\ req[r].kind = "chat" /\ req[r].absent
    /\ req[r].at \in {"lock", "begin", "insert"} \/ req[r].reply = "replayed"

\* The statement that checked the owner is still right about it.
OwnerKnown(r) ==
    req[r].kind \in Owned /\ req[r].at # "first" /\ ~Unchecked(r) => row.owner = req[r].user

\* What a detail request has read so far is a prefix of the transcript, and
\* each later read covers the messages it has.
ReadSoFar(r) ==
    req[r].kind = "detail" =>
        /\ req[r].at \in {"snapshots", "citations", "done"} =>
              \A i \in DOMAIN req[r].msgs : i \in DOMAIN msgs /\ req[r].msgs[i] = msgs[i]
        /\ req[r].at \in {"citations", "done"} =>
              \A i \in DOMAIN req[r].msgs :
                  req[r].msgs[i].role = "assistant" => req[r].msgs[i].turn \in req[r].snaps
        /\ req[r].at = "done" =>
              \A i \in DOMAIN req[r].msgs : req[r].msgs[i].cited => i \in req[r].cites

RequestOK(r) == Acting(r) /\ OwnerKnown(r) /\ ReadSoFar(r)

\* An assistant message is committed with its turn's snapshot.
AnsweredTurns ==
    \A i \in DOMAIN msgs : msgs[i].role = "assistant" =>
        msgs[i].turn \in DOMAIN turns /\ turns[msgs[i].turn] = TRUE

\* One turn is open at a time; what its first transaction has read of the row
\* is what the row says until it commits, and its turn exists afterwards.
OneChat == \A r, s \in Requests : OpenChat(r) /\ OpenChat(s) => r = s
InsertKnown(r) ==
    At(r, "chat", "insert") =>
        /\ row.owner \in {Nobody, req[r].user}
        /\ row.owner # Nobody => rowLock = r /\ req[r].title = row.title
        /\ Len(turns) < MaxTurns
AnswerKnown(r) == At(r, "chat", "answer") => Len(turns) \in 1..MaxTurns
ChatInv == OneChat /\ \A r \in Requests : InsertKnown(r) /\ AnswerKnown(r)

\* A conversation that has no row has no title.
NoRowNoTitle == row.owner = Nobody => row.title = ""

IInv ==
    /\ TypeOK
    /\ \A r \in Requests : RequestOK(r)
    /\ AnsweredTurns
    /\ ChatInv
    /\ NoRowNoTitle

-----------------------------------------------------------------------------
(* How a handler's locals change *)

LEMMA IdleType == Idle \in HandlerState
  BY EmptySeq DEF Idle, HandlerState, Kinds, Labels, Titles, Untitled

LEMMA GotoReq ==
    ASSUME TypeOK, NEW r \in Requests, NEW l \in Labels, Goto(r, l)
    PROVE  /\ req' \in [Requests -> HandlerState]
           /\ \A s \in Requests : s # r => req'[s] = req[s]
           /\ req'[r].at = l /\ req'[r].kind = req[r].kind /\ req'[r].reply = req[r].reply
           /\ req'[r].user = req[r].user /\ req'[r].title = req[r].title
           /\ req'[r].msgs = req[r].msgs
           /\ req'[r].turnId = req[r].turnId /\ req'[r].absent = req[r].absent
  <1>1. req[r] \in HandlerState
    BY DEF TypeOK
  <1>2. [req[r] EXCEPT !.at = l] \in HandlerState
    BY <1>1 DEF HandlerState
  <1>3. req' = [req EXCEPT ![r] = [req[r] EXCEPT !.at = l]]
    BY DEF Goto
  <1>4. req'[r] = [req[r] EXCEPT !.at = l]
    BY <1>3 DEF TypeOK
  <1>5. req' \in [Requests -> HandlerState] /\ \A s \in Requests : s # r => req'[s] = req[s]
    BY <1>2, <1>3 DEF TypeOK
  <1> QED
    BY <1>1, <1>4, <1>5 DEF HandlerState

\* A request that is answered "ok" keeps what it has read.
LEMMA DoneOkReq ==
    ASSUME TypeOK, NEW r \in Requests, Done(r, "ok")
    PROVE  /\ req' \in [Requests -> HandlerState]
           /\ \A s \in Requests : s # r => req'[s] = req[s]
           /\ req'[r].at = "done" /\ req'[r].kind = req[r].kind /\ req'[r].reply = "ok"
           /\ req'[r].user = req[r].user /\ req'[r].msgs = req[r].msgs
           /\ req'[r].absent = FALSE
  <1> DEFINE y == [req[r] EXCEPT !.at = "done", !.reply = "ok", !.browser = Nobody, !.title = "",
                                 !.turnId = Nobody, !.absent = FALSE]
  <1>1. req[r] \in HandlerState
    BY DEF TypeOK
  <1>2. y \in HandlerState
    BY <1>1 DEF HandlerState, Labels, Titles, Untitled
  <1>3. req' = [req EXCEPT ![r] = y]
    BY DEF Done
  <1>4. req'[r] = y
    BY <1>3 DEF TypeOK
  <1>5. req' \in [Requests -> HandlerState] /\ \A s \in Requests : s # r => req'[s] = req[s]
    BY <1>2, <1>3 DEF TypeOK
  <1> QED
    BY <1>1, <1>4, <1>5 DEF HandlerState

\* A request that is refused forgets it.
LEMMA DoneRefusedReq ==
    ASSUME TypeOK, NEW r \in Requests, NEW x \in {"not_found", "error"}, Done(r, x)
    PROVE  /\ req' \in [Requests -> HandlerState]
           /\ \A s \in Requests : s # r => req'[s] = req[s]
           /\ req'[r].at = "done" /\ req'[r].kind = "none" /\ req'[r].reply = x
  <1>1. req' = [req EXCEPT ![r] = [Idle EXCEPT !.at = "done", !.reply = x]]
    BY DEF Done
  <1>2. [Idle EXCEPT !.at = "done", !.reply = x] \in HandlerState
    BY IdleType DEF HandlerState, Labels
  <1>3. /\ [Idle EXCEPT !.at = "done", !.reply = x].at = "done"
        /\ [Idle EXCEPT !.at = "done", !.reply = x].reply = x
        /\ [Idle EXCEPT !.at = "done", !.reply = x].kind = "none"
    BY DEF Idle
  <1> QED
    BY <1>1, <1>2, <1>3 DEF TypeOK

-----------------------------------------------------------------------------
(* What a step leaves true of the other requests *)

\* Ownership is never taken from a user, and the transcript only grows.
DbGrows ==
    /\ row.owner \in Users => row'.owner = row.owner
    /\ \A i \in DOMAIN msgs : i \in DOMAIN msgs' /\ msgs'[i] = msgs[i]

LEMMA OtherKeeps ==
    ASSUME NEW s \in Requests, RequestOK(s), DbGrows, req'[s] = req[s]
    PROVE  RequestOK(s)'
  <1>1. Acting(s)'
    BY DEF RequestOK, Acting
  <1>2. OwnerKnown(s)'
    BY DEF RequestOK, Acting, OwnerKnown, Unchecked, DbGrows, Owned, At
  <1>3. ReadSoFar(s)'
    BY DEF RequestOK, ReadSoFar, DbGrows
  <1> QED
    BY <1>1, <1>2, <1>3 DEF RequestOK

\* A request that was refused has no more to keep true.
LEMMA RefusedOK ==
    ASSUME NEW r \in Requests, req'[r].at = "done", req'[r].kind = "none",
           req'[r].reply \in {"not_found", "error"}
    PROVE  RequestOK(r)' /\ ~OpenChat(r)'
  BY DEF RequestOK, Acting, OwnerKnown, Unchecked, ReadSoFar, OpenChat, Owned, At

\* A step that writes nothing of the conversation and opens no turn.
LEMMA Quiet ==
    ASSUME IInv, NEW r \in Requests, UNCHANGED db,
           accounts' \subseteq Users, cookie' \in [Browsers -> Users \cup {Nobody}],
           req' \in [Requests -> HandlerState],
           \A s \in Requests : s # r => req'[s] = req[s],
           RequestOK(r)', ~OpenChat(r)'
    PROVE  IInv'
  <1> USE DEF IInv, db
  <1>1. TypeOK'
    BY DEF TypeOK
  <1>2. \A s \in Requests : RequestOK(s)'
    BY OtherKeeps DEF DbGrows
  <1>3. AnsweredTurns' /\ NoRowNoTitle'
    BY DEF AnsweredTurns, NoRowNoTitle
  <1>4. ChatInv'
    <2>1. \A s \in Requests : OpenChat(s)' => s # r /\ OpenChat(s)
      BY DEF OpenChat
    <2>2. OneChat'
      BY <2>1 DEF ChatInv, OneChat
    <2>3. ASSUME NEW s \in Requests PROVE InsertKnown(s)' /\ AnswerKnown(s)'
      <3>1. CASE s = r
        BY <3>1 DEF InsertKnown, AnswerKnown, OpenChat, At
      <3>2. CASE s # r
        BY <3>2 DEF ChatInv, InsertKnown, AnswerKnown, At
      <3> QED
        BY <3>1, <3>2
    <2> QED
      BY <2>2, <2>3 DEF ChatInv
  <1> QED
    BY <1>1, <1>2, <1>3, <1>4

\* A refusal that writes nothing.
LEMMA QuietRefusal ==
    ASSUME IInv, NEW r \in Requests, NEW x \in {"not_found", "error"}, Done(r, x),
           UNCHANGED <<identity, db>>
    PROVE  IInv'
  <1>1. /\ req' \in [Requests -> HandlerState]
        /\ \A s \in Requests : s # r => req'[s] = req[s]
        /\ req'[r].at = "done" /\ req'[r].kind = "none" /\ req'[r].reply = x
    BY DoneRefusedReq DEF IInv
  <1>2. RequestOK(r)' /\ ~OpenChat(r)'
    BY <1>1, RefusedOK
  <1> QED
    BY <1>1, <1>2, Quiet DEF IInv, TypeOK, identity

\* A move of a handler to a position at which RequestOK still holds.
LEMMA QuietGoto ==
    ASSUME IInv, NEW r \in Requests, NEW l \in Labels, Goto(r, l), UNCHANGED <<identity, db>>,
           RequestOK(r)', ~(req[r].kind = "chat" /\ l \in {"begin", "insert", "answer"})
    PROVE  IInv'
  <1>1. /\ req' \in [Requests -> HandlerState]
        /\ \A s \in Requests : s # r => req'[s] = req[s]
        /\ req'[r].at = l /\ req'[r].kind = req[r].kind
    BY GotoReq DEF IInv
  <1>2. ~OpenChat(r)'
    BY <1>1 DEF OpenChat
  <1> QED
    BY <1>1, <1>2, Quiet DEF IInv, TypeOK, identity

-----------------------------------------------------------------------------
(* History *)

LEMMA StartKeeps ==
    ASSUME IInv, NEW r \in Requests, NEW b \in Browsers, NEW u \in Users,
           NEW k \in Kinds, NEW t \in TurnIds \cup {Nobody}, k = "chat" => t \in TurnIds,
           Start(r, b, u, k, t)
    PROVE  IInv'
  <1> DEFINE y == [Idle EXCEPT !.kind = k, !.at = "first", !.user = u, !.browser = b,
                               !.turnId = t]
  <1>1. y \in HandlerState
    BY IdleType DEF HandlerState, Labels
  <1>2. y.kind = k /\ y.at = "first" /\ y.user = u /\ y.reply = "none" /\ y.turnId = t
    BY DEF Idle
  <1>3. /\ req' \in [Requests -> HandlerState] /\ req'[r] = y
        /\ \A s \in Requests : s # r => req'[s] = req[s]
    BY <1>1 DEF IInv, TypeOK, Start
  <1>4. RequestOK(r)' /\ ~OpenChat(r)'
    BY <1>2, <1>3 DEF RequestOK, Acting, OwnerKnown, Unchecked, ReadSoFar, OpenChat
  <1> QED
    BY <1>3, <1>4, Quiet DEF IInv, TypeOK, identity, Start

LEMMA ListKeeps == ASSUME IInv, NEW r \in Requests, List(r) PROVE IInv'
  <1>1. CASE Shows(r)
    <2>1. Done(r, "ok")
      BY <1>1 DEF List
    <2>2. /\ req' \in [Requests -> HandlerState]
          /\ \A s \in Requests : s # r => req'[s] = req[s]
          /\ req'[r].at = "done" /\ req'[r].kind = "list" /\ req'[r].user = req[r].user
          /\ req'[r].reply = "ok"
      BY <2>1, DoneOkReq DEF IInv, List, At
    <2>3. RequestOK(r)' /\ ~OpenChat(r)'
      BY <1>1, <2>2 DEF IInv, RequestOK, Acting, OwnerKnown, Unchecked, ReadSoFar, OpenChat, List,
                        At, db, Shows, Owns
    <2> QED
      BY <2>2, <2>3, Quiet DEF IInv, TypeOK, identity, List
  <1>2. CASE ~Shows(r)
    BY <1>2, QuietRefusal DEF List
  <1> QED
    BY <1>1, <1>2

LEMMA DetailConversationKeeps ==
    ASSUME IInv, NEW r \in Requests, DetailConversation(r) PROVE IInv'
  <1>1. CASE Shows(r)
    <2>1. Goto(r, "messages")
      BY <1>1 DEF DetailConversation
    <2>2. /\ req'[r].at = "messages" /\ req'[r].kind = "detail" /\ req'[r].user = req[r].user
          /\ req'[r].reply = req[r].reply
      BY <2>1, GotoReq DEF IInv, DetailConversation, At, Labels
    <2>3. RequestOK(r)'
      BY <1>1, <2>2 DEF IInv, RequestOK, Acting, OwnerKnown, Unchecked, ReadSoFar,
                        DetailConversation, At, db, Shows, Owns
    <2> QED
      BY <2>1, <2>3, QuietGoto DEF DetailConversation, Labels, At
  <1>2. CASE ~Shows(r)
    BY <1>2, QuietRefusal DEF DetailConversation
  <1> QED
    BY <1>1, <1>2

LEMMA DetailMessagesKeeps ==
    ASSUME IInv, NEW r \in Requests, DetailMessages(r) PROVE IInv'
  <1> DEFINE y == [req[r] EXCEPT !.at = "snapshots", !.msgs = msgs]
  <1>1. req[r] \in HandlerState /\ msgs \in Seq(Message)
    BY DEF IInv, TypeOK
  <1>2. y \in HandlerState
    BY <1>1 DEF HandlerState, Labels
  <1>3. req' = [req EXCEPT ![r] = y]
    BY DEF DetailMessages
  <1>4. /\ req' \in [Requests -> HandlerState] /\ req'[r] = y
        /\ \A s \in Requests : s # r => req'[s] = req[s]
    BY <1>2, <1>3 DEF IInv, TypeOK
  <1>5. /\ y.at = "snapshots" /\ y.msgs = msgs /\ y.kind = "detail" /\ y.user = req[r].user
        /\ y.reply = req[r].reply
    BY <1>1 DEF HandlerState, DetailMessages, At
  <1>6. RequestOK(r)' /\ ~OpenChat(r)'
    BY <1>4, <1>5 DEF IInv, RequestOK, Acting, OwnerKnown, Unchecked, ReadSoFar, OpenChat, DetailMessages,
                      At, db, Owned
  <1> QED
    BY <1>4, <1>6, Quiet DEF IInv, TypeOK, identity, DetailMessages

\* The snapshots are read after the messages: every answered turn of those has
\* its snapshot.
LEMMA DetailSnapshotsKeeps ==
    ASSUME IInv, NEW r \in Requests, DetailSnapshots(r) PROVE IInv'
  <1> DEFINE S == {n \in DOMAIN turns : turns[n]}
  <1> DEFINE y == [req[r] EXCEPT !.at = "citations", !.snaps = S]
  <1>1. req[r] \in HandlerState /\ S \in SUBSET Nat
    BY LenProperties DEF IInv, TypeOK
  <1>2. y \in HandlerState
    BY <1>1 DEF HandlerState, Labels
  <1>3. req' = [req EXCEPT ![r] = y]
    BY DEF DetailSnapshots
  <1>4. /\ req' \in [Requests -> HandlerState] /\ req'[r] = y
        /\ \A s \in Requests : s # r => req'[s] = req[s]
    BY <1>2, <1>3 DEF IInv, TypeOK
  <1>5. /\ y.at = "citations" /\ y.msgs = req[r].msgs /\ y.kind = "detail"
        /\ y.user = req[r].user /\ y.snaps = S /\ y.reply = req[r].reply
    BY <1>1 DEF HandlerState, DetailSnapshots, At
  <1>6. \A i \in DOMAIN req[r].msgs :
           /\ i \in DOMAIN msgs /\ req[r].msgs[i] = msgs[i]
           /\ req[r].msgs[i].role = "assistant" => req[r].msgs[i].turn \in S
    BY DEF IInv, RequestOK, ReadSoFar, DetailSnapshots, At, AnsweredTurns
  <1>7. ReadSoFar(r)'
    BY <1>4, <1>5, <1>6 DEF ReadSoFar, DetailSnapshots, db
  <1>8. RequestOK(r)' /\ ~OpenChat(r)'
    BY <1>4, <1>5, <1>7 DEF IInv, RequestOK, Acting, OwnerKnown, Unchecked, OpenChat, DetailSnapshots,
                            At, db, Owned
  <1> QED
    BY <1>4, <1>8, Quiet DEF IInv, TypeOK, identity, DetailSnapshots

LEMMA DetailCitationsKeeps ==
    ASSUME IInv, NEW r \in Requests, DetailCitations(r) PROVE IInv'
  <1> DEFINE C == {i \in DOMAIN msgs : msgs[i].cited}
  <1> DEFINE y == [req[r] EXCEPT !.at = "done", !.reply = "ok", !.browser = Nobody, !.cites = C]
  <1>1. req[r] \in HandlerState /\ C \in SUBSET Nat
    BY LenProperties DEF IInv, TypeOK
  <1>2. y \in HandlerState
    BY <1>1 DEF HandlerState, Labels
  <1>3. req' = [req EXCEPT ![r] = y]
    BY DEF DetailCitations
  <1>4. /\ req' \in [Requests -> HandlerState] /\ req'[r] = y
        /\ \A s \in Requests : s # r => req'[s] = req[s]
    BY <1>2, <1>3 DEF IInv, TypeOK
  <1>5. /\ y.at = "done" /\ y.msgs = req[r].msgs /\ y.kind = "detail" /\ y.user = req[r].user
        /\ y.snaps = req[r].snaps /\ y.cites = C
    BY <1>1 DEF HandlerState, DetailCitations, At
  <1>6. \A i \in DOMAIN req[r].msgs :
           /\ i \in DOMAIN msgs /\ req[r].msgs[i] = msgs[i]
           /\ req[r].msgs[i].role = "assistant" => req[r].msgs[i].turn \in req[r].snaps
           /\ req[r].msgs[i].cited => i \in C
    BY DEF IInv, RequestOK, ReadSoFar, DetailCitations, At
  <1>7. ReadSoFar(r)'
    BY <1>4, <1>5, <1>6 DEF ReadSoFar, DetailCitations, db
  <1>8. RequestOK(r)' /\ ~OpenChat(r)'
    BY <1>4, <1>5, <1>7 DEF IInv, RequestOK, Acting, OwnerKnown, Unchecked, OpenChat, DetailCitations,
                            At, db, Owned
  <1> QED
    BY <1>4, <1>8, Quiet DEF IInv, TypeOK, identity, DetailCitations

-----------------------------------------------------------------------------
(* Writes of the row *)

\* An UPDATE of the row: it may not change what an open first transaction of a
\* turn has read, and that transaction's row lock sees to it.
LEMMA RowWrite ==
    ASSUME IInv, NEW r \in Requests, UNCHANGED <<identity, rowLock, turns, turnIds, msgs>>,
           row' \in [owner : Users \cup {Guest, Nobody}, title : Titles, deleted : BOOLEAN],
           row.owner \in Users => row'.owner = row.owner, NoRowNoTitle',
           req' \in [Requests -> HandlerState],
           \A s \in Requests : s # r => req'[s] = req[s],
           RequestOK(r)', ~OpenChat(r)',
           \A s \in Requests : At(s, "chat", "insert") =>
               row'.owner = row.owner /\ (row.owner # Nobody => row'.title = row.title)
    PROVE  IInv'
  <1> USE DEF IInv
  <1>1. TypeOK'
    BY DEF TypeOK, identity
  <1>2. \A s \in Requests : RequestOK(s)'
    BY OtherKeeps DEF DbGrows
  <1>3. AnsweredTurns'
    BY DEF AnsweredTurns
  <1>4. OneChat'
    BY DEF ChatInv, OneChat, OpenChat
  <1>5. ASSUME NEW s \in Requests PROVE InsertKnown(s)' /\ AnswerKnown(s)'
    <2>1. CASE s = r
      BY <2>1 DEF InsertKnown, AnswerKnown, OpenChat, At
    <2>2. CASE s # r
      BY <2>2 DEF ChatInv, InsertKnown, AnswerKnown, At
    <2> QED
      BY <2>1, <2>2
  <1> QED
    BY <1>1, <1>2, <1>3, <1>4, <1>5 DEF ChatInv

\* While nobody locks the row, no first transaction of a turn has read one.
LEMMA UnlockedRow ==
    ASSUME IInv, rowLock = Nobody, row.owner # Nobody, NEW s \in Requests
    PROVE  ~At(s, "chat", "insert")
  BY PrincipalsAssumption DEF IInv, ChatInv, InsertKnown

LEMMA RenameKeeps ==
    ASSUME IInv, NEW r \in Requests, NEW t \in {"chosen", ""}, Rename(r, t) PROVE IInv'
  <1>1. CASE Owns(r)
    <2>1. Done(r, "ok") /\ rowLock = Nobody /\ row' = [row EXCEPT !.title = t]
      BY <1>1 DEF Rename, RowFree
    <2>2. /\ req' \in [Requests -> HandlerState]
          /\ \A s \in Requests : s # r => req'[s] = req[s]
          /\ req'[r].at = "done" /\ req'[r].kind = "rename" /\ req'[r].user = req[r].user
          /\ req'[r].reply = "ok"
      BY <2>1, DoneOkReq DEF IInv, Rename, At
    <2>3. row.owner = req[r].user /\ row.owner \in Users
      BY <1>1 DEF Owns, IInv, RequestOK, Acting, Rename, At
    <2>4. /\ row' \in [owner : Users \cup {Guest, Nobody}, title : Titles, deleted : BOOLEAN]
          /\ row'.owner = row.owner
      BY <2>1 DEF IInv, TypeOK, Titles, Untitled
    <2>5. RequestOK(r)' /\ ~OpenChat(r)'
      BY <2>2, <2>3, <2>4 DEF RequestOK, Acting, OwnerKnown, Unchecked, ReadSoFar, OpenChat
    <2>6. NoRowNoTitle'
      BY <2>3, <2>4, PrincipalsAssumption DEF NoRowNoTitle
    <2>7. \A s \in Requests : ~At(s, "chat", "insert")
      BY <2>1, <2>3, UnlockedRow, PrincipalsAssumption
    <2> QED
      BY <2>2, <2>4, <2>5, <2>6, <2>7, RowWrite DEF Rename
  <1>2. CASE ~Owns(r)
    BY <1>2, QuietRefusal DEF Rename, db
  <1> QED
    BY <1>1, <1>2

LEMMA DeleteKeeps == ASSUME IInv, NEW r \in Requests, Delete(r) PROVE IInv'
  <1>1. CASE Owns(r)
    <2>1. Done(r, "ok") /\ row' = [row EXCEPT !.deleted = TRUE]
      BY <1>1 DEF Delete
    <2>2. /\ req' \in [Requests -> HandlerState]
          /\ \A s \in Requests : s # r => req'[s] = req[s]
          /\ req'[r].at = "done" /\ req'[r].kind = "delete" /\ req'[r].user = req[r].user
          /\ req'[r].reply = "ok"
      BY <2>1, DoneOkReq DEF IInv, Delete, At
    <2>3. row.owner = req[r].user /\ row.owner \in Users
      BY <1>1 DEF Owns, IInv, RequestOK, Acting, Delete, At
    <2>4. /\ row' \in [owner : Users \cup {Guest, Nobody}, title : Titles, deleted : BOOLEAN]
          /\ row'.owner = row.owner /\ row'.title = row.title
      BY <2>1 DEF IInv, TypeOK
    <2>5. RequestOK(r)' /\ ~OpenChat(r)'
      BY <2>2, <2>3, <2>4 DEF RequestOK, Acting, OwnerKnown, Unchecked, ReadSoFar, OpenChat
    <2> QED
      BY <2>2, <2>4, <2>5, RowWrite DEF Delete, IInv, NoRowNoTitle
  <1>2. CASE ~Owns(r)
    BY <1>2, QuietRefusal DEF Delete, db
  <1> QED
    BY <1>1, <1>2

LEMMA TitleConversationKeeps ==
    ASSUME IInv, NEW r \in Requests, TitleConversation(r) PROVE IInv'
  <1>1. CASE Shows(r)
    <2>1. Goto(r, "message")
      BY <1>1 DEF TitleConversation
    <2>2. /\ req'[r].at = "message" /\ req'[r].kind = "title" /\ req'[r].user = req[r].user
          /\ req'[r].reply = req[r].reply
      BY <2>1, GotoReq DEF IInv, TitleConversation, At, Labels
    <2>3. RequestOK(r)'
      BY <1>1, <2>2 DEF IInv, RequestOK, Acting, OwnerKnown, Unchecked, ReadSoFar, TitleConversation, At,
                        db, Shows, Owns
    <2> QED
      BY <2>1, <2>3, QuietGoto DEF TitleConversation, Labels, At
  <1>2. CASE ~Shows(r)
    BY <1>2, QuietRefusal DEF TitleConversation
  <1> QED
    BY <1>1, <1>2

LEMMA TitleMessageKeeps ==
    ASSUME IInv, NEW r \in Requests, TitleMessage(r) PROVE IInv'
  <1>1. CASE Goto(r, "update")
    <2>2. /\ req'[r].at = "update" /\ req'[r].kind = "title" /\ req'[r].user = req[r].user
          /\ req'[r].reply = req[r].reply
      BY <1>1, GotoReq DEF IInv, TitleMessage, At, Labels
    <2>3. RequestOK(r)'
      BY <2>2 DEF IInv, RequestOK, Acting, OwnerKnown, Unchecked, ReadSoFar, TitleMessage, At, db, Owned
    <2> QED
      BY <1>1, <2>3, QuietGoto DEF TitleMessage, Labels, At
  <1>2. CASE Done(r, "not_found")
    BY <1>2, QuietRefusal DEF TitleMessage
  <1> QED
    BY <1>1, <1>2 DEF TitleMessage

LEMMA TitleUpdateKeeps ==
    ASSUME IInv, NEW r \in Requests, TitleUpdate(r) PROVE IInv'
  <1>1. Done(r, "ok") /\ rowLock = Nobody /\ row' = [row EXCEPT !.title = "derived"]
    BY DEF TitleUpdate
  <1>2. /\ req' \in [Requests -> HandlerState]
        /\ \A s \in Requests : s # r => req'[s] = req[s]
        /\ req'[r].at = "done" /\ req'[r].kind = "title" /\ req'[r].user = req[r].user
        /\ req'[r].reply = "ok"
    BY <1>1, DoneOkReq DEF IInv, TitleUpdate, At
  <1>3. row.owner = req[r].user /\ row.owner \in Users
    BY DEF IInv, RequestOK, Acting, OwnerKnown, Unchecked, TitleUpdate, At, Owned
  <1>4. /\ row' \in [owner : Users \cup {Guest, Nobody}, title : Titles, deleted : BOOLEAN]
        /\ row'.owner = row.owner
    BY <1>1 DEF IInv, TypeOK, Titles, Untitled
  <1>5. RequestOK(r)' /\ ~OpenChat(r)'
    BY <1>2, <1>3, <1>4 DEF RequestOK, Acting, OwnerKnown, Unchecked, ReadSoFar, OpenChat
  <1>6. NoRowNoTitle'
    BY <1>3, <1>4, PrincipalsAssumption DEF NoRowNoTitle
  <1>7. \A s \in Requests : ~At(s, "chat", "insert")
    BY <1>1, <1>3, UnlockedRow, PrincipalsAssumption
  <1> QED
    BY <1>2, <1>4, <1>5, <1>6, <1>7, RowWrite DEF TitleUpdate

-----------------------------------------------------------------------------
(* The two transactions of a turn *)

LEMMA FindTurnKeeps == ASSUME IInv, NEW r \in Requests, FindTurn(r) PROVE IInv'
  <1>1. CASE Done(r, "not_found")
    BY <1>1, QuietRefusal DEF FindTurn
  <1>2. CASE Owns(r) /\ Done(r, "ok")
    <2>1. /\ req' \in [Requests -> HandlerState]
          /\ \A s \in Requests : s # r => req'[s] = req[s]
          /\ req'[r].at = "done" /\ req'[r].kind = "chat" /\ req'[r].user = req[r].user
          /\ req'[r].reply = "ok" /\ req'[r].absent = FALSE
      BY <1>2, DoneOkReq DEF IInv, FindTurn, At
    <2>2. row.owner = req[r].user /\ req[r].user \in Users /\ UNCHANGED <<identity, db>>
      BY <1>2 DEF Owns, FindTurn, At, IInv, RequestOK, Acting
    <2>3. RequestOK(r)' /\ ~OpenChat(r)'
      BY <2>1, <2>2 DEF RequestOK, Acting, OwnerKnown, Unchecked, ReadSoFar, OpenChat, db
    <2> QED
      BY <2>1, <2>2, <2>3, Quiet DEF IInv, TypeOK, identity
  <1>3. CASE /\ row.owner = Nobody \/ Owns(r)
             /\ req' = [req EXCEPT ![r].at = "lock", ![r].absent = (row.owner = Nobody)]
    <2> DEFINE y == [req[r] EXCEPT !.at = "lock", !.absent = (row.owner = Nobody)]
    <2>1. req[r] \in HandlerState /\ (row.owner = Nobody) \in BOOLEAN
      BY DEF IInv, TypeOK
    <2>2. y \in HandlerState
      BY <2>1 DEF HandlerState, Labels
    <2>3. /\ req' \in [Requests -> HandlerState] /\ req'[r] = y
          /\ \A s \in Requests : s # r => req'[s] = req[s]
      BY <1>3, <2>2 DEF IInv, TypeOK
    <2>4. /\ y.at = "lock" /\ y.kind = "chat" /\ y.user = req[r].user
          /\ y.reply = req[r].reply /\ y.turnId = req[r].turnId
          /\ y.absent <=> row.owner = Nobody
      BY <2>1 DEF HandlerState, FindTurn, At
    <2>5. RequestOK(r)' /\ ~OpenChat(r)'
      BY <1>3, <2>3, <2>4 DEF IInv, RequestOK, Acting, OwnerKnown, Unchecked, ReadSoFar, OpenChat,
                              FindTurn, At, Owns, db
    <2> QED
      BY <2>3, <2>5, Quiet DEF IInv, TypeOK, identity, FindTurn
  <1> QED
    BY <1>1, <1>2, <1>3 DEF FindTurn

LEMMA LockedFindTurnKeeps ==
    ASSUME IInv, NEW r \in Requests, LockedFindTurn(r) PROVE IInv'
  <1>1. CASE Known(req[r].turnId)
    <2> DEFINE y == [req[r] EXCEPT !.at = "done", !.reply = "replayed", !.browser = Nobody,
                                   !.turnId = Nobody]
    <2>1. req[r] \in HandlerState
      BY DEF IInv, TypeOK
    <2>2. y \in HandlerState
      BY <2>1 DEF HandlerState, Labels
    <2>3. /\ req' \in [Requests -> HandlerState] /\ req'[r] = y
          /\ \A s \in Requests : s # r => req'[s] = req[s]
      BY <1>1, <2>2 DEF IInv, TypeOK, LockedFindTurn
    <2>4. /\ y.at = "done" /\ y.kind = "chat" /\ y.user = req[r].user
          /\ y.reply = "replayed" /\ y.absent = req[r].absent
      BY <2>1 DEF HandlerState, LockedFindTurn, At
    <2>5. RequestOK(r)' /\ ~OpenChat(r)'
      BY <2>3, <2>4 DEF IInv, RequestOK, Acting, OwnerKnown, Unchecked, ReadSoFar, OpenChat,
                        LockedFindTurn, At, db
    <2> QED
      BY <2>3, <2>5, Quiet DEF IInv, TypeOK, identity, LockedFindTurn
  <1>2. CASE ~Known(req[r].turnId)
    <2>1. Goto(r, "begin") /\ At(r, "chat", "lock") /\ UNCHANGED <<identity, db>>
          /\ \A s \in Requests : ~OpenChat(s)
      BY <1>2 DEF LockedFindTurn, Goto
    <2>2. /\ req' \in [Requests -> HandlerState]
          /\ \A s \in Requests : s # r => req'[s] = req[s]
          /\ req'[r].at = "begin" /\ req'[r].kind = req[r].kind /\ req'[r].reply = req[r].reply
          /\ req'[r].user = req[r].user /\ req'[r].turnId = req[r].turnId
          /\ req'[r].absent = req[r].absent
      BY <2>1, GotoReq DEF IInv, Labels
    <2>3. RequestOK(r)'
      BY <2>1, <2>2 DEF IInv, RequestOK, Acting, OwnerKnown, Unchecked, ReadSoFar, At, db, Owned
    <2>4. \A s \in Requests : RequestOK(s)'
      BY <2>1, <2>2, <2>3, OtherKeeps DEF IInv, DbGrows, db
    <2>5. \A s \in Requests : OpenChat(s)' => s = r
      BY <2>1, <2>2 DEF OpenChat
    <2>6. ChatInv'
      BY <2>2, <2>5 DEF ChatInv, OneChat, InsertKnown, AnswerKnown, OpenChat, At
    <2> QED
      BY <2>1, <2>2, <2>4, <2>6 DEF IInv, TypeOK, AnsweredTurns, NoRowNoTitle, identity, db
  <1> QED
    BY <1>1, <1>2

LEMMA BeginKeeps == ASSUME IInv, NEW r \in Requests, Begin(r) PROVE IInv'
  <1>1. CASE row.owner \notin {Nobody, req[r].user}
    <2>1. Done(r, "not_found") /\ UNCHANGED <<identity, db>>
      BY <1>1 DEF Begin, db
    <2> QED
      BY <2>1, QuietRefusal
  <1>2. CASE row.owner \in {Nobody, req[r].user}
    <2> DEFINE y == [req[r] EXCEPT !.at = "insert", !.title = row.title]
    <2>1. req[r] \in HandlerState /\ row.title \in Titles
      BY DEF IInv, TypeOK
    <2>2. y \in HandlerState
      BY <2>1 DEF HandlerState, Labels
    <2>3. req' = [req EXCEPT ![r] = y]
      BY <1>2 DEF Begin
    <2>4. /\ req' \in [Requests -> HandlerState] /\ req'[r] = y
          /\ \A s \in Requests : s # r => req'[s] = req[s]
      BY <2>2, <2>3 DEF IInv, TypeOK
    <2>5. /\ y.at = "insert" /\ y.kind = "chat" /\ y.user = req[r].user /\ y.title = row.title
          /\ y.reply = req[r].reply /\ y.turnId = req[r].turnId /\ y.absent = req[r].absent
      BY <2>1 DEF HandlerState, Begin, At
    <2>6. TypeOK'
      BY <1>2, <2>4 DEF IInv, TypeOK, Begin, identity
    <2>7. RequestOK(r)'
      BY <2>4, <2>5 DEF IInv, RequestOK, Acting, OwnerKnown, Unchecked, ReadSoFar, Begin, At
    <2>8. \A s \in Requests : RequestOK(s)'
      BY <2>4, <2>7, OtherKeeps DEF DbGrows, Begin, IInv
    <2>9. \A s \in Requests : OpenChat(s)' => s = r
      BY <2>4 DEF Begin, OpenChat, At, IInv, ChatInv, OneChat
    <2>10. InsertKnown(r)'
      BY <1>2, <2>4, <2>5 DEF InsertKnown, Begin, At
    <2>11. \A s \in Requests : InsertKnown(s)' /\ AnswerKnown(s)'
      BY <2>4, <2>5, <2>9, <2>10 DEF InsertKnown, AnswerKnown, OpenChat, At
    <2>12. ChatInv'
      BY <2>9, <2>11 DEF ChatInv, OneChat
    <2> QED
      BY <2>6, <2>8, <2>12 DEF IInv, AnsweredTurns, NoRowNoTitle, Begin
  <1> QED
    BY <1>1, <1>2

LEMMA BeginCommitKeeps == ASSUME IInv, NEW r \in Requests, BeginCommit(r) PROVE IInv'
  <1> DEFINE m == [turn |-> Len(turns) + 1, role |-> "user", cited |-> FALSE]
  <1>1. At(r, "chat", "insert") /\ OpenChat(r) /\ req[r].user \in Users
        /\ row.owner \in {Nobody, req[r].user} /\ Len(turns) < MaxTurns
    BY DEF BeginCommit, At, OpenChat, IInv, RequestOK, Acting, ChatInv, InsertKnown
  <1>2. Len(turns) \in Nat /\ MaxTurns \in Nat
    BY LenProperties, TurnsAssumption DEF IInv, TypeOK
  <1>3. m \in Message
    BY <1>1, <1>2 DEF Message
  <1>4. /\ msgs \in Seq(Message) /\ msgs' = Append(msgs, m)
        /\ msgs' \in Seq(Message) /\ Len(msgs') = Len(msgs) + 1
        /\ \A i \in 1..Len(msgs) : msgs'[i] = msgs[i]
        /\ msgs'[Len(msgs) + 1] = m
        /\ Len(msgs) \in Nat /\ DOMAIN msgs = 1..Len(msgs) /\ DOMAIN msgs' = 1..Len(msgs')
    <2>1. msgs \in Seq(Message) /\ msgs' = Append(msgs, m)
      BY DEF BeginCommit, IInv, TypeOK
    <2>2. msgs' \in Seq(Message)
      BY <1>3, <2>1
    <2> QED
      BY <1>3, <2>1, <2>2, AppendProperties, LenProperties
  <1>5. /\ turns' \in Seq(BOOLEAN) /\ Len(turns') = Len(turns) + 1
        /\ \A i \in 1..Len(turns) : turns'[i] = turns[i]
        /\ DOMAIN turns = 1..Len(turns) /\ DOMAIN turns' = 1..Len(turns')
    <2>1. turns \in Seq(BOOLEAN) /\ turns' = Append(turns, FALSE)
      BY DEF BeginCommit, IInv, TypeOK
    <2>2. turns' \in Seq(BOOLEAN)
      BY <2>1
    <2> QED
      BY <2>1, <2>2, AppendProperties, LenProperties
  <1>6. /\ row' \in [owner : Users \cup {Guest, Nobody}, title : Titles, deleted : BOOLEAN]
        /\ row'.owner = req[r].user
    BY <1>1 DEF BeginCommit, IInv, TypeOK, Titles, Untitled
  <1>7. /\ req' \in [Requests -> HandlerState]
        /\ \A s \in Requests : s # r => req'[s] = req[s]
        /\ req'[r].at = "answer" /\ req'[r].kind = "chat" /\ req'[r].reply = req[r].reply
        /\ req'[r].user = req[r].user /\ req'[r].turnId = req[r].turnId
    BY <1>1, GotoReq DEF BeginCommit, IInv, Labels, At
  <1>8. TypeOK'
    <2>1. req[r].turnId \in TurnIds /\ turnIds \in Seq(TurnIds)
      BY <1>1 DEF IInv, TypeOK, RequestOK, Acting, At
    <2>2. turnIds' \in Seq(TurnIds)
      BY <2>1 DEF BeginCommit
    <2> QED
      BY <1>4, <1>5, <1>6, <1>7, <2>2 DEF IInv, TypeOK, BeginCommit, identity
  <1>9. RequestOK(r)'
    BY <1>1, <1>6, <1>7 DEF IInv, RequestOK, Acting, OwnerKnown, Unchecked, ReadSoFar, At
  <1>10. DbGrows
    BY <1>1, <1>4, <1>6, PrincipalsAssumption DEF DbGrows
  <1>11. \A s \in Requests : RequestOK(s)'
    BY <1>7, <1>9, <1>10, OtherKeeps DEF IInv
  <1>12. AnsweredTurns'
    BY <1>2, <1>4, <1>5 DEF AnsweredTurns, IInv
  <1>13. \A s \in Requests : OpenChat(s)' => s = r
    BY <1>1, <1>7 DEF IInv, ChatInv, OneChat, OpenChat
  <1>14. ChatInv'
    <2>1. AnswerKnown(r)' /\ InsertKnown(r)'
      BY <1>1, <1>2, <1>5, <1>7 DEF AnswerKnown, InsertKnown, At
    <2>2. \A s \in Requests : InsertKnown(s)' /\ AnswerKnown(s)'
      BY <1>13, <2>1 DEF InsertKnown, AnswerKnown, OpenChat, At
    <2> QED
      BY <1>13, <2>2 DEF ChatInv, OneChat
  <1>15. NoRowNoTitle'
    BY <1>1, <1>6, PrincipalsAssumption DEF NoRowNoTitle
  <1> QED
    BY <1>8, <1>11, <1>12, <1>14, <1>15 DEF IInv

\* The message, its citations and its turn's snapshot appear together.
LEMMA PersistKeeps == ASSUME IInv, NEW r \in Requests, Persist(r) PROVE IInv'
  <1>1. At(r, "chat", "answer") /\ OpenChat(r) /\ req[r].user \in Users
        /\ row.owner = req[r].user /\ Len(turns) \in 1..MaxTurns
    BY DEF Persist, At, OpenChat, IInv, RequestOK, Acting, OwnerKnown, Unchecked, Owned, ChatInv,
           AnswerKnown
  <1>2. /\ Len(turns) \in 1..Len(turns) /\ DOMAIN turns = 1..Len(turns) /\ MaxTurns \in Nat
    BY <1>1, LenProperties, TurnsAssumption DEF IInv, TypeOK
  <1>3. /\ turns' \in Seq(BOOLEAN) /\ Len(turns') = Len(turns) /\ DOMAIN turns' = DOMAIN turns
        /\ turns'[Len(turns)] = TRUE
        /\ \A i \in 1..Len(turns) : turns[i] = TRUE => turns'[i] = TRUE
    <2>1. turns \in Seq(BOOLEAN) /\ turns' = [turns EXCEPT ![Len(turns)] = TRUE]
      BY DEF Persist, IInv, TypeOK
    <2>2. /\ turns' \in Seq(BOOLEAN) /\ Len(turns') = Len(turns)
          /\ \A j \in 1..Len(turns) : turns'[j] = IF j = Len(turns) THEN TRUE ELSE turns[j]
      BY <1>2, <2>1, ExceptSeq
    <2> QED
      BY <1>2, <2>1, <2>2
  <1>4. /\ msgs \in Seq(Message) /\ msgs' \in Seq(Message) /\ Len(msgs) \in Nat
        /\ DOMAIN msgs = 1..Len(msgs) /\ DOMAIN msgs' = 1..Len(msgs')
        /\ \A i \in 1..Len(msgs) : i \in 1..Len(msgs') /\ msgs'[i] = msgs[i]
        /\ \A i \in 1..Len(msgs') : i \notin 1..Len(msgs) => msgs'[i].turn = Len(turns)
    <2>1. msgs \in Seq(Message) /\ Len(msgs) \in Nat /\ DOMAIN msgs = 1..Len(msgs)
      BY LenProperties DEF IInv, TypeOK
    <2>2. CASE UNCHANGED msgs
      BY <2>1, <2>2
    <2>3. CASE ~UNCHANGED msgs
      <3>1. PICK cited \in BOOLEAN :
               msgs' = Append(msgs, [turn |-> Len(turns), role |-> "assistant", cited |-> cited])
        BY <2>3 DEF Persist
      <3> DEFINE m == [turn |-> Len(turns), role |-> "assistant", cited |-> cited]
      <3>2. m \in Message
        BY <1>1 DEF Message
      <3>3. /\ msgs' \in Seq(Message) /\ Len(msgs') = Len(msgs) + 1
            /\ \A i \in 1..Len(msgs) : msgs'[i] = msgs[i]
            /\ msgs'[Len(msgs) + 1] = m
        BY <2>1, <3>1, <3>2, AppendProperties
      <3>4. m.turn = Len(turns)
        OBVIOUS
      <3> QED
        BY <2>1, <3>3, <3>4, LenProperties
    <2> QED
      BY <2>2, <2>3
  <1>5. /\ req' \in [Requests -> HandlerState]
        /\ \A s \in Requests : s # r => req'[s] = req[s]
        /\ req'[r].at = "done" /\ req'[r].kind = "chat" /\ req'[r].user = req[r].user
        /\ req'[r].absent = FALSE
    BY <1>1, DoneOkReq DEF Persist, IInv, At
  <1>6. TypeOK'
    BY <1>3, <1>4, <1>5 DEF IInv, TypeOK, Persist, identity
  <1>7. RequestOK(r)' /\ ~OpenChat(r)'
    BY <1>1, <1>5 DEF RequestOK, Acting, OwnerKnown, Unchecked, ReadSoFar, OpenChat, Persist
  <1>8. DbGrows
    BY <1>4 DEF DbGrows, Persist
  <1>9. \A s \in Requests : RequestOK(s)'
    BY <1>5, <1>7, <1>8, OtherKeeps DEF IInv
  <1>10. AnsweredTurns'
    <2> SUFFICES ASSUME NEW i \in DOMAIN msgs', msgs'[i].role = "assistant"
                 PROVE msgs'[i].turn \in DOMAIN turns' /\ turns'[msgs'[i].turn] = TRUE
      BY DEF AnsweredTurns
    <2>1. CASE i \in 1..Len(msgs)
      BY <1>2, <1>3, <1>4, <2>1 DEF AnsweredTurns, IInv
    <2>2. CASE i \notin 1..Len(msgs)
      BY <1>2, <1>3, <1>4, <2>2
    <2> QED
      BY <2>1, <2>2
  <1>11. \A s \in Requests : ~OpenChat(s)'
    BY <1>1, <1>5, <1>7 DEF IInv, ChatInv, OneChat, OpenChat
  <1>12. ChatInv'
    BY <1>11 DEF ChatInv, OneChat, InsertKnown, AnswerKnown, OpenChat, At
  <1> QED
    BY <1>6, <1>9, <1>10, <1>12 DEF IInv, NoRowNoTitle, Persist

-----------------------------------------------------------------------------
(* Accounts *)

\* A move of an account request, to any of its positions.
LEMMA AuthGoto ==
    ASSUME IInv, NEW r \in Requests, NEW l \in {"insert", "claim", "respond"}, Goto(r, l),
           req[r].kind \in AuthKinds, req[r].at # "done"
    PROVE  /\ req' \in [Requests -> HandlerState]
           /\ \A s \in Requests : s # r => req'[s] = req[s]
           /\ RequestOK(r)' /\ ~OpenChat(r)'
  <1>1. /\ req' \in [Requests -> HandlerState]
        /\ \A s \in Requests : s # r => req'[s] = req[s]
        /\ req'[r].at = l /\ req'[r].kind = req[r].kind /\ req'[r].reply = req[r].reply
        /\ req'[r].user = req[r].user
    BY GotoReq DEF IInv, Labels
  <1>2. RequestOK(r)' /\ ~OpenChat(r)'
    BY <1>1 DEF IInv, RequestOK, Acting, OwnerKnown, Unchecked, ReadSoFar, OpenChat, AuthKinds, Owned
  <1> QED
    BY <1>1, <1>2

LEMMA RegisterKeeps ==
    ASSUME IInv, NEW r \in Requests, RegisterCheck(r) \/ RegisterInsert(r) PROVE IInv'
  <1>1. req[r].kind \in AuthKinds /\ req[r].at # "done" /\ req[r].user \in Users
    BY DEF RegisterCheck, RegisterInsert, At, AuthKinds, IInv, RequestOK, Acting
  <1>2. CASE Done(r, "error") /\ UNCHANGED <<identity, db>>
    BY <1>2, QuietRefusal
  <1>3. CASE Goto(r, "insert") /\ UNCHANGED <<identity, db>>
    BY <1>1, <1>3, AuthGoto, Quiet DEF IInv, TypeOK, identity
  <1>4. CASE Goto(r, "claim") /\ UNCHANGED <<cookie, db>> /\ accounts' = accounts \cup {req[r].user}
    <2>1. accounts' \subseteq Users /\ cookie' \in [Browsers -> Users \cup {Nobody}]
      BY <1>1, <1>4 DEF IInv, TypeOK
    <2> QED
      BY <1>1, <1>4, <2>1, AuthGoto, Quiet
  <1> QED
    BY <1>2, <1>3, <1>4 DEF RegisterCheck, RegisterInsert, identity

LEMMA LoginKeeps ==
    ASSUME IInv, NEW r \in Requests, Login(r) \/ ClaimGuest(r) PROVE IInv'
  <1>1. req[r].kind \in AuthKinds /\ req[r].at # "done"
    BY DEF Login, ClaimGuest, At, AuthKinds
  <1>2. CASE Done(r, "error") /\ UNCHANGED <<identity, db>>
    BY <1>2, QuietRefusal
  <1>3. CASE Goto(r, "claim") /\ UNCHANGED <<identity, db>>
    BY <1>1, <1>3, AuthGoto, Quiet DEF IInv, TypeOK, identity
  <1> QED
    BY <1>2, <1>3 DEF Login, ClaimGuest

\* Only a guest's conversation changes hands, and no request of a user has
\* read that one as its own.
LEMMA ClaimKeeps == ASSUME IInv, NEW r \in Requests, Claim(r) PROVE IInv'
  <1>1. /\ req[r].kind \in AuthKinds /\ req[r].at # "done" /\ req[r].user \in Users
        /\ Goto(r, "respond")
    BY DEF Claim, IInv, RequestOK, Acting, AuthKinds
  <1>2. /\ req' \in [Requests -> HandlerState]
        /\ \A s \in Requests : s # r => req'[s] = req[s]
        /\ RequestOK(r)' /\ ~OpenChat(r)'
    BY <1>1, AuthGoto
  <1>3. CASE UNCHANGED row
    BY <1>2, <1>3, Quiet DEF Claim, IInv, TypeOK, identity, db
  <1>4. CASE row.owner = Guest /\ row' = [row EXCEPT !.owner = req[r].user]
    <2>1. /\ row' \in [owner : Users \cup {Guest, Nobody}, title : Titles, deleted : BOOLEAN]
          /\ row'.owner \in Users
      BY <1>1, <1>4 DEF IInv, TypeOK
    <2>2. row.owner \notin Users /\ NoRowNoTitle'
      BY <1>4, <2>1, PrincipalsAssumption DEF NoRowNoTitle
    <2>3. \A s \in Requests : ~At(s, "chat", "insert")
      BY <1>4, PrincipalsAssumption DEF IInv, ChatInv, InsertKnown, RequestOK, Acting, At
    <2> QED
      BY <1>2, <2>1, <2>2, <2>3, RowWrite DEF Claim
  <1> QED
    BY <1>3, <1>4 DEF Claim, TokenGuest

LEMMA RespondKeeps == ASSUME IInv, NEW r \in Requests, Respond(r) PROVE IInv'
  <1>1. req[r].kind \in AuthKinds /\ req[r].user \in Users
    BY DEF Respond, IInv, RequestOK, Acting, AuthKinds
  <1>2. /\ req' \in [Requests -> HandlerState]
        /\ \A s \in Requests : s # r => req'[s] = req[s]
        /\ req'[r].at = "done" /\ req'[r].kind = req[r].kind /\ req'[r].user = req[r].user
        /\ req'[r].reply = "ok"
    BY DoneOkReq DEF Respond, IInv
  <1>3. RequestOK(r)' /\ ~OpenChat(r)'
    BY <1>1, <1>2 DEF RequestOK, Acting, OwnerKnown, Unchecked, ReadSoFar, OpenChat, AuthKinds, Owned
  <1>4. accounts' \subseteq Users /\ cookie' \in [Browsers -> Users \cup {Nobody}]
    BY <1>1 DEF Respond, IInv, TypeOK
  <1> QED
    BY <1>2, <1>3, <1>4, Quiet DEF Respond

LEMMA LogoutKeeps == ASSUME IInv, NEW b \in Browsers, Logout(b) PROVE IInv'
  <1>1. UNCHANGED <<db, req>> /\ TypeOK'
    BY DEF Logout, IInv, TypeOK, db
  <1>2. \A r \in Requests : RequestOK(r)'
    BY <1>1 DEF IInv, RequestOK, Acting, OwnerKnown, Unchecked, ReadSoFar, At, db
  <1>3. ChatInv' /\ AnsweredTurns' /\ NoRowNoTitle'
    BY <1>1 DEF IInv, ChatInv, OneChat, OpenChat, InsertKnown, AnswerKnown, At, AnsweredTurns,
                NoRowNoTitle, db
  <1> QED
    BY <1>1, <1>2, <1>3 DEF IInv

LEMMA AbortKeeps == ASSUME IInv, NEW r \in Requests, Abort(r) PROVE IInv'
  <1>1. /\ req' \in [Requests -> HandlerState]
        /\ \A s \in Requests : s # r => req'[s] = req[s]
        /\ req'[r].at = "done" /\ req'[r].kind = "none" /\ req'[r].reply = "error"
    BY DoneRefusedReq DEF Abort, IInv
  <1>2. RequestOK(r)' /\ ~OpenChat(r)'
    BY <1>1, RefusedOK
  <1>3. TypeOK'
    BY <1>1 DEF IInv, TypeOK, Abort, identity
  <1>4. \A s \in Requests : RequestOK(s)'
    BY <1>1, <1>2, OtherKeeps DEF IInv, DbGrows, Abort
  <1>5. OneChat'
    BY <1>1, <1>2 DEF IInv, ChatInv, OneChat, OpenChat
  <1>6. ASSUME NEW s \in Requests PROVE InsertKnown(s)' /\ AnswerKnown(s)'
    <2>1. CASE s = r
      BY <1>2, <2>1 DEF InsertKnown, AnswerKnown, OpenChat, At
    <2>2. CASE s # r
      BY <1>1, <2>2 DEF IInv, ChatInv, InsertKnown, AnswerKnown, At, Abort
    <2> QED
      BY <2>1, <2>2
  <1> QED
    BY <1>3, <1>4, <1>5, <1>6 DEF IInv, ChatInv, AnsweredTurns, NoRowNoTitle, Abort

-----------------------------------------------------------------------------
LEMMA IInvInit == Init => IInv
  <1> SUFFICES ASSUME Init PROVE IInv
    OBVIOUS
  <1> DEFINE u == [turn |-> 1, role |-> "user", cited |-> FALSE]
             a == [turn |-> 1, role |-> "assistant", cited |-> TRUE]
             NoRow == [owner |-> Nobody, title |-> "", deleted |-> FALSE]
             GuestRow == [owner |-> Guest, title |-> "default", deleted |-> FALSE]
  <1>0. /\ req = [r \in Requests |-> Idle] /\ rowLock = Nobody
        /\ row = NoRow \/ row = GuestRow
        /\ (msgs = <<>> /\ turns = <<>>) \/ (msgs = <<u, a>> /\ turns = <<TRUE>>)
        /\ turnIds = <<>> \/ \E t \in TurnIds : turnIds = <<t>>
    BY DEF Init
  <1>1. req \in [Requests -> HandlerState]
    BY <1>0, IdleType
  <1>2. \A r \in Requests : req[r].kind = "none" /\ req[r].at = "idle" /\ req[r].reply = "none"
    BY <1>0 DEF Idle
  <1>3. msgs \in Seq(Message) /\ turns \in Seq(BOOLEAN) /\ AnsweredTurns
    <2>1. CASE msgs = <<>> /\ turns = <<>>
      <3>1. msgs \in Seq(Message) /\ turns \in Seq(BOOLEAN) /\ DOMAIN msgs = {}
        BY <2>1, EmptySeq
      <3> QED
        BY <3>1 DEF AnsweredTurns
    <2>2. CASE msgs = <<u, a>> /\ turns = <<TRUE>>
      <3>1. 1 \in 1..MaxTurns
        BY TurnsAssumption
      <3>2. u \in Message /\ a \in Message
        BY <3>1, Zenon DEF Message
      <3>3. u.turn = 1 /\ a.turn = 1
        OBVIOUS
      <3> HIDE DEF u, a
      <3>4. msgs \in Seq(Message) /\ DOMAIN msgs = {1, 2} /\ msgs[1] = u /\ msgs[2] = a
        BY <2>2, <3>2
      <3>5. turns \in Seq(BOOLEAN) /\ DOMAIN turns = {1} /\ turns[1] = TRUE
        BY <2>2
      <3> QED
        BY <3>3, <3>4, <3>5 DEF AnsweredTurns
    <2> QED
      BY <1>0, <2>1, <2>2
  <1>4. /\ row \in [owner : Users \cup {Guest, Nobody}, title : Titles, deleted : BOOLEAN]
        /\ NoRowNoTitle
    <2>1. CASE row = NoRow
      <3>1. NoRow \in [owner : Users \cup {Guest, Nobody}, title : Titles, deleted : BOOLEAN]
            /\ NoRow.title = ""
        BY DEF Titles, Untitled
      <3> QED
        BY <2>1, <3>1 DEF NoRowNoTitle
    <2>2. CASE row = GuestRow
      <3>1. GuestRow \in [owner : Users \cup {Guest, Nobody}, title : Titles, deleted : BOOLEAN]
            /\ GuestRow.owner = Guest
        BY DEF Titles, Untitled
      <3> QED
        BY <2>2, <3>1, PrincipalsAssumption DEF NoRowNoTitle
    <2> QED
      BY <1>0, <2>1, <2>2
  <1>5. accounts \subseteq Users /\ cookie \in [Browsers -> Users \cup {Nobody}]
    <2>1. accounts \subseteq Users /\ cookie \in [Browsers -> accounts \cup {Nobody}]
      BY DEF Init
    <2> QED
      BY <2>1
  <1>6. TypeOK
    <2>1. <<>> \in Seq(TurnIds) /\ \A t \in TurnIds : <<t>> \in Seq(TurnIds)
      BY EmptySeq
    <2>2. turnIds \in Seq(TurnIds)
      BY <1>0, <2>1
    <2> QED
      BY <1>0, <1>1, <1>3, <1>4, <1>5, <2>2 DEF TypeOK
  <1>7. \A r \in Requests : RequestOK(r)
    BY <1>2 DEF RequestOK, Acting, OwnerKnown, Unchecked, ReadSoFar, Owned
  <1>8. ChatInv
    BY <1>2 DEF ChatInv, OneChat, OpenChat, InsertKnown, AnswerKnown, At
  <1> QED
    BY <1>3, <1>4, <1>6, <1>7, <1>8 DEF IInv

\* Every statement of every handler keeps the invariant.
LEMMA IInvNext == IInv /\ [Next]_vars => IInv'
  <1> SUFFICES ASSUME IInv, [Next]_vars PROVE IInv'
    OBVIOUS
  <1>1. ASSUME NEW r \in Requests, NEW b \in Browsers,
               \/ \E k \in {"list", "detail", "rename", "title", "delete", "claim_guest"} :
                     StartOwned(r, b, k)
               \/ \E t \in TurnIds : StartChat(r, b, t)
        PROVE IInv'
    <2>1. TokenUser(b) \in Users
      BY <1>1 DEF StartOwned, StartChat, IsUser, TokenUser, IInv, TypeOK
    <2> QED
      BY <1>1, <2>1, StartKeeps DEF StartOwned, StartChat, Kinds
  <1>2. ASSUME NEW r \in Requests, NEW b \in Browsers, NEW u \in Users,
               NEW k \in {"register", "login"}, StartAuth(r, b, u, k)
        PROVE IInv'
    BY <1>2, StartKeeps DEF StartAuth, Kinds
  <1>3. ASSUME NEW r \in Requests,
               \/ List(r) \/ DetailConversation(r) \/ DetailMessages(r) \/ DetailSnapshots(r)
               \/ DetailCitations(r) \/ Delete(r) \/ TitleConversation(r) \/ TitleMessage(r)
               \/ TitleUpdate(r)
        PROVE IInv'
    BY <1>3, ListKeeps, DetailConversationKeeps, DetailMessagesKeeps, DetailSnapshotsKeeps,
       DetailCitationsKeeps, DeleteKeeps, TitleConversationKeeps, TitleMessageKeeps,
       TitleUpdateKeeps
  <1>4. ASSUME NEW r \in Requests, NEW t \in {"chosen", ""}, Rename(r, t) PROVE IInv'
    BY <1>4, RenameKeeps
  <1>5. ASSUME NEW r \in Requests,
               FindTurn(r) \/ LockedFindTurn(r) \/ Begin(r) \/ BeginCommit(r) \/ Persist(r)
        PROVE IInv'
    BY <1>5, FindTurnKeeps, LockedFindTurnKeeps, BeginKeeps, BeginCommitKeeps, PersistKeeps
  <1>6. ASSUME NEW r \in Requests,
               \/ RegisterCheck(r) \/ RegisterInsert(r) \/ Login(r) \/ ClaimGuest(r)
               \/ Claim(r) \/ Respond(r) \/ Abort(r)
        PROVE IInv'
    BY <1>6, RegisterKeeps, LoginKeeps, ClaimKeeps, RespondKeeps, AbortKeeps
  <1>7. ASSUME NEW b \in Browsers, Logout(b) PROVE IInv'
    BY <1>7, LogoutKeeps
  <1>8. CASE UNCHANGED vars
    <2>1. TypeOK' /\ AnsweredTurns' /\ NoRowNoTitle'
      BY <1>8 DEF vars, IInv, TypeOK, AnsweredTurns, NoRowNoTitle
    <2>2. \A r \in Requests : RequestOK(r)'
      BY <1>8 DEF vars, IInv, RequestOK, Acting, OwnerKnown, Unchecked, ReadSoFar, At
    <2>3. ChatInv'
      BY <1>8 DEF vars, IInv, ChatInv, OneChat, OpenChat, InsertKnown, AnswerKnown, At
    <2> QED
      BY <2>1, <2>2, <2>3 DEF IInv
  <1> QED
    BY <1>1, <1>2, <1>3, <1>4, <1>5, <1>6, <1>7, <1>8 DEF Next

\* In every behaviour of the routes, whatever interleaves, is aborted or
\* outlives its cookie, the inductive invariant holds.
THEOREM Invariance == Spec => []IInv
  BY IInvInit, IInvNext, PTL DEF Spec

\* Every table and every handler's locals keep their types.
THEOREM TypeCorrect == Spec => []TypeOK
  BY Invariance, PTL DEF IInv

\* get_conversation_detail returns no assistant message without its turn's
\* snapshot or its citations: messages are read first, and what is committed
\* with a message stays committed.
THEOREM HistoryCorrect == Spec => []HistoryIsWhole
  <1>1. IInv => HistoryIsWhole
    BY DEF IInv, RequestOK, Acting, ReadSoFar, HistoryIsWhole
  <1> QED
    BY <1>1, Invariance, PTL

\* What a request learned of the conversation, or did to it, stays within its
\* owner: a conversation never passes from one user to another.  The exception is
\* the one that OwnerIsolation names: a replay by the lookup under the lock, of a
\* conversation that was created after the request first looked for it.
THEOREM OwnerCorrect == Spec => []OwnerIsolation
  <1>1. IInv => OwnerIsolation
    BY DEF IInv, RequestOK, Acting, OwnerKnown, Unchecked, OwnerIsolation, Owned, At
  <1> QED
    BY <1>1, Invariance, PTL

\* The title a user chose survives a turn that decided on an older title: the
\* decision is made on a row that is locked, or on none.
THEOREM RenameCorrect == Spec => RenameSurvives
  <1> DEFINE Kept == row.title = "chosen" => row'.title # "initial"
  <1>1. IInv /\ [Next]_vars => [Kept]_vars
    <2> SUFFICES ASSUME IInv, Next PROVE Kept
      OBVIOUS
    <2>1. ASSUME NEW r \in Requests, BeginCommit(r) PROVE Kept
      <3>1. CASE row.owner = Nobody
        BY <3>1 DEF IInv, NoRowNoTitle
      <3>2. CASE row.owner # Nobody
        <4>1. req[r].title = row.title
          BY <2>1, <3>2 DEF IInv, ChatInv, InsertKnown, BeginCommit
        <4> QED
          BY <2>1, <3>2, <4>1 DEF BeginCommit, Untitled, IInv, TypeOK
      <3> QED
        BY <3>1, <3>2
    <2>2. ASSUME NEW r \in Requests, NEW t \in {"chosen", ""}, Rename(r, t) PROVE Kept
      BY <2>2 DEF Rename, IInv, TypeOK
    <2>3. ASSUME NEW r \in Requests, Delete(r) \/ TitleUpdate(r) \/ Claim(r) PROVE Kept
      BY <2>3 DEF Delete, TitleUpdate, Claim, IInv, TypeOK
    <2>4. ASSUME UNCHANGED row PROVE Kept
      BY <2>4
    <2>5. ASSUME NEW r \in Requests,
                 \/ \E b \in Browsers :
                      \/ \E k \in {"list", "detail", "rename", "title", "delete",
                                   "claim_guest"} : StartOwned(r, b, k)
                      \/ \E t \in TurnIds : StartChat(r, b, t)
                      \/ \E u \in Users, k \in {"register", "login"} : StartAuth(r, b, u, k)
                 \/ List(r) \/ DetailConversation(r) \/ DetailMessages(r) \/ DetailSnapshots(r)
                 \/ DetailCitations(r) \/ TitleConversation(r) \/ TitleMessage(r) \/ FindTurn(r)
                 \/ LockedFindTurn(r) \/ Begin(r)
                 \/ Persist(r) \/ RegisterCheck(r) \/ RegisterInsert(r) \/ Login(r)
                 \/ ClaimGuest(r) \/ Respond(r) \/ Abort(r)
          PROVE UNCHANGED row
      BY <2>5 DEF StartOwned, StartChat, StartAuth, Start, FindTurn, LockedFindTurn, List, DetailConversation, DetailMessages,
                  DetailSnapshots, DetailCitations, TitleConversation, TitleMessage, Begin,
                  Persist, RegisterCheck, RegisterInsert, Login, ClaimGuest, Respond, Abort, db
    <2>6. ASSUME NEW b \in Browsers, Logout(b) PROVE UNCHANGED row
      BY <2>6 DEF Logout, db
    <2> QED
      BY <2>1, <2>2, <2>3, <2>4, <2>5, <2>6 DEF Next
  <1> QED
    BY <1>1, Invariance, PTL DEF Spec, RenameSurvives
=============================================================================
