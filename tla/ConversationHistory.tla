------------------------ MODULE ConversationHistory ------------------------
(* One conversation between its turns, the history routes and the accounts   *)
(* (api/routes/conversations.py, api/routes/auth.py, the management methods  *)
(* of persistence/repository.py).  PostgreSQL runs at READ COMMITTED: every  *)
(* statement sees what is committed when it starts, a transaction's writes   *)
(* appear together, and an updated or FOR UPDATE row is locked until commit. *)
(* An action is one statement, or the rest of a transaction.  That two turns *)
(* of a conversation never overlap is ConversationTurn's LockSafety.         *)
EXTENDS Naturals, Sequences

CONSTANTS
    Requests,  \* HTTP requests
    Browsers,  \* cookie jars
    Users,     \* usernames, and the ids of their users rows
    Guest,     \* an anonymous principal from before login was required
    GuestBrowser, \* the cookie jar that still holds Guest's signed cookie
    Nobody,    \* no user, no owner, no lock holder, no turn id
    TurnIds,   \* client_turn_ids: any client may name any of them
    MaxTurns   \* bound: turns of the conversation

ASSUME PrincipalsAssumption ==
    /\ Guest \notin Users
    /\ Nobody \notin Users \cup {Guest}
    /\ Nobody \notin Requests
    /\ TurnIds # {}
    /\ GuestBrowser \in Browsers
ASSUME TurnsAssumption == MaxTurns \in Nat \ {0}

VARIABLES
    cookie,    \* [Browsers -> Users \cup {Nobody}]: the user a valid token names
    accounts,  \* the registered users
    row,       \* conversations: owner (Nobody: no row), title, is_deleted
    rowLock,   \* the request whose open transaction locks the row
    turns,     \* conversation_turns: does it have its response_snapshot?
    turnIds,   \* ... and its client_turn_id
    msgs,      \* messages by ordinal, with the citations of each
    req        \* [Requests -> locals of the handler]

vars == <<cookie, accounts, row, rowLock, turns, turnIds, msgs, req>>

\* A title is the migration's default, blank, the beginning of a message
\* ("initial"), derive_title of the first one ("derived") or the user's own.
Untitled == {"default", ""}
Titles == Untitled \cup {"initial", "derived", "chosen"}
Message == [turn : 1..MaxTurns, role : {"user", "assistant"}, cited : BOOLEAN]

Idle == [kind |-> "none", at |-> "idle", reply |-> "none", user |-> Nobody, browser |-> Nobody,
         turnId |-> Nobody, absent |-> FALSE, title |-> "", msgs |-> <<>>, snaps |-> {}, cites |-> {}]

\* There is no conversation yet, or one a guest had.
Init ==
    /\ accounts \in SUBSET Users
    /\ cookie \in [Browsers -> accounts \cup {Nobody}]
    /\ rowLock = Nobody
    /\ req = [r \in Requests |-> Idle]
    /\ \/ row = [owner |-> Nobody, title |-> "", deleted |-> FALSE]
          /\ turns = <<>> /\ turnIds = <<>> /\ msgs = <<>>
       \/ /\ row = [owner |-> Guest, title |-> "default", deleted |-> FALSE]
          /\ turns = <<TRUE>>
          /\ turnIds \in {<<t>> : t \in TurnIds}
          /\ msgs = <<[turn |-> 1, role |-> "user", cited |-> FALSE],
                      [turn |-> 1, role |-> "assistant", cited |-> TRUE]>>

db == <<row, rowLock, turns, turnIds, msgs>>
identity == <<cookie, accounts>>

At(r, kind, label) == req[r].kind = kind /\ req[r].at = label
Goto(r, label) == req' = [req EXCEPT ![r].at = label]
\* Of a request that did nothing, only the answer is left.
Done(r, reply) ==
    req' = [req EXCEPT ![r] = IF reply = "ok"
                              THEN [@ EXCEPT !.at = "done", !.reply = reply,
                                             !.browser = Nobody, !.title = "",
                                             !.turnId = Nobody, !.absent = FALSE]
                              ELSE [Idle EXCEPT !.at = "done", !.reply = reply]]
\* parse_user_token: the user that the browser's cookie names while it is valid
TokenUser(b) == cookie[b]
\* parse: the guest that it names
TokenGuest(b) == IF b = GuestBrowser THEN Guest ELSE Nobody

\* require_user_owner: a history or chat request without a valid token is
\* answered 401 and does nothing more.
IsUser(b) == TokenUser(b) # Nobody

Start(r, b, u, kind, t) ==
    /\ req[r] = Idle
    /\ req' = [req EXCEPT ![r] = [Idle EXCEPT !.kind = kind, !.at = "first",
                                               !.user = u, !.browser = b, !.turnId = t]]
    /\ UNCHANGED <<identity, db>>

\* The routes: each requires a user, calls one method of the repository and
\* answers 404 if that found nothing.
StartOwned(r, b, kind) == IsUser(b) /\ Start(r, b, TokenUser(b), kind, Nobody)

\* POST /chat, with the client_turn_id the client chose
StartChat(r, b, t) == IsUser(b) /\ Start(r, b, TokenUser(b), "chat", t)

\* Who the request acts for owns the row (the WHERE clauses on the owner) ...
Owns(r) == row.owner = req[r].user
\* ... and it is not deleted.
Shows(r) == Owns(r) /\ ~row.deleted
\* An UPDATE or FOR UPDATE of the row waits for a transaction that locks it.
RowFree(r) == Owns(r) => rowLock = Nobody

-----------------------------------------------------------------------------
(* History.                                                                *)

\* list_conversations
List(r) ==
    /\ At(r, "list", "first")
    /\ Done(r, IF Shows(r) THEN "ok" ELSE "not_found")
    /\ UNCHANGED <<identity, db>>

\* get_conversation_detail, statement by statement on one connection
DetailConversation(r) ==
    /\ At(r, "detail", "first")
    /\ IF Shows(r) THEN Goto(r, "messages") ELSE Done(r, "not_found")
    /\ UNCHANGED <<identity, db>>

DetailMessages(r) ==
    /\ At(r, "detail", "messages")
    /\ req' = [req EXCEPT ![r].at = "snapshots", ![r].msgs = msgs]
    /\ UNCHANGED <<identity, db>>

DetailSnapshots(r) ==
    /\ At(r, "detail", "snapshots")
    /\ req' = [req EXCEPT ![r].at = "citations",
                          ![r].snaps = {n \in DOMAIN turns : turns[n]}]
    /\ UNCHANGED <<identity, db>>

\* Mutant: the messages are read last.
DetailMessagesLast(r) ==
    /\ At(r, "detail", "citations")
    /\ req' = [req EXCEPT ![r].at = "done", ![r].reply = "ok", ![r].browser = Nobody, ![r].msgs = msgs,
                          ![r].cites = {i \in DOMAIN msgs : msgs[i].cited}]
    /\ UNCHANGED <<identity, db>>

DetailCitations(r) ==
    /\ At(r, "detail", "citations")
    /\ req' = [req EXCEPT ![r].at = "done", ![r].reply = "ok", ![r].browser = Nobody,
                          ![r].cites = {i \in DOMAIN msgs : msgs[i].cited}]
    /\ UNCHANGED <<identity, db>>

\* patch_conversation_title: one UPDATE; strip() may leave nothing
Rename(r, title) ==
    /\ At(r, "rename", "first") /\ RowFree(r)
    /\ row' = IF Owns(r) THEN [row EXCEPT !.title = title] ELSE row
    /\ Done(r, IF Owns(r) THEN "ok" ELSE "not_found")
    /\ UNCHANGED <<identity, rowLock, turns, turnIds, msgs>>

\* delete_conversation: one UPDATE, also of a row already deleted
Delete(r) ==
    /\ At(r, "delete", "first") /\ RowFree(r)
    /\ row' = IF Owns(r) THEN [row EXCEPT !.deleted = TRUE] ELSE row
    /\ Done(r, IF Owns(r) THEN "ok" ELSE "not_found")
    /\ UNCHANGED <<identity, rowLock, turns, turnIds, msgs>>

\* generate_conversation_title: two SELECTs that lock nothing, then an UPDATE
\* by id alone
TitleConversation(r) ==
    /\ At(r, "title", "first")
    /\ IF Shows(r) THEN Goto(r, "message") ELSE Done(r, "not_found")
    /\ UNCHANGED <<identity, db>>

TitleMessage(r) ==
    /\ At(r, "title", "message")
    /\ IF \E i \in DOMAIN msgs : msgs[i].role = "user"
       THEN Goto(r, "update") ELSE Done(r, "not_found")
    /\ UNCHANGED <<identity, db>>

TitleUpdate(r) ==
    /\ At(r, "title", "update") /\ rowLock = Nobody
    /\ row' = [row EXCEPT !.title = "derived"]
    /\ Done(r, "ok")
    /\ UNCHANGED <<identity, rowLock, turns, turnIds, msgs>>

-----------------------------------------------------------------------------
(* Chat: the two transactions of a turn (ConversationTurn has the rest).   *)

\* The request holds the conversation's advisory lock.
OpenChat(r) == req[r].kind = "chat" /\ req[r].at \in {"begin", "insert", "answer"}

\* The conversation has a turn of this client_turn_id.
Known(t) == \E n \in DOMAIN turnIds : turnIds[n] = t

\* store.find_turn_by_client_id: another owner's conversation is not found, a
\* known turn is replayed; no conversation is as good as no turn.
FindTurn(r) ==
    /\ At(r, "chat", "first")
    /\ \/ row.owner \notin {Nobody, req[r].user} /\ Done(r, "not_found")
       \/ Owns(r) /\ Known(req[r].turnId) /\ Done(r, "ok")
       \/ /\ row.owner = Nobody \/ (Owns(r) /\ ~Known(req[r].turnId))
          /\ req' = [req EXCEPT ![r].at = "lock", ![r].absent = (row.owner = Nobody)]
    /\ UNCHANGED <<identity, db>>

\* locked_turn and LockedTurn.find_turn_by_client_id: the same lookup under the
\* lock names the conversation and the turn only, not the owner.
LockedFindTurn(r) ==
    /\ At(r, "chat", "lock")
    /\ \A s \in Requests : ~OpenChat(s)
    /\ req' = [req EXCEPT ![r] =
          IF Known(@.turnId)
          THEN [@ EXCEPT !.at = "done", !.reply = "replayed", !.browser = Nobody,
                         !.turnId = Nobody]
          ELSE [@ EXCEPT !.at = "begin"]]
    /\ UNCHANGED <<identity, db>>

\* Mutant: the conversation is read without FOR UPDATE.
BeginUnlocked(r) ==
    /\ At(r, "chat", "begin")
    /\ Len(turns) < MaxTurns
    /\ row.owner \in {Nobody, req[r].user}
    /\ req' = [req EXCEPT ![r].at = "insert", ![r].title = row.title]
    /\ UNCHANGED <<identity, db>>

\* begin_turn_and_load_context: the row is read FOR UPDATE; a deleted
\* conversation goes on, another owner's is not found.
Begin(r) ==
    /\ At(r, "chat", "begin")
    /\ Len(turns) < MaxTurns
    /\ RowFree(r)
    /\ \/ /\ row.owner \notin {Nobody, req[r].user}
          /\ Done(r, "not_found")
          /\ UNCHANGED rowLock
       \/ /\ row.owner \in {Nobody, req[r].user}
          /\ req' = [req EXCEPT ![r].at = "insert", ![r].title = row.title]
          /\ rowLock' = IF row.owner = Nobody THEN Nobody ELSE r
    /\ UNCHANGED <<identity, row, turns, turnIds, msgs>>

\* The rest of that transaction: the row is inserted, or its title filled in if
\* it had none, and the turn and its user message appear.
BeginCommit(r) ==
    /\ At(r, "chat", "insert")
    /\ row' = IF row.owner = Nobody
              THEN [owner |-> req[r].user, title |-> "initial", deleted |-> FALSE]
              ELSE [row EXCEPT !.title = IF req[r].title \in Untitled THEN "initial" ELSE @]
    /\ turns' = Append(turns, FALSE)
    /\ turnIds' = Append(turnIds, req[r].turnId)
    /\ msgs' = Append(msgs, [turn |-> Len(turns) + 1, role |-> "user", cited |-> FALSE])
    /\ rowLock' = Nobody
    /\ Goto(r, "answer")
    /\ UNCHANGED identity

\* persist_clarification, persist_grounded_answer and mark_turn_failed: message,
\* citations and snapshot in one transaction; a failure writes no message.
Persist(r) ==
    /\ At(r, "chat", "answer")
    /\ turns' = [turns EXCEPT ![Len(turns)] = TRUE]
    /\ \/ \E cited \in BOOLEAN :
             msgs' = Append(msgs, [turn |-> Len(turns), role |-> "assistant", cited |-> cited])
       \/ UNCHANGED msgs
    /\ Done(r, "ok")
    /\ UNCHANGED <<identity, row, rowLock, turnIds>>

-----------------------------------------------------------------------------
(* Accounts.                                                               *)

StartAuth(r, b, u, kind) == Start(r, b, u, kind, Nobody)

\* register: the username is looked up ...
RegisterCheck(r) ==
    /\ At(r, "register", "first")
    /\ IF req[r].user \in accounts THEN Done(r, "error") ELSE Goto(r, "insert")
    /\ UNCHANGED <<identity, db>>

\* ... then inserted; the unique index refuses the second of two that raced.
RegisterInsert(r) ==
    /\ At(r, "register", "insert")
    /\ \/ req[r].user \in accounts /\ Done(r, "error") /\ UNCHANGED accounts
       \/ /\ req[r].user \notin accounts
          /\ accounts' = accounts \cup {req[r].user}
          /\ Goto(r, "claim")
    /\ UNCHANGED <<cookie, db>>

\* login: no account, or not its password, is an error
Login(r) ==
    /\ At(r, "login", "first")
    /\ \/ Done(r, "error")
       \/ req[r].user \in accounts /\ Goto(r, "claim")
    /\ UNCHANGED <<identity, db>>

\* claim_guest (its user is checked as by StartOwned)
ClaimGuest(r) ==
    /\ At(r, "claim_guest", "first")
    /\ Goto(r, "claim")
    /\ UNCHANGED <<identity, db>>

\* Mutant: every conversation is claimed, not only the guest's.
ClaimAll(r) ==
    /\ req[r].at = "claim"
    /\ row' = [row EXCEPT !.owner = IF @ = Nobody THEN @ ELSE req[r].user]
    /\ Goto(r, "respond")
    /\ UNCHANGED <<identity, rowLock, turns, turnIds, msgs>>

\* claim_guest_conversations: one UPDATE of the rows the browser's guest owns,
\* if its cookie is still valid
Claim(r) ==
    /\ req[r].at = "claim"
    /\ \/ UNCHANGED row
       \/ /\ row.owner = TokenGuest(req[r].browser) /\ row.owner # Nobody
          /\ row' = [row EXCEPT !.owner = req[r].user]
    /\ Goto(r, "respond")
    /\ UNCHANGED <<identity, rowLock, turns, turnIds, msgs>>

\* The response of register and login sets the browser's user cookie.
Respond(r) ==
    /\ req[r].at = "respond"
    /\ cookie' = IF req[r].kind = "claim_guest" THEN cookie
                 ELSE [cookie EXCEPT ![req[r].browser] = req[r].user]
    /\ Done(r, "ok")
    /\ UNCHANGED <<accounts, db>>

\* logout; a token older than its TTL is worth as little
Logout(b) ==
    /\ IsUser(b)
    /\ cookie' = [cookie EXCEPT ![b] = Nobody]
    /\ UNCHANGED <<accounts, db, req>>

-----------------------------------------------------------------------------
\* The client disconnects or a statement fails: an open transaction is rolled
\* back, what was committed stays.
Abort(r) ==
    /\ req[r].at \notin {"idle", "done"}
    /\ Done(r, "error")
    /\ rowLock' = IF rowLock = r THEN Nobody ELSE rowLock
    /\ UNCHANGED <<identity, row, turns, turnIds, msgs>>

Next ==
    \/ \E r \in Requests :
          \/ \E b \in Browsers :
                \/ \E k \in {"list", "detail", "rename", "title", "delete", "claim_guest"} :
                      StartOwned(r, b, k)
                \/ \E t \in TurnIds : StartChat(r, b, t)
                \/ \E u \in Users, k \in {"register", "login"} : StartAuth(r, b, u, k)
          \/ List(r)
          \/ DetailConversation(r) \/ DetailMessages(r) \/ DetailSnapshots(r) \/ DetailCitations(r)
          \/ \E title \in {"chosen", ""} : Rename(r, title)
          \/ Delete(r)
          \/ TitleConversation(r) \/ TitleMessage(r) \/ TitleUpdate(r)
          \/ FindTurn(r) \/ LockedFindTurn(r) \/ Begin(r) \/ BeginCommit(r) \/ Persist(r)
          \/ RegisterCheck(r) \/ RegisterInsert(r)
          \/ Login(r) \/ ClaimGuest(r) \/ Claim(r) \/ Respond(r)
          \/ Abort(r)
    \/ \E b \in Browsers : Logout(b)

Spec == Init /\ [][Next]_vars

-----------------------------------------------------------------------------
(* Properties.                                                             *)

\* An assistant message that get_conversation_detail returns comes with the
\* snapshot of its turn and with its citations, although the three are read by
\* separate statements while a turn commits.
HistoryIsWhole ==
    \A r \in Requests : req[r].kind = "detail" /\ req[r].reply = "ok" =>
        \A i \in DOMAIN req[r].msgs :
            LET message == req[r].msgs[i] IN
            /\ message.role = "assistant" => message.turn \in req[r].snaps
            /\ message.cited => i \in req[r].cites

\* The title the user gave is never replaced by the beginning of a message,
\* although a turn decides on the title it has read before it writes.
RenameSurvives == [][row.title = "chosen" => row'.title # "initial"]_vars

\* Whatever a request was told about the conversation, or did to it, it was the
\* owner's: over logins in a shared browser, claims and requests that outlive
\* their cookie, a conversation never passes from one user to another.  The one
\* answer that may be another owner's is a replay by the lookup under the lock,
\* which does not ask for the owner: of a turn that has the client_turn_id of the
\* request, in a conversation that did not exist when the request first looked.
OwnerIsolation ==
    \A r \in Requests :
        /\ /\ req[r].reply = "ok"
           /\ req[r].kind \in {"list", "detail", "rename", "title", "delete", "chat"}
           => row.owner = req[r].user
        /\ req[r].reply = "replayed" => row.owner = req[r].user \/ req[r].absent
=============================================================================
