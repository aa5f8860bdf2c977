-------------------------- MODULE ConversationTurn --------------------------
(***************************************************************************)
(* POST /chat: concurrent requests on persistent conversations             *)
(* (apps/backend/conversation/service.py, persistence/repository.py,       *)
(* persistence/lock.py, api/routes/chat.py).                               *)
(*                                                                         *)
(* A request first looks its client_turn_id up without a lock, then takes  *)
(* one pooled connection and, on it, the session-level advisory lock of    *)
(* the conversation, looks the id up again, commits the begin-turn         *)
(* transaction, runs the resolver, the rewriter, the query processor,      *)
(* retrieval and generation with no transaction open, commits the final    *)
(* transaction, and unlocks.  Every SQL transaction is one action.  What   *)
(* the downstream stages compute is abstracted to which branch the service *)
(* takes; the response snapshot is identified by the request that built it *)
(* and by its status.                                                      *)
(***************************************************************************)
EXTENDS Naturals, Sequences, FiniteSets

CONSTANTS
    Req,       \* HTTP requests; a retry is another request with the same id
    Conv,      \* conversation ids
    Turn,      \* client_turn_id values
    Owner,     \* authenticated principals
    PoolSize,  \* connections of the engine's pool (max_overflow = 0)
    Faults,    \* the faults of the environment: "cancel", "error", "crash"
    NoReq, NoOwner, NoTurn

ASSUME ReqAssumption == IsFiniteSet(Req)
ASSUME PoolAssumption == PoolSize \in Nat \ {0}
ASSUME FaultsAssumption == Faults \subseteq {"cancel", "error", "crash"}
ASSUME NoneAssumption ==
    NoReq \notin Req /\ NoOwner \notin Owner /\ NoTurn \notin Turn

VARIABLES
    pc,        \* [Req -> PcStates]: where the request's coroutine is
    conv, cid, owner,  \* [Req -> ...]: the request's body and principal
    plan,      \* [Req -> Statuses]: the terminal status about to be persisted
    reply,     \* [Req -> Replies]: what the request returns
    conns,     \* the requests that hold a pooled connection
    lock,      \* [Conv -> Req \cup {NoReq}]: session holding the advisory lock
    convOwner, \* [Conv -> Owner \cup {NoOwner}]: conversations row, if any
    nextNo,    \* [Conv -> Nat]: conversations.next_user_turn_no
    turns,     \* [Conv -> [Turn -> TurnRecord]]: turns rows
    msgs,      \* [Conv -> Seq(Message)]: messages rows by ordinal
    calls      \* [Conv -> [Turn -> Nat]]: generate() calls made (history)

request == <<conv, cid, owner>>
db == <<convOwner, nextNo, turns, msgs>>
vars == <<pc, conv, cid, owner, plan, reply, conns, lock, convOwner, nextNo, turns, msgs, calls>>

Terminal == {"COMPLETED", "CANNOT_ANSWER", "NEEDS_CLARIFICATION", "FAILED"}
Statuses == {"ABSENT", "PROCESSING"} \cup Terminal

\* The stages between the begin-turn commit and the final transaction.
Downstream == {"resolve", "rewrite", "process", "retrieve", "generate"}
\* Coroutine positions at which the request holds the advisory lock.
Locked == {"recheck", "begin", "persist", "unlock"} \cup Downstream
\* ... and at which its turn is begun but not finished.
Open == Downstream \cup {"persist"}
Live == {"precheck", "connect", "lock"} \cup Locked
PcStates == {"idle", "done"} \cup Live

TurnRecord == [no : Nat, status : Statuses, starter : Req \cup {NoReq},
               snap : Req \cup {NoReq}]
Message == [turn : Turn, role : {"USER", "ASSISTANT"}]
Snapshot(s, r) == [kind |-> "snapshot", status |-> s, by |-> r]
Signal(k) == [kind |-> k, status |-> "ABSENT", by |-> NoReq]
Signals == {"none", "processing", "busy", "not_found", "error", "lost"}
Replies == {Snapshot(s, r) : s \in Terminal, r \in Req}
           \cup {Signal(k) : k \in Signals}

\* The turn row a request is about.
Row(r) == turns[conv[r]][cid[r]]

Init ==
    /\ pc = [r \in Req |-> "idle"]
    /\ conv \in [Req -> Conv]
    /\ cid \in [Req -> Turn]
    /\ owner \in [Req -> Owner]
    /\ plan = [r \in Req |-> "ABSENT"]
    /\ reply = [r \in Req |-> Signal("none")]
    /\ conns = {}
    /\ lock = [c \in Conv |-> NoReq]
    /\ convOwner = [c \in Conv |-> NoOwner]
    /\ nextNo = [c \in Conv |-> 1]
    /\ turns = [c \in Conv |-> [t \in Turn |->
          [no |-> 0, status |-> "ABSENT", starter |-> NoReq, snap |-> NoReq]]]
    /\ msgs = [c \in Conv |-> <<>>]
    /\ calls = [c \in Conv |-> [t \in Turn |-> 0]]

-----------------------------------------------------------------------------
\* Mutant: the connection is not closed.
FinishKeepsConnection(r, x) ==
    /\ pc' = [pc EXCEPT ![r] = "done"]
    /\ reply' = [reply EXCEPT ![r] = x]
    /\ lock' = [c \in Conv |-> IF lock[c] = r THEN NoReq ELSE lock[c]]
    /\ UNCHANGED conns

\* Leaving a request: the coroutine ends with x; locked_turn's two finally
\* blocks unlock (if this session holds the lock) and close the connection.
Finish(r, x) ==
    /\ pc' = [pc EXCEPT ![r] = "done"]
    /\ reply' = [reply EXCEPT ![r] = x]
    /\ conns' = conns \ {r}
    /\ lock' = [c \in Conv |-> IF lock[c] = r THEN NoReq ELSE lock[c]]

Goto(r, l) == pc' = [pc EXCEPT ![r] = l]

\* _load_owned_conversation: absent, owned, or ConversationNotFoundError.
NotOwned(r) == convOwner[conv[r]] \notin {NoOwner, owner[r]}

\* _replay_snapshot of the row: "still processing", the stored snapshot, or
\* ConversationStoreError for a terminal row that has none.
ReplaySnapshot(r) ==
    IF Row(r).status = "PROCESSING" THEN Signal("processing")
    ELSE IF Row(r).snap = NoReq THEN Signal("error")
    ELSE Snapshot(Row(r).status, Row(r).snap)

\* The request reaches the handler.
Send(r) ==
    /\ pc[r] = "idle"
    /\ Goto(r, "precheck")
    /\ UNCHANGED <<request, plan, reply, conns, lock, db, calls>>

\* store.find_turn_by_client_id: one connection for one owner-scoped read.
PreCheck(r) ==
    /\ pc[r] = "precheck"
    /\ Cardinality(conns) < PoolSize
    /\ IF NotOwned(r) THEN Finish(r, Signal("not_found"))
       ELSE IF Row(r).status # "ABSENT" THEN Finish(r, ReplaySnapshot(r))
       ELSE Goto(r, "connect") /\ UNCHANGED <<reply, conns, lock>>
    /\ UNCHANGED <<request, plan, db, calls>>

\* locked_turn: engine.connect() for the whole turn.
Connect(r) ==
    /\ pc[r] = "connect"
    /\ Cardinality(conns) < PoolSize
    /\ conns' = conns \cup {r}
    /\ Goto(r, "lock")
    /\ UNCHANGED <<request, plan, reply, lock, db, calls>>

\* The pool stays empty for pool_timeout: the connect raises.
PoolTimeout(r) ==
    /\ pc[r] \in {"precheck", "connect"}
    /\ Cardinality(conns) >= PoolSize
    /\ Finish(r, Signal("error"))
    /\ UNCHANGED <<request, plan, db, calls>>

\* Mutant: the lock key does not identify the conversation, no exclusion.
TryLockAlways(r) ==
    /\ pc[r] = "lock"
    /\ lock' = [lock EXCEPT ![conv[r]] = r]
    /\ Goto(r, "recheck")
    /\ UNCHANGED <<request, plan, reply, conns, db, calls>>

\* acquire_with_deadline: a poll that gets the lock ...
TryLock(r) ==
    /\ pc[r] = "lock"
    /\ lock[conv[r]] = NoReq
    /\ lock' = [lock EXCEPT ![conv[r]] = r]
    /\ Goto(r, "recheck")
    /\ UNCHANGED <<request, plan, reply, conns, db, calls>>

\* ... or a failed poll past the deadline: ConversationBusyError.
LockBusy(r) ==
    /\ pc[r] = "lock"
    /\ lock[conv[r]] # NoReq
    /\ Finish(r, Signal("busy"))
    /\ UNCHANGED <<request, plan, db, calls>>

\* LockedTurn.find_turn_by_client_id: the same lookup under the lock, by
\* conversation and client_turn_id only.
ReCheck(r) ==
    /\ pc[r] = "recheck"
    /\ IF Row(r).status # "ABSENT"
       THEN reply' = [reply EXCEPT ![r] = ReplaySnapshot(r)] /\ Goto(r, "unlock")
       ELSE Goto(r, "begin") /\ UNCHANGED reply
    /\ UNCHANGED <<request, plan, conns, lock, db, calls>>

\* begin_turn_and_load_context, one transaction: create the conversation or
\* allocate its next turn number, insert the PROCESSING turn and the user
\* message with the next ordinal.
BeginTurn(r) ==
    LET c == conv[r] t == cid[r] IN
    /\ pc[r] = "begin"
    /\ ~NotOwned(r)
    /\ Row(r).status = "ABSENT"    \* the table's unique key admits no second row
    /\ convOwner' = [convOwner EXCEPT ![c] = owner[r]]
    /\ nextNo' = [nextNo EXCEPT ![c] = @ + 1]
    /\ turns' = [turns EXCEPT ![c][t] =
          [no |-> nextNo[c], status |-> "PROCESSING", starter |-> r, snap |-> NoReq]]
    /\ msgs' = [msgs EXCEPT ![c] = Append(@, [turn |-> t, role |-> "USER"])]
    /\ Goto(r, "resolve")
    /\ UNCHANGED <<request, plan, reply, conns, lock, calls>>

\* The begin transaction finds the conversation with another owner.
BeginRefused(r) ==
    /\ pc[r] = "begin"
    /\ NotOwned(r)
    /\ Finish(r, Signal("not_found"))
    /\ UNCHANGED <<request, plan, db, calls>>

\* A downstream stage decides the terminal status to persist.
Decide(r, statuses) ==
    /\ \E s \in statuses : plan' = [plan EXCEPT ![r] = s]
    /\ Goto(r, "persist")

Continue(r, l) == Goto(r, l) /\ UNCHANGED plan

\* _process_turn: cancel and small talk complete the turn at once, a
\* clarification asks back, everything else is answered.
Resolve(r) ==
    /\ pc[r] = "resolve"
    /\ \/ Decide(r, {"COMPLETED", "NEEDS_CLARIFICATION"})
       \/ Continue(r, "rewrite")
    /\ UNCHANGED <<request, reply, conns, lock, db, calls>>

\* _persist_answer up to the branch: RewriteError fails the turn, a filter
\* conflict asks back, a relation goal skips the query processor.
Rewrite(r) ==
    /\ pc[r] = "rewrite"
    /\ \/ Decide(r, {"FAILED", "NEEDS_CLARIFICATION"})
       \/ Continue(r, "process")
       \/ Continue(r, "retrieve")
    /\ UNCHANGED <<request, reply, conns, lock, db, calls>>

\* _process_standalone_with_query_processor up to the fan-out.
ProcessQuery(r) ==
    /\ pc[r] = "process"
    /\ \/ Decide(r, {"FAILED", "NEEDS_CLARIFICATION"})
       \/ Continue(r, "retrieve")
    /\ UNCHANGED <<request, reply, conns, lock, db, calls>>

\* Mutant: a failed retrieval starts the answer again, without a limit.
RetrieveAgain(r) ==
    /\ pc[r] = "retrieve"
    /\ Continue(r, "rewrite") \/ Continue(r, "generate")
    /\ UNCHANGED <<request, reply, conns, lock, db, calls>>

\* The retrievals of one turn (gathered when there are subqueries).
Retrieve(r) ==
    /\ pc[r] = "retrieve"
    /\ \/ Decide(r, {"FAILED"})
       \/ Continue(r, "generate")
    /\ UNCHANGED <<request, reply, conns, lock, db, calls>>

\* Mutant: a failed generation is tried a second time.
GenerateTwice(r) ==
    /\ pc[r] = "generate"
    /\ calls' = [calls EXCEPT ![conv[r]][cid[r]] = @ + 2]
    /\ Decide(r, {"FAILED", "COMPLETED", "CANNOT_ANSWER"})
    /\ UNCHANGED <<request, reply, conns, lock, db>>

\* generator.generate, the stage that pays the answer model (AnswerGeneration),
\* and _finish_answer's choice of status.
Generate(r) ==
    /\ pc[r] = "generate"
    /\ calls' = [calls EXCEPT ![conv[r]][cid[r]] = @ + 1]
    /\ Decide(r, {"FAILED", "COMPLETED", "CANNOT_ANSWER"})
    /\ UNCHANGED <<request, reply, conns, lock, db>>

\* Mutant: mark_turn_failed does not store the response snapshot.
PersistFailureWithoutSnapshot(r) ==
    LET c == conv[r] t == cid[r] IN
    /\ pc[r] = "persist"
    /\ turns' = [turns EXCEPT ![c][t].status = plan[r],
                              ![c][t].snap = IF plan[r] = "FAILED" THEN NoReq ELSE r]
    /\ reply' = [reply EXCEPT ![r] = Snapshot(plan[r], r)]
    /\ Goto(r, "unlock")
    /\ UNCHANGED <<request, plan, conns, lock, convOwner, nextNo, msgs, calls>>

\* Mutant: a failure is answered but the turn is not marked.
PersistSkipsFailure(r) ==
    /\ pc[r] = "persist"
    /\ reply' = [reply EXCEPT ![r] = Snapshot(plan[r], r)]
    /\ turns' = IF plan[r] = "FAILED" THEN turns
                ELSE [turns EXCEPT ![conv[r]][cid[r]].status = plan[r],
                                   ![conv[r]][cid[r]].snap = r]
    /\ Goto(r, "unlock")
    /\ UNCHANGED <<request, plan, conns, lock, convOwner, nextNo, msgs, calls>>

\* persist_grounded_answer, persist_clarification or mark_turn_failed: one
\* transaction; only a failure writes no assistant message.
Persist(r) ==
    LET c == conv[r] t == cid[r] IN
    /\ pc[r] = "persist"
    /\ turns' = [turns EXCEPT ![c][t] = [no |-> Row(r).no, status |-> plan[r],
                                         starter |-> Row(r).starter, snap |-> r]]
    /\ msgs' = IF plan[r] = "FAILED" THEN msgs
               ELSE [msgs EXCEPT ![c] = Append(@, [turn |-> t, role |-> "ASSISTANT"])]
    /\ reply' = [reply EXCEPT ![r] = Snapshot(plan[r], r)]
    /\ Goto(r, "unlock")
    /\ UNCHANGED <<request, plan, conns, lock, convOwner, nextNo, calls>>

\* advisory_unlock, conn.close(), and the snapshot is streamed.
Unlock(r) ==
    /\ pc[r] = "unlock"
    /\ Finish(r, reply[r])
    /\ UNCHANGED <<request, plan, db, calls>>

\* The client disconnects or the server cancels the stream: CancelledError is
\* re-raised; nothing else is written.
Cancel(r) ==
    /\ "cancel" \in Faults
    /\ pc[r] \in Live
    /\ Finish(r, Signal("lost"))
    /\ UNCHANGED <<request, plan, db, calls>>

\* An exception no handler of the service names: the open transaction rolls
\* back, the route answers STREAM_ERROR.
UnhandledError(r) ==
    /\ "error" \in Faults
    /\ pc[r] \in Live \ {"unlock"}
    /\ Finish(r, Signal("error"))
    /\ UNCHANGED <<request, plan, db, calls>>

\* The backend process dies and is restarted: PostgreSQL ends its sessions.
Crash ==
    /\ "crash" \in Faults
    /\ \E r \in Req : pc[r] \in Live
    /\ pc' = [r \in Req |-> IF pc[r] \in Live THEN "done" ELSE pc[r]]
    /\ reply' = [r \in Req |-> IF pc[r] \in Live THEN Signal("lost") ELSE reply[r]]
    /\ conns' = {}
    /\ lock' = [c \in Conv |-> NoReq]
    /\ UNCHANGED <<request, plan, db, calls>>

Step(r) ==
    \/ PreCheck(r) \/ Connect(r) \/ PoolTimeout(r) \/ TryLock(r) \/ LockBusy(r)
    \/ ReCheck(r) \/ BeginTurn(r) \/ BeginRefused(r)
    \/ Resolve(r) \/ Rewrite(r) \/ ProcessQuery(r) \/ Retrieve(r) \/ Generate(r)
    \/ Persist(r) \/ Unlock(r)

Next ==
    \/ \E r \in Req : Send(r) \/ Step(r) \/ Cancel(r) \/ UnhandledError(r)
    \/ Crash

Spec == Init /\ [][Next]_vars

\* The event loop runs every ready coroutine, and each await of a turn is
\* bounded: pool_timeout, the lock deadline, retrieval and LLM timeouts.
FairSpec == Spec /\ \A r \in Req : WF_vars(Step(r))
-----------------------------------------------------------------------------
(* Properties *)

TypeOK ==
    /\ pc \in [Req -> PcStates]
    /\ conv \in [Req -> Conv] /\ cid \in [Req -> Turn] /\ owner \in [Req -> Owner]
    /\ plan \in [Req -> Statuses]
    /\ reply \in [Req -> Replies]
    /\ conns \subseteq Req
    /\ lock \in [Conv -> Req \cup {NoReq}]
    /\ convOwner \in [Conv -> Owner \cup {NoOwner}]
    /\ nextNo \in [Conv -> Nat]
    /\ turns \in [Conv -> [Turn -> TurnRecord]]
    /\ msgs \in [Conv -> Seq(Message)]
    /\ calls \in [Conv -> [Turn -> Nat]]

\* The advisory lock of a conversation is held exactly by the one request that
\* is inside locked_turn, on a connection it still owns: no two requests are
\* inside it, and no exit (normal, busy, error, cancellation, crash) leaves a
\* lock or a pooled connection behind (repository.py locked_turn).
LockSafety ==
    /\ \A r \in Req : pc[r] \in Locked <=> lock[conv[r]] = r
    /\ \A c \in Conv : lock[c] # NoReq => conv[lock[c]] = c
    /\ conns = {r \in Req : pc[r] \in Locked \cup {"lock"}}
    /\ Cardinality(conns) <= PoolSize

\* When a request reaches the begin-turn transaction its client_turn_id has no
\* row: the second lookup, under the lock, makes the unchecked insert safe
\* against uq (conversation_id, client_turn_id), whatever other requests did
\* since the first lookup (service.py _resolve_snapshot).
BeginIsFresh == \A r \in Req : pc[r] = "begin" => Row(r).status = "ABSENT"

\* A client_turn_id is worth at most one generate() call over all its retries,
\* crashes and timeouts, and a turn that asked back never paid for one
\* (Plan 19: "client_turn_id" prevents a duplicate provider call).
GenerationBudget ==
    \A c \in Conv, t \in Turn :
        /\ calls[c][t] <= 1
        /\ turns[c][t].status = "NEEDS_CLARIFICATION" => calls[c][t] = 0
        /\ turns[c][t].status = "CANNOT_ANSWER" => calls[c][t] = 1

\* What a request streams from a snapshot, computed or replayed, is the
\* snapshot stored in the turn's row, so every retry reads the same answer;
\* and a replay never meets a terminal row without one.
ReplayParity ==
    \A r \in Req : pc[r] = "done" /\ reply[r].kind = "snapshot" =>
        /\ Row(r).status = reply[r].status
        /\ Row(r).snap = reply[r].by

\* The transcript is serial: messages follow turn numbers, a turn's assistant
\* message directly follows its user message, and turn numbers are the
\* positions at which the turns began (next_user_turn_no, _next_ordinal).
SerialTranscript ==
    \A c \in Conv :
        LET no(i) == turns[c][msgs[c][i].turn].no IN
        \A i, j \in 1..Len(msgs[c]) : i < j =>
            /\ no(i) <= no(j)
            /\ no(i) = no(j) => /\ j = i + 1
                               /\ msgs[c][i].turn = msgs[c][j].turn
                               /\ msgs[c][i].role = "USER"
                               /\ msgs[c][j].role = "ASSISTANT"
            /\ no(j) < nextNo[c]

\* A turn is left PROCESSING without a handler only when its handler was
\* cancelled, crashed or raised an exception the service does not name.
OrphanOnlyByFault ==
    \A c \in Conv, t \in Turn : turns[c][t].status = "PROCESSING" =>
        LET s == turns[c][t].starter IN
        \/ pc[s] \in Open
        \/ pc[s] = "done" /\ reply[s].kind \in {"lost", "error"}

\* A terminal turn is final: no later request, retry or recovery rewrites its
\* status, its number or its snapshot.
TerminalIsFinal ==
    [][\A c \in Conv, t \in Turn :
          turns[c][t].status \in Terminal => turns'[c][t] = turns[c][t]]_vars

\* Every request the server accepted ends: neither the pool, the lock nor a
\* downstream stage holds it for ever.
EveryRequestEnds == \A r \in Req : pc[r] = "precheck" ~> pc[r] = "done"

-----------------------------------------------------------------------------
(* Refinement of TurnLedger *)

\* The turn whose handler holds the conversation's lock with the turn open.
Executing(c) ==
    IF lock[c] # NoReq /\ pc[lock[c]] \in Open THEN cid[lock[c]] ELSE NoTurn

\* A reply as the ledger sees it: a row's content, or a refusal.
Answered(r) ==
    IF pc[r] # "done" THEN [status |-> "none", by |-> NoReq]
    ELSE [by |-> reply[r].by,
          status |-> CASE reply[r].kind = "snapshot" -> reply[r].status
                       [] reply[r].kind = "processing" -> "PROCESSING"
                       [] OTHER -> reply[r].kind]

Ledger == INSTANCE TurnLedger WITH
    want <- [r \in Req |-> <<conv[r], cid[r]>>],
    entry <- [c \in Conv |-> [t \in Turn |->
                [status |-> turns[c][t].status, by |-> turns[c][t].snap]]],
    active <- [c \in Conv |-> Executing(c)],
    answer <- [r \in Req |-> Answered(r)]

\* The handler implements the idempotent ledger: exactly-once execution per
\* client_turn_id, one immutable snapshot, answers read from it.
ImplementsLedger == Ledger!LedgerSpec
=============================================================================
