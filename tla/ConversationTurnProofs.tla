----------------------- MODULE ConversationTurnProofs -----------------------
(* Theorems about ConversationTurn, for any requests, conversations, turns,  *)
(* owners, pool size and faults.                                             *)
EXTENDS ConversationTurn, FiniteSetTheorems, TLAPS

(***************************************************************************)
(* The inductive invariant.  LockSafety, BeginIsFresh, ReplayParity,        *)
(* GenerationBudget and OrphanOnlyByFault are not inductive: they need the  *)
(* facts below about what a request's position says of its turn's row.      *)
(***************************************************************************)

\* A request about to persist has decided on a terminal status.
PlanReady == \A r \in Req : pc[r] = "persist" => plan[r] \in Terminal

\* Between begin-turn and the final transaction the row is the handler's.
HandlerOwnsTurn ==
    \A r \in Req : pc[r] \in Open => Row(r).status = "PROCESSING" /\ Row(r).starter = r

\* A row has a snapshot exactly when it is terminal, and a row that exists was
\* begun by a request for it that has passed the begin-turn transaction.
RowShape ==
    \A c \in Conv, t \in Turn :
        /\ turns[c][t].status \in Terminal <=> turns[c][t].snap # NoReq
        /\ turns[c][t].status # "ABSENT" =>
              LET s == turns[c][t].starter IN
              s \in Req /\ conv[s] = c /\ cid[s] = t /\ pc[s] \in Open \cup {"unlock", "done"}

\* The reply of a request is fixed when its work is done, and agrees with
\* the row it was read from.
ReplyAgrees ==
    \A r \in Req :
        /\ pc[r] \notin {"unlock", "done"} => reply[r] = Signal("none")
        /\ pc[r] = "unlock" => reply[r].kind \in {"snapshot", "processing"}
        /\ reply[r].kind = "snapshot" =>
              Row(r).status = reply[r].status /\ Row(r).snap = reply[r].by
        /\ pc[r] = "unlock" /\ reply[r].kind = "processing" => Row(r).status = "PROCESSING"

\* Generation happens once, in the last stage before the persist.
CallsSoFar ==
    /\ \A c \in Conv, t \in Turn : turns[c][t].status = "ABSENT" => calls[c][t] = 0
    /\ \A r \in Req : pc[r] \in Downstream => calls[conv[r]][cid[r]] = 0
    /\ \A r \in Req : pc[r] = "persist" =>
          /\ plan[r] = "NEEDS_CLARIFICATION" => calls[conv[r]][cid[r]] = 0
          /\ plan[r] = "CANNOT_ANSWER" => calls[conv[r]][cid[r]] = 1

\* What is known of rows, replies and calls.
RowInv ==
    /\ BeginIsFresh
    /\ PlanReady
    /\ HandlerOwnsTurn
    /\ RowShape
    /\ ReplyAgrees
    /\ OrphanOnlyByFault
    /\ CallsSoFar
    /\ GenerationBudget

IInv == TypeOK /\ LockSafety /\ RowInv

-----------------------------------------------------------------------------
\* What a replay returns is a reply: a row that exists is PROCESSING, or
\* terminal with or without a snapshot.
LEMMA ReplayType ==
    ASSUME TypeOK, NEW r \in Req, Row(r).status # "ABSENT"
    PROVE  ReplaySnapshot(r) \in Replies
  <1>1. Row(r) \in TurnRecord
    BY DEF TypeOK, Row
  <1>2. Row(r).status \in {"PROCESSING"} \cup Terminal /\ Row(r).snap \in Req \cup {NoReq}
    BY <1>1 DEF TurnRecord, Statuses
  <1> QED
    BY <1>2 DEF ReplaySnapshot, Replies, Signals

\* Ending a request keeps the types of what it touches.
LEMMA FinishType ==
    ASSUME TypeOK, NEW r \in Req, NEW x \in Replies, Finish(r, x)
    PROVE  /\ pc' \in [Req -> PcStates]
           /\ reply' \in [Req -> Replies]
           /\ conns' \subseteq Req
           /\ lock' \in [Conv -> Req \cup {NoReq}]
  BY DEF TypeOK, Finish, PcStates

LEMMA SnapshotType == \A s \in Terminal, r \in Req : Snapshot(s, r) \in Replies
  BY DEF Replies

LEMMA SignalType == \A k \in Signals : Signal(k) \in Replies
  BY DEF Replies

\* The type invariant holds initially.
LEMMA TypeInit == Init => TypeOK
  <1> SUFFICES ASSUME Init PROVE TypeOK
    OBVIOUS
  <1>1. [no |-> 0, status |-> "ABSENT", starter |-> NoReq, snap |-> NoReq] \in TurnRecord
    BY DEF TurnRecord, Statuses
  <1>2. turns \in [Conv -> [Turn -> TurnRecord]]
    BY <1>1 DEF Init
  <1>3. reply \in [Req -> Replies]
    BY SignalType DEF Init, Signals
  <1> QED
    BY <1>2, <1>3 DEF Init, TypeOK, PcStates, Statuses

\* Every step keeps the types.
LEMMA TypeNext == TypeOK /\ PlanReady /\ [Next]_vars => TypeOK'
  <1> SUFFICES ASSUME TypeOK, PlanReady, [Next]_vars PROVE TypeOK'
    OBVIOUS
  <1> USE DEF request, db
  <1>0. /\ Signal("not_found") \in Replies /\ Signal("error") \in Replies
        /\ Signal("busy") \in Replies /\ Signal("lost") \in Replies
    BY SignalType DEF Signals
  <1>1. ASSUME NEW r \in Req, Send(r) PROVE TypeOK'
    BY <1>1 DEF TypeOK, Send, Goto, PcStates, Live
  <1>2. ASSUME NEW r \in Req, PreCheck(r) PROVE TypeOK'
    <2>1. CASE Goto(r, "connect") /\ UNCHANGED <<reply, conns, lock>>
      BY <1>2, <2>1 DEF TypeOK, PreCheck, Goto, PcStates, Live
    <2>2. CASE \E x \in Replies : Finish(r, x)
      BY <1>2, <2>2, FinishType DEF TypeOK, PreCheck
    <2> QED
      BY <1>2, <1>0, <2>1, <2>2, ReplayType DEF PreCheck
  <1>3. ASSUME NEW r \in Req, Connect(r) PROVE TypeOK'
    BY <1>3 DEF TypeOK, Connect, Goto, PcStates, Live
  <1>4. ASSUME NEW r \in Req, PoolTimeout(r) PROVE TypeOK'
    BY <1>4, <1>0, FinishType DEF TypeOK, PoolTimeout
  <1>5. ASSUME NEW r \in Req, TryLock(r) PROVE TypeOK'
    BY <1>5 DEF TypeOK, TryLock, Goto, PcStates, Live, Locked
  <1>6. ASSUME NEW r \in Req, LockBusy(r) PROVE TypeOK'
    BY <1>6, <1>0, FinishType DEF TypeOK, LockBusy
  <1>7. ASSUME NEW r \in Req, ReCheck(r) PROVE TypeOK'
    BY <1>7, ReplayType DEF TypeOK, ReCheck, Goto, PcStates, Live, Locked
  <1>8. ASSUME NEW r \in Req, BeginTurn(r) PROVE TypeOK'
    <2>1. turns' \in [Conv -> [Turn -> TurnRecord]]
      BY <1>8 DEF TypeOK, BeginTurn, TurnRecord, Statuses
    <2>2. msgs' \in [Conv -> Seq(Message)]
      <3>1. [turn |-> cid[r], role |-> "USER"] \in Message
        BY DEF TypeOK, Message
      <3> QED
        BY <1>8, <3>1 DEF TypeOK, BeginTurn
    <2> QED
      BY <1>8, <2>1, <2>2 DEF TypeOK, BeginTurn, Goto, PcStates, Live, Locked, Downstream
  <1>9. ASSUME NEW r \in Req, BeginRefused(r) PROVE TypeOK'
    BY <1>9, <1>0, FinishType DEF TypeOK, BeginRefused
  <1>10. ASSUME NEW r \in Req, Resolve(r) \/ Rewrite(r) \/ ProcessQuery(r) \/ Retrieve(r)
         PROVE TypeOK'
    <2>1. CASE Resolve(r)
      BY <2>1 DEF TypeOK, Resolve, Decide, Continue, Goto, PcStates, Live, Locked,
                  Downstream, Statuses, Terminal
    <2>2. CASE Rewrite(r)
      BY <2>2 DEF TypeOK, Rewrite, Decide, Continue, Goto, PcStates, Live, Locked,
                  Downstream, Statuses, Terminal
    <2>3. CASE ProcessQuery(r)
      BY <2>3 DEF TypeOK, ProcessQuery, Decide, Continue, Goto, PcStates, Live, Locked,
                  Downstream, Statuses, Terminal
    <2>4. CASE Retrieve(r)
      BY <2>4 DEF TypeOK, Retrieve, Decide, Continue, Goto, PcStates, Live, Locked,
                  Downstream, Statuses, Terminal
    <2> QED
      BY <1>10, <2>1, <2>2, <2>3, <2>4
  <1>11. ASSUME NEW r \in Req, Generate(r) PROVE TypeOK'
    BY <1>11 DEF TypeOK, Generate, Decide, Goto, PcStates, Live, Locked, Statuses, Terminal
  <1>12. ASSUME NEW r \in Req, Persist(r) PROVE TypeOK'
    <2>0. plan[r] \in Terminal
      BY <1>12 DEF PlanReady, Persist
    <2>1. turns' \in [Conv -> [Turn -> TurnRecord]]
      BY <1>12 DEF TypeOK, Persist, TurnRecord, Row
    <2>2. msgs' \in [Conv -> Seq(Message)]
      <3>1. [turn |-> cid[r], role |-> "ASSISTANT"] \in Message
        BY DEF TypeOK, Message
      <3> QED
        BY <1>12, <3>1 DEF TypeOK, Persist
    <2>3. reply' \in [Req -> Replies]
      BY <1>12, <2>0, SnapshotType DEF TypeOK, Persist
    <2> QED
      BY <1>12, <2>1, <2>2, <2>3 DEF TypeOK, Persist, Goto, PcStates, Live, Locked
  <1>13. ASSUME NEW r \in Req, Unlock(r) PROVE TypeOK'
    BY <1>13, FinishType DEF TypeOK, Unlock
  <1>14. ASSUME NEW r \in Req, Cancel(r) \/ UnhandledError(r) PROVE TypeOK'
    BY <1>14, <1>0, FinishType DEF TypeOK, Cancel, UnhandledError
  <1>15. CASE Crash
    BY <1>15, <1>0 DEF TypeOK, Crash, PcStates
  <1>16. CASE UNCHANGED vars
    BY <1>16 DEF TypeOK, vars
  <1> QED
    BY <1>1, <1>2, <1>3, <1>4, <1>5, <1>6, <1>7, <1>8, <1>9, <1>10, <1>11, <1>12,
       <1>13, <1>14, <1>15, <1>16 DEF Next, Step
-----------------------------------------------------------------------------
(* Lock and pool *)

\* Ending a request, wherever it is, leaves no lock and no connection of it.
LEMMA LockFinish ==
    ASSUME TypeOK, LockSafety, NEW r \in Req, NEW x, Finish(r, x), UNCHANGED request
    PROVE  LockSafety'
  <1>1. \A s \in Req : pc'[s] \in Locked <=> lock'[conv'[s]] = s
    BY NoneAssumption DEF TypeOK, LockSafety, Finish, request, Locked, Downstream
  <1>2. \A c \in Conv : lock'[c] # NoReq => conv'[lock'[c]] = c
    BY DEF TypeOK, LockSafety, Finish, request
  <1>3. conns' = {s \in Req : pc'[s] \in Locked \cup {"lock"}}
    BY DEF TypeOK, LockSafety, Finish, Locked, Downstream
  <1>4. Cardinality(conns') <= PoolSize
    <2>1. IsFiniteSet(conns) /\ conns' \subseteq conns
      BY ReqAssumption, FS_Subset DEF TypeOK, Finish
    <2>2. Cardinality(conns') <= Cardinality(conns) /\ Cardinality(conns) \in Nat
                /\ Cardinality(conns') \in Nat
      BY <2>1, FS_Subset, FS_CardinalityType
    <2> QED
      BY <2>2, PoolAssumption DEF LockSafety
  <1> QED
    BY <1>1, <1>2, <1>3, <1>4 DEF LockSafety

\* A move inside or outside the locked region keeps the discipline.
LEMMA LockMove ==
    ASSUME TypeOK, LockSafety, NEW r \in Req, NEW l \in PcStates, Goto(r, l),
           UNCHANGED <<request, conns, lock>>,
           pc[r] \in Locked <=> l \in Locked,
           pc[r] = "lock" <=> l = "lock"
    PROVE  LockSafety'
  <1>1. \A s \in Req : (pc'[s] \in Locked <=> pc[s] \in Locked)
                        /\ (pc'[s] = "lock" <=> pc[s] = "lock")
    BY DEF TypeOK, Goto
  <1> QED
    BY <1>1 DEF LockSafety, request

\* The four parts of LockSafety that the steps of a request can disturb.
LEMMA LockNext == TypeOK /\ LockSafety /\ [Next]_vars => LockSafety'
  <1> SUFFICES ASSUME TypeOK, LockSafety, [Next]_vars PROVE LockSafety'
    OBVIOUS
  <1> USE DEF request, db
  <1>1. ASSUME NEW r \in Req, NEW x, Finish(r, x), UNCHANGED request PROVE LockSafety'
    BY <1>1, LockFinish
  <1>2. ASSUME NEW r \in Req, NEW l \in PcStates, Goto(r, l), UNCHANGED <<request, conns, lock>>,
               pc[r] \in Locked <=> l \in Locked, pc[r] = "lock" <=> l = "lock"
        PROVE LockSafety'
    BY <1>2, LockMove
  <1>3. ASSUME NEW r \in Req, Send(r) \/ PreCheck(r) PROVE LockSafety'
    BY <1>1, <1>2, <1>3 DEF Send, PreCheck, PcStates, Live, Locked, Downstream
  <1>4. ASSUME NEW r \in Req, Connect(r) PROVE LockSafety'
    <2>1. conns' = {s \in Req : pc'[s] \in Locked \cup {"lock"}}
      BY <1>4 DEF TypeOK, LockSafety, Connect, Goto
    <2>2. Cardinality(conns') <= PoolSize
      <3>1. IsFiniteSet(conns) /\ Cardinality(conns) \in Nat
        BY ReqAssumption, FS_Subset, FS_CardinalityType DEF TypeOK
      <3>2. Cardinality(conns') \in {Cardinality(conns), Cardinality(conns) + 1}
        BY <1>4, <3>1, FS_AddElement DEF Connect
      <3> QED
        BY <1>4, <3>1, <3>2, PoolAssumption DEF Connect
    <2> QED
      BY <1>4, <2>1, <2>2 DEF TypeOK, LockSafety, Connect, Goto, Locked, Downstream
  <1>5. ASSUME NEW r \in Req, TryLock(r) PROVE LockSafety'
    <2>1. \A s \in Req : pc'[s] \in Locked <=> lock'[conv'[s]] = s
      BY <1>5, NoneAssumption DEF TypeOK, LockSafety, TryLock, Goto, Locked, Downstream
    <2>2. \A c \in Conv : lock'[c] # NoReq => conv'[lock'[c]] = c
      BY <1>5 DEF TypeOK, LockSafety, TryLock
    <2>3. conns' = {s \in Req : pc'[s] \in Locked \cup {"lock"}}
      BY <1>5 DEF TypeOK, LockSafety, TryLock, Goto, Locked
    <2> QED
      BY <1>5, <2>1, <2>2, <2>3 DEF LockSafety, TryLock
  <1>6. ASSUME NEW r \in Req, PoolTimeout(r) \/ LockBusy(r) \/ BeginRefused(r) \/ Unlock(r)
                               \/ Cancel(r) \/ UnhandledError(r)
        PROVE LockSafety'
    BY <1>1, <1>6 DEF PoolTimeout, LockBusy, BeginRefused, Unlock, Cancel, UnhandledError
  <1>7. ASSUME NEW r \in Req, ReCheck(r) \/ BeginTurn(r) \/ Persist(r) PROVE LockSafety'
    BY <1>2, <1>7 DEF ReCheck, BeginTurn, Persist, PcStates, Live, Locked, Downstream
  <1>8. ASSUME NEW r \in Req, Resolve(r) \/ Rewrite(r) \/ ProcessQuery(r) \/ Retrieve(r)
                               \/ Generate(r)
        PROVE LockSafety'
    BY <1>2, <1>8 DEF Resolve, Rewrite, ProcessQuery, Retrieve, Generate, Decide, Continue,
                      PcStates, Live, Locked, Downstream
  <1>9. CASE Crash
    <2>1. conns' = {s \in Req : pc'[s] \in Locked \cup {"lock"}}
      BY <1>9 DEF TypeOK, Crash, Live, Locked, Downstream
    <2>2. Cardinality(conns') <= PoolSize
      BY <1>9, FS_EmptySet, PoolAssumption DEF Crash
    <2> QED
      BY <1>9, <2>1, <2>2, NoneAssumption DEF TypeOK, LockSafety, Crash, Live, Locked, Downstream
  <1>10. CASE UNCHANGED vars
    BY <1>10 DEF LockSafety, vars
  <1> QED
    BY <1>3, <1>4, <1>5, <1>6, <1>7, <1>8, <1>9, <1>10 DEF Next, Step
-----------------------------------------------------------------------------
(* Rows, replies and calls *)

\* Two requests inside the locked region of one conversation are the same.
LEMMA Exclusive ==
    ASSUME TypeOK, LockSafety, NEW r \in Req, NEW s \in Req,
           pc[r] \in Locked, pc[s] \in Locked, conv[r] = conv[s]
    PROVE  r = s
  BY DEF LockSafety

\* A request that ends with a refusal, or with what its row says.
LEMMA RowFinish ==
    ASSUME IInv, NEW r \in Req, NEW x \in Replies, Finish(r, x),
           UNCHANGED <<request, plan, db, calls>>,
           x.kind = "snapshot" => Row(r).status = x.status /\ Row(r).snap = x.by,
           pc[r] # "done", pc[r] \in Open => x.kind \in {"lost", "error"}
    PROVE  RowInv'
  <1> USE DEF IInv, RowInv, request, db
  <1>0. /\ \A s \in Req : Row(s)' = Row(s)
        /\ \A s \in Req : s # r => pc'[s] = pc[s] /\ reply'[s] = reply[s]
        /\ pc'[r] = "done" /\ reply'[r] = x
    BY DEF TypeOK, Finish, Row
  <1>1. BeginIsFresh'
    BY <1>0 DEF BeginIsFresh
  <1>2. PlanReady'
    BY <1>0 DEF PlanReady
  <1>3. HandlerOwnsTurn'
    BY <1>0 DEF HandlerOwnsTurn, Open, Downstream
  <1>4. RowShape'
    BY <1>0 DEF RowShape
  <1>5. ReplyAgrees'
    BY <1>0 DEF ReplyAgrees
  <1>6. OrphanOnlyByFault'
    <2> SUFFICES ASSUME NEW c \in Conv, NEW t \in Turn, turns[c][t].status = "PROCESSING"
                 PROVE LET s == turns[c][t].starter IN
                       \/ pc'[s] \in Open
                       \/ pc'[s] = "done" /\ reply'[s].kind \in {"lost", "error"}
      BY DEF OrphanOnlyByFault
    <2> DEFINE s == turns[c][t].starter
    <2>1. s \in Req
      BY DEF RowShape
    <2>2. pc[s] \in Open \/ (pc[s] = "done" /\ reply[s].kind \in {"lost", "error"})
      BY DEF OrphanOnlyByFault
    <2>3. CASE s # r
      BY <1>0, <2>1, <2>2, <2>3
    <2>4. CASE s = r /\ pc[r] \in Open
      BY <1>0, <2>4
    <2> QED
      BY <2>2, <2>3, <2>4
  <1>7. CallsSoFar'
    BY <1>0 DEF CallsSoFar, Downstream
  <1>8. GenerationBudget'
    BY DEF GenerationBudget
  <1> QED
    BY <1>1, <1>2, <1>3, <1>4, <1>5, <1>6, <1>7, <1>8

\* A move before begin-turn changes no row and no reply.
LEMMA RowMove ==
    ASSUME IInv, NEW r \in Req, NEW l, Goto(r, l),
           UNCHANGED <<request, plan, reply, db, calls>>,
           pc[r] \notin Open \cup {"unlock", "done"}, l \notin Open \cup {"unlock", "done"},
           l = "begin" => Row(r).status = "ABSENT"
    PROVE  RowInv'
  <1> USE DEF IInv, RowInv, request, db
  <1>0. /\ \A s \in Req : Row(s)' = Row(s)
        /\ \A s \in Req : s # r => pc'[s] = pc[s]
        /\ pc'[r] = l
    BY DEF TypeOK, Goto, Row
  <1>1. BeginIsFresh'
    BY <1>0 DEF BeginIsFresh
  <1>2. PlanReady' /\ HandlerOwnsTurn'
    BY <1>0 DEF PlanReady, HandlerOwnsTurn, Open
  <1>3. \A c \in Conv, t \in Turn : turns[c][t].status # "ABSENT" =>
           turns[c][t].starter \in Req /\ turns[c][t].starter # r
    BY DEF RowShape
  <1>4. RowShape'
    BY <1>0, <1>3 DEF RowShape
  <1>5. ReplyAgrees'
    BY <1>0 DEF ReplyAgrees
  <1>6. OrphanOnlyByFault'
    BY <1>0, <1>3 DEF OrphanOnlyByFault
  <1>7. CallsSoFar'
    BY <1>0 DEF CallsSoFar, Open
  <1>8. GenerationBudget'
    BY DEF GenerationBudget
  <1> QED
    BY <1>1, <1>2, <1>4, <1>5, <1>6, <1>7, <1>8

\* A stage before generation: the next stage, or a decision that is not
\* CANNOT_ANSWER.
LEMMA RowStage ==
    ASSUME IInv, NEW r \in Req, NEW l \in Open, Goto(r, l), pc[r] \in Downstream,
           UNCHANGED <<request, reply, db, calls>>, plan' \in [Req -> Statuses],
           \A s \in Req : s # r => plan'[s] = plan[s],
           l = "persist" => plan'[r] \in Terminal \ {"CANNOT_ANSWER"}
    PROVE  RowInv'
  <1> USE DEF IInv, RowInv, request, db
  <1>0. /\ \A s \in Req : Row(s)' = Row(s)
        /\ \A s \in Req : s # r => pc'[s] = pc[s]
        /\ pc'[r] = l /\ pc[r] \in Open
    BY DEF TypeOK, Goto, Row, Open
  <1>1. BeginIsFresh' /\ PlanReady' /\ HandlerOwnsTurn'
    BY <1>0 DEF BeginIsFresh, PlanReady, HandlerOwnsTurn, Open, Downstream
  <1>2. RowShape'
    BY <1>0 DEF RowShape
  <1>3. ReplyAgrees'
    BY <1>0 DEF ReplyAgrees, Open, Downstream
  <1>4. OrphanOnlyByFault'
    BY <1>0 DEF OrphanOnlyByFault, RowShape
  <1>5. CallsSoFar'
    BY <1>0 DEF CallsSoFar, Open
  <1>6. GenerationBudget'
    BY DEF GenerationBudget
  <1> QED
    BY <1>1, <1>2, <1>3, <1>4, <1>5, <1>6

\* The generate() call: the first one for its turn.
LEMMA RowGenerate == ASSUME IInv, NEW r \in Req, Generate(r) PROVE RowInv'
  <1> USE DEF IInv, RowInv, request, db
  <1>0. /\ \A s \in Req : Row(s)' = Row(s)
        /\ \A s \in Req : s # r => pc'[s] = pc[s] /\ plan'[s] = plan[s]
        /\ pc'[r] = "persist" /\ pc[r] \in Downstream /\ pc[r] \in Open
        /\ plan'[r] \in {"FAILED", "COMPLETED", "CANNOT_ANSWER"}
    BY DEF TypeOK, Generate, Decide, Goto, Row, Open, Downstream
  <1>1. BeginIsFresh' /\ PlanReady' /\ HandlerOwnsTurn'
    BY <1>0 DEF BeginIsFresh, PlanReady, HandlerOwnsTurn, Open, Terminal
  <1>2. RowShape'
    BY <1>0 DEF RowShape, Generate, Open
  <1>3. ReplyAgrees'
    BY <1>0 DEF ReplyAgrees, Generate, Downstream
  <1>4. OrphanOnlyByFault'
    BY <1>0 DEF OrphanOnlyByFault, RowShape, Generate, Open
  <1>5. /\ calls'[conv[r]][cid[r]] = 1
        /\ \A c \in Conv, t \in Turn : ~(c = conv[r] /\ t = cid[r]) => calls'[c][t] = calls[c][t]
        /\ Row(r).status = "PROCESSING"
    BY <1>0 DEF TypeOK, Generate, CallsSoFar, HandlerOwnsTurn
  <1>6. \A s \in Req : s # r /\ pc[s] \in Open => conv[s] # conv[r]
    BY <1>0, Exclusive DEF Open, Locked
  <1>7. CallsSoFar'
    <2>1. \A c \in Conv, t \in Turn : turns'[c][t].status = "ABSENT" => calls'[c][t] = 0
      BY <1>5 DEF CallsSoFar, Generate, Row
    <2>2. \A s \in Req : pc'[s] \in Downstream => calls'[conv'[s]][cid'[s]] = 0
      BY <1>0, <1>5, <1>6 DEF CallsSoFar, TypeOK, Generate, Open, Downstream
    <2>3. \A s \in Req : pc'[s] = "persist" =>
              /\ plan'[s] = "NEEDS_CLARIFICATION" => calls'[conv'[s]][cid'[s]] = 0
              /\ plan'[s] = "CANNOT_ANSWER" => calls'[conv'[s]][cid'[s]] = 1
      <3> SUFFICES ASSUME NEW s \in Req, pc'[s] = "persist"
                   PROVE  /\ plan'[s] = "NEEDS_CLARIFICATION" => calls'[conv[s]][cid[s]] = 0
                          /\ plan'[s] = "CANNOT_ANSWER" => calls'[conv[s]][cid[s]] = 1
        BY DEF Generate
      <3>1. CASE s = r
        BY <1>0, <1>5, <3>1
      <3>2. CASE s # r
        <4>1. calls'[conv[s]][cid[s]] = calls[conv[s]][cid[s]]
          BY <1>0, <1>5, <1>6, <3>2 DEF TypeOK, Open
        <4> QED
          BY <1>0, <3>2, <4>1 DEF CallsSoFar
      <3> QED
        BY <3>1, <3>2
    <2> QED
      BY <2>1, <2>2, <2>3 DEF CallsSoFar
  <1>8. GenerationBudget'
    BY <1>5 DEF GenerationBudget, Generate, Row
  <1> QED
    BY <1>1, <1>2, <1>3, <1>4, <1>7, <1>8

\* A row that exists is replayed as PROCESSING or as its own snapshot.
LEMMA ReplayAgrees ==
    ASSUME TypeOK, RowShape, NEW r \in Req, Row(r).status # "ABSENT"
    PROVE  \/ ReplaySnapshot(r) = Signal("processing") /\ Row(r).status = "PROCESSING"
           \/ ReplaySnapshot(r) = Snapshot(Row(r).status, Row(r).snap)
  <1>1. Row(r) \in TurnRecord /\ (Row(r).status \in Terminal <=> Row(r).snap # NoReq)
    BY DEF TypeOK, Row, RowShape
  <1>2. Row(r).status \in {"PROCESSING"} \cup Terminal
    BY <1>1 DEF TurnRecord, Statuses
  <1> QED
    BY <1>1, <1>2 DEF ReplaySnapshot

\* The second lookup: nothing, or the reply the row holds.
LEMMA RowReCheck == ASSUME IInv, NEW r \in Req, ReCheck(r) PROVE RowInv'
  <1> USE DEF IInv, RowInv, request, db
  <1>1. CASE Row(r).status = "ABSENT"
    BY <1>1, RowMove DEF ReCheck, Open, Downstream
  <1>2. CASE Row(r).status # "ABSENT"
    <2>0. /\ \A s \in Req : Row(s)' = Row(s)
          /\ \A s \in Req : s # r => pc'[s] = pc[s] /\ reply'[s] = reply[s]
          /\ pc'[r] = "unlock" /\ reply'[r] = ReplaySnapshot(r)
          /\ pc[r] = "recheck"
      BY <1>2 DEF TypeOK, ReCheck, Goto, Row
    <2>1. \A c \in Conv, t \in Turn : turns[c][t].status # "ABSENT" =>
             turns[c][t].starter \in Req /\ turns[c][t].starter # r
      BY <2>0 DEF RowShape, Open, Downstream
    <2>2. BeginIsFresh' /\ PlanReady' /\ HandlerOwnsTurn'
      BY <2>0 DEF ReCheck, BeginIsFresh, PlanReady, HandlerOwnsTurn, Open, Downstream
    <2>3. RowShape'
      BY <2>0, <2>1 DEF RowShape, ReCheck
    <2>4. ReplyAgrees'
      BY <1>2, <2>0, ReplayAgrees DEF ReplyAgrees, Signal, Snapshot
    <2>5. OrphanOnlyByFault'
      BY <2>0, <2>1 DEF OrphanOnlyByFault, ReCheck
    <2>6. CallsSoFar' /\ GenerationBudget'
      BY <2>0 DEF CallsSoFar, GenerationBudget, ReCheck, Downstream
    <2> QED
      BY <2>2, <2>3, <2>4, <2>5, <2>6
  <1> QED
    BY <1>1, <1>2

\* A snapshot reply is one of a terminal row.
LEMMA SnapshotIsTerminal ==
    ASSUME IInv, NEW s \in Req, reply[s].kind = "snapshot"
    PROVE  Row(s).status \in Terminal
  <1>1. reply[s] \in Replies
    BY DEF IInv, TypeOK
  <1>2. reply[s].status \in Terminal
    BY <1>1 DEF Replies, Snapshot, Signal, Signals
  <1> QED
    BY <1>2 DEF IInv, RowInv, ReplyAgrees

\* The begin-turn transaction: the lock keeps every other request of the
\* conversation out, and no reply was read from a row that did not exist.
LEMMA RowBegin == ASSUME IInv, NEW r \in Req, BeginTurn(r) PROVE RowInv'
  <1> USE DEF IInv, RowInv, request, db
  <1>0. /\ \A s \in Req : s # r => pc'[s] = pc[s]
        /\ pc[r] = "begin" /\ pc'[r] = "resolve"
        /\ Row(r).status = "ABSENT"
        /\ UNCHANGED <<conv, cid, plan, reply, calls>>
    BY DEF TypeOK, BeginTurn, Goto
  <1>1. /\ turns'[conv[r]][cid[r]] = [no |-> nextNo[conv[r]], status |-> "PROCESSING",
                                     starter |-> r, snap |-> NoReq]
        /\ \A c \in Conv, t \in Turn : ~(c = conv[r] /\ t = cid[r]) =>
              turns'[c][t] = turns[c][t]
    BY DEF TypeOK, BeginTurn
  <1>2. Row(r)' = [no |-> nextNo[conv[r]], status |-> "PROCESSING",
                   starter |-> r, snap |-> NoReq]
    BY <1>0, <1>1 DEF Row
  <1>3. \A s \in Req : s # r /\ pc[s] \in Locked => conv[s] # conv[r]
    BY <1>0, Exclusive DEF Locked
  <1>4. \A s \in Req : (s # r /\ pc[s] \in Locked) \/ Row(s).status # "ABSENT" =>
           Row(s)' = Row(s)
    BY <1>0, <1>1, <1>3 DEF Row, TypeOK
  <1>5. BeginIsFresh'
    BY <1>0, <1>4 DEF BeginIsFresh, Locked
  <1>6. PlanReady'
    BY <1>0 DEF PlanReady
  <1>7. HandlerOwnsTurn'
    BY <1>0, <1>2, <1>4 DEF HandlerOwnsTurn, Open, Locked
  <1>8. RowShape'
    <2> SUFFICES ASSUME NEW c \in Conv, NEW t \in Turn
                 PROVE /\ turns'[c][t].status \in Terminal <=> turns'[c][t].snap # NoReq
                       /\ turns'[c][t].status # "ABSENT" =>
                            LET s == turns'[c][t].starter IN
                            /\ s \in Req /\ conv[s] = c /\ cid[s] = t
                            /\ pc'[s] \in Open \cup {"unlock", "done"}
      BY <1>0 DEF RowShape
    <2>1. CASE c = conv[r] /\ t = cid[r]
      BY <1>0, <1>1, <2>1 DEF Terminal, Open, Downstream
    <2>2. CASE ~(c = conv[r] /\ t = cid[r])
      BY <1>0, <1>1, <2>2 DEF RowShape
    <2> QED
      BY <2>1, <2>2
  <1>9. ReplyAgrees'
    <2> SUFFICES ASSUME NEW s \in Req
                 PROVE /\ pc'[s] \notin {"unlock", "done"} => reply[s] = Signal("none")
                       /\ pc'[s] = "unlock" => reply[s].kind \in {"snapshot", "processing"}
                       /\ reply[s].kind = "snapshot" =>
                            Row(s)'.status = reply[s].status /\ Row(s)'.snap = reply[s].by
                       /\ pc'[s] = "unlock" /\ reply[s].kind = "processing" =>
                            Row(s)'.status = "PROCESSING"
      BY <1>0 DEF ReplyAgrees
    <2>1. reply[s].kind = "snapshot" => Row(s)' = Row(s)
      BY <1>4, SnapshotIsTerminal DEF Terminal
    <2>2. pc'[s] = "unlock" => Row(s)' = Row(s)
      BY <1>0, <1>4 DEF Locked
    <2> QED
      BY <1>0, <2>1, <2>2 DEF ReplyAgrees
  <1>10. OrphanOnlyByFault'
    <2> SUFFICES ASSUME NEW c \in Conv, NEW t \in Turn, turns'[c][t].status = "PROCESSING"
                 PROVE LET s == turns'[c][t].starter IN
                       \/ pc'[s] \in Open
                       \/ pc'[s] = "done" /\ reply[s].kind \in {"lost", "error"}
      BY <1>0 DEF OrphanOnlyByFault
    <2>1. CASE c = conv[r] /\ t = cid[r]
      BY <1>0, <1>1, <2>1 DEF Open, Downstream
    <2>2. CASE ~(c = conv[r] /\ t = cid[r])
      BY <1>0, <1>1, <2>2 DEF OrphanOnlyByFault, RowShape
    <2> QED
      BY <2>1, <2>2
  <1>11. calls[conv[r]][cid[r]] = 0
    BY <1>0 DEF CallsSoFar, Row, TypeOK
  <1>12. CallsSoFar'
    BY <1>0, <1>1, <1>11 DEF CallsSoFar, Downstream
  <1>13. GenerationBudget'
    BY <1>0, <1>1, <1>11 DEF GenerationBudget
  <1> QED
    BY <1>5, <1>6, <1>7, <1>8, <1>9, <1>10, <1>12, <1>13

\* The final transaction: the only replies read from the row before it are
\* "still processing", and no other request is inside the lock to use one.
LEMMA RowPersist == ASSUME IInv, NEW r \in Req, Persist(r) PROVE RowInv'
  <1> USE DEF IInv, RowInv, request, db
  <1>0. /\ \A s \in Req : s # r => pc'[s] = pc[s] /\ reply'[s] = reply[s]
        /\ pc[r] = "persist" /\ pc'[r] = "unlock"
        /\ reply'[r] = Snapshot(plan[r], r)
        /\ plan[r] \in Terminal
        /\ Row(r).status = "PROCESSING" /\ Row(r).starter = r
        /\ UNCHANGED <<conv, cid, plan, calls>>
    BY DEF TypeOK, Persist, Goto, PlanReady, HandlerOwnsTurn, Open
  <1>1. /\ turns'[conv[r]][cid[r]] = [no |-> Row(r).no, status |-> plan[r],
                                     starter |-> Row(r).starter, snap |-> r]
        /\ \A c \in Conv, t \in Turn : ~(c = conv[r] /\ t = cid[r]) =>
              turns'[c][t] = turns[c][t]
    BY DEF TypeOK, Persist
  <1>2. Row(r)' = [no |-> Row(r).no, status |-> plan[r], starter |-> Row(r).starter, snap |-> r]
    BY <1>0, <1>1 DEF Row
  <1>3. \A s \in Req : s # r /\ pc[s] \in Locked => conv[s] # conv[r]
    BY <1>0, Exclusive DEF Locked
  <1>4. \A s \in Req : (s # r /\ pc[s] \in Locked) \/ Row(s).status # "PROCESSING" =>
           Row(s)' = Row(s)
    BY <1>0, <1>1, <1>3 DEF Row, TypeOK
  <1>5. BeginIsFresh' /\ PlanReady'
    BY <1>0, <1>4 DEF BeginIsFresh, PlanReady, Locked
  <1>6. HandlerOwnsTurn'
    BY <1>0, <1>4 DEF HandlerOwnsTurn, Open, Downstream, Locked
  <1>7. RowShape'
    <2> SUFFICES ASSUME NEW c \in Conv, NEW t \in Turn
                 PROVE /\ turns'[c][t].status \in Terminal <=> turns'[c][t].snap # NoReq
                       /\ turns'[c][t].status # "ABSENT" =>
                            LET s == turns'[c][t].starter IN
                            /\ s \in Req /\ conv[s] = c /\ cid[s] = t
                            /\ pc'[s] \in Open \cup {"unlock", "done"}
      BY <1>0 DEF RowShape
    <2>1. CASE c = conv[r] /\ t = cid[r]
      BY <1>0, <1>1, <2>1, NoneAssumption
    <2>2. CASE ~(c = conv[r] /\ t = cid[r])
      BY <1>0, <1>1, <2>2 DEF RowShape
    <2> QED
      BY <2>1, <2>2
  <1>8. ReplyAgrees'
    <2> SUFFICES ASSUME NEW s \in Req
                 PROVE /\ pc'[s] \notin {"unlock", "done"} => reply'[s] = Signal("none")
                       /\ pc'[s] = "unlock" => reply'[s].kind \in {"snapshot", "processing"}
                       /\ reply'[s].kind = "snapshot" =>
                            Row(s)'.status = reply'[s].status /\ Row(s)'.snap = reply'[s].by
                       /\ pc'[s] = "unlock" /\ reply'[s].kind = "processing" =>
                            Row(s)'.status = "PROCESSING"
      BY DEF ReplyAgrees
    <2>1. CASE s = r
      BY <1>0, <1>2, <2>1 DEF Snapshot
    <2>2. CASE s # r
      <3>1. reply[s].kind = "snapshot" => Row(s)' = Row(s)
        BY <1>4, SnapshotIsTerminal DEF Terminal
      <3>2. pc'[s] = "unlock" => Row(s)' = Row(s)
        BY <1>0, <1>4, <2>2 DEF Locked
      <3> QED
        BY <1>0, <2>2, <3>1, <3>2 DEF ReplyAgrees
    <2> QED
      BY <2>1, <2>2
  <1>9. OrphanOnlyByFault'
    <2> SUFFICES ASSUME NEW c \in Conv, NEW t \in Turn, turns'[c][t].status = "PROCESSING"
                 PROVE LET s == turns'[c][t].starter IN
                       \/ pc'[s] \in Open
                       \/ pc'[s] = "done" /\ reply'[s].kind \in {"lost", "error"}
      BY DEF OrphanOnlyByFault
    <2>1. ~(c = conv[r] /\ t = cid[r])
      BY <1>0, <1>1 DEF Terminal
    <2>2. turns'[c][t] = turns[c][t]
      BY <1>1, <2>1
    <2>3. turns[c][t].starter \in Req \ {r}
      BY <2>1, <2>2 DEF RowShape
    <2> QED
      BY <1>0, <2>2, <2>3 DEF OrphanOnlyByFault
  <1>10. /\ plan[r] = "NEEDS_CLARIFICATION" => calls[conv[r]][cid[r]] = 0
         /\ plan[r] = "CANNOT_ANSWER" => calls[conv[r]][cid[r]] = 1
    BY <1>0 DEF CallsSoFar
  <1>11. CallsSoFar'
    BY <1>0, <1>1 DEF CallsSoFar, Downstream, Terminal
  <1>12. GenerationBudget'
    <2> SUFFICES ASSUME NEW c \in Conv, NEW t \in Turn
                 PROVE /\ calls[c][t] <= 1
                       /\ turns'[c][t].status = "NEEDS_CLARIFICATION" => calls[c][t] = 0
                       /\ turns'[c][t].status = "CANNOT_ANSWER" => calls[c][t] = 1
      BY <1>0 DEF GenerationBudget
    <2> QED
      BY <1>1, <1>10 DEF GenerationBudget
  <1> QED
    BY <1>5, <1>6, <1>7, <1>8, <1>9, <1>11, <1>12

\* A crash ends every handler at once and writes nothing.
LEMMA RowCrash == ASSUME IInv, Crash PROVE RowInv'
  <1> USE DEF IInv, RowInv, request, db
  <1>0. /\ \A s \in Req : pc[s] \in Live => pc'[s] = "done" /\ reply'[s] = Signal("lost")
        /\ \A s \in Req : pc[s] \notin Live => pc'[s] = pc[s] /\ reply'[s] = reply[s]
        /\ \A s \in Req : Row(s)' = Row(s)
        /\ \A s \in Req : pc'[s] \in {"idle", "done"}
        /\ UNCHANGED <<conv, cid, plan, turns, calls>>
    BY DEF TypeOK, Crash, PcStates, Row
  <1>1. BeginIsFresh' /\ PlanReady' /\ HandlerOwnsTurn'
    BY <1>0 DEF BeginIsFresh, PlanReady, HandlerOwnsTurn, Open, Downstream
  <1>2. RowShape'
    BY <1>0 DEF RowShape, Live, Locked, Open
  <1>3. ReplyAgrees'
    <2>1. \A s \in Req : pc[s] \notin Live => pc[s] # "unlock"
      BY DEF Live, Locked
    <2> QED
      BY <1>0, <2>1 DEF ReplyAgrees, Signal
  <1>4. OrphanOnlyByFault'
    <2> SUFFICES ASSUME NEW c \in Conv, NEW t \in Turn, turns[c][t].status = "PROCESSING"
                 PROVE LET s == turns[c][t].starter IN
                       pc'[s] = "done" /\ reply'[s].kind \in {"lost", "error"}
      BY <1>0 DEF OrphanOnlyByFault
    <2> DEFINE s == turns[c][t].starter
    <2>1. s \in Req
      BY DEF RowShape
    <2>2. pc[s] \in Open \/ (pc[s] = "done" /\ reply[s].kind \in {"lost", "error"})
      BY DEF OrphanOnlyByFault
    <2>3. pc[s] \in Open => pc[s] \in Live
      BY DEF Open, Live, Locked
    <2>4. CASE pc[s] \in Live
      BY <1>0, <2>1, <2>4 DEF Signal
    <2>5. CASE pc[s] \notin Live
      BY <1>0, <2>1, <2>2, <2>3, <2>5
    <2> QED
      BY <2>4, <2>5
  <1>5. CallsSoFar' /\ GenerationBudget'
    BY <1>0 DEF CallsSoFar, GenerationBudget, Downstream
  <1> QED
    BY <1>1, <1>2, <1>3, <1>4, <1>5

\* Every step keeps what is known of rows, replies and calls.
LEMMA RowNext == IInv /\ [Next]_vars => RowInv'
  <1> SUFFICES ASSUME IInv, [Next]_vars PROVE RowInv'
    OBVIOUS
  <1>0. /\ Signal("not_found") \in Replies /\ Signal("error") \in Replies
        /\ Signal("busy") \in Replies /\ Signal("lost") \in Replies
        /\ \A k \in Signals : Signal(k).kind = k
    BY SignalType DEF Signals, Signal
  <1>1. ASSUME NEW r \in Req, Send(r) \/ Connect(r) \/ TryLock(r) PROVE RowInv'
    BY <1>1, RowMove DEF Send, Connect, TryLock, Open, Downstream
  <1>2. ASSUME NEW r \in Req, PreCheck(r) PROVE RowInv'
    <2>1. CASE Goto(r, "connect") /\ UNCHANGED <<reply, conns, lock>>
      BY <1>2, <2>1, RowMove DEF PreCheck, Open, Downstream
    <2>2. CASE Finish(r, Signal("not_found"))
      BY <1>2, <2>2, <1>0, RowFinish DEF PreCheck, Open, Downstream, Signals
    <2>3. CASE Row(r).status # "ABSENT" /\ Finish(r, ReplaySnapshot(r))
      <3>1. /\ ReplaySnapshot(r) \in Replies
            /\ ReplaySnapshot(r).kind = "snapshot" =>
                  /\ Row(r).status = ReplaySnapshot(r).status
                  /\ Row(r).snap = ReplaySnapshot(r).by
        BY <2>3, ReplayType, ReplayAgrees DEF IInv, RowInv, Snapshot, Signal
      <3> QED
        BY <1>2, <2>3, <3>1, RowFinish DEF PreCheck, Open, Downstream
    <2> QED
      BY <1>2, <2>1, <2>2, <2>3 DEF PreCheck
  <1>3. ASSUME NEW r \in Req, PoolTimeout(r) PROVE RowInv'
    BY <1>3, <1>0, RowFinish DEF PoolTimeout, Open, Downstream, Signals
  <1>4. ASSUME NEW r \in Req, LockBusy(r) PROVE RowInv'
    BY <1>4, <1>0, RowFinish DEF LockBusy, Open, Downstream, Signals
  <1>5. ASSUME NEW r \in Req, BeginRefused(r) PROVE RowInv'
    BY <1>5, <1>0, RowFinish DEF BeginRefused, Open, Downstream, Signals
  <1>6. ASSUME NEW r \in Req, Unlock(r) PROVE RowInv'
    <2>1. reply[r] \in Replies
      BY DEF IInv, TypeOK
    <2>2. reply[r].kind = "snapshot" => Row(r).status = reply[r].status /\ Row(r).snap = reply[r].by
      BY DEF IInv, RowInv, ReplyAgrees
    <2> QED
      BY <1>6, <2>1, <2>2, RowFinish DEF Unlock, Open, Downstream
  <1>7. ASSUME NEW r \in Req, Cancel(r) \/ UnhandledError(r) PROVE RowInv'
    <2>1. pc[r] # "done"
      BY <1>7 DEF Cancel, UnhandledError, Live, Locked, Downstream
    <2> QED
      BY <1>7, <1>0, <2>1, RowFinish DEF Cancel, UnhandledError, Signals
  <1>8. ASSUME NEW r \in Req, Resolve(r) \/ Rewrite(r) \/ ProcessQuery(r) \/ Retrieve(r)
        PROVE RowInv'
    <2>1. /\ plan' \in [Req -> Statuses]
          /\ \A s \in Req : s # r => plan'[s] = plan[s]
          /\ pc[r] \in Downstream
          /\ UNCHANGED <<request, reply, db, calls>>
      BY <1>8 DEF IInv, TypeOK, Resolve, Rewrite, ProcessQuery, Retrieve, Decide, Continue,
                  Downstream, Statuses, Terminal
    <2>2. CASE Goto(r, "persist") /\ plan'[r] \in Terminal \ {"CANNOT_ANSWER"}
      BY <2>1, <2>2, RowStage DEF Open
    <2>3. CASE \E l \in Downstream : Goto(r, l)
      BY <2>1, <2>3, RowStage DEF Open, Downstream
    <2>4. (Goto(r, "persist") /\ plan'[r] \in Terminal \ {"CANNOT_ANSWER"})
          \/ (\E l \in Downstream : Goto(r, l))
      BY <1>8 DEF IInv, TypeOK, Resolve, Rewrite, ProcessQuery, Retrieve, Decide, Continue,
                  Downstream, Terminal
    <2> QED
      BY <2>2, <2>3, <2>4
  <1>9. ASSUME NEW r \in Req, ReCheck(r) \/ BeginTurn(r) \/ Generate(r) \/ Persist(r)
        PROVE RowInv'
    BY <1>9, RowReCheck, RowBegin, RowGenerate, RowPersist
  <1>10. CASE Crash
    BY <1>10, RowCrash
  <1>11. CASE UNCHANGED vars
    BY <1>11 DEF vars, IInv, RowInv, BeginIsFresh, PlanReady, HandlerOwnsTurn, RowShape,
                 ReplyAgrees, OrphanOnlyByFault, CallsSoFar, GenerationBudget, Row
  <1> QED
    BY <1>1, <1>2, <1>3, <1>4, <1>5, <1>6, <1>7, <1>8, <1>9, <1>10, <1>11 DEF Next, Step

\* The inductive invariant holds initially.
LEMMA IInvInit == Init => IInv
  <1> SUFFICES ASSUME Init PROVE IInv
    OBVIOUS
  <1>1. TypeOK
    BY TypeInit
  <1>2. LockSafety
    <2>1. conns = {r \in Req : pc[r] \in Locked \cup {"lock"}}
      BY DEF Init, Locked, Downstream
    <2>2. Cardinality(conns) <= PoolSize
      BY FS_EmptySet, PoolAssumption DEF Init
    <2> QED
      BY <1>1, <2>1, <2>2, NoneAssumption DEF Init, TypeOK, LockSafety, Locked, Downstream
  <1>3. \A c \in Conv, t \in Turn :
           turns[c][t].status = "ABSENT" /\ turns[c][t].snap = NoReq /\ calls[c][t] = 0
    BY DEF Init
  <1>4. \A r \in Req : pc[r] = "idle" /\ reply[r] = Signal("none") /\ Signal("none").kind = "none"
    BY DEF Init, Signal
  <1>5. BeginIsFresh /\ PlanReady /\ HandlerOwnsTurn /\ OrphanOnlyByFault
    BY <1>3, <1>4 DEF BeginIsFresh, PlanReady, HandlerOwnsTurn, OrphanOnlyByFault, Open, Downstream
  <1>6. RowShape /\ ReplyAgrees
    BY <1>3, <1>4 DEF RowShape, ReplyAgrees, Terminal
  <1>7. CallsSoFar /\ GenerationBudget
    BY <1>3, <1>4 DEF CallsSoFar, GenerationBudget, Downstream
  <1> QED
    BY <1>1, <1>2, <1>5, <1>6, <1>7 DEF IInv, RowInv

\* ... and every step keeps it.
LEMMA IInvNext == IInv /\ [Next]_vars => IInv'
  BY TypeNext, LockNext, RowNext DEF IInv, RowInv
-----------------------------------------------------------------------------
\* In every behaviour of the chat handler, whatever is cancelled, raises or
\* crashes, the inductive invariant holds.
THEOREM Invariance == Spec => []IInv
  <1>1. Init => IInv
    BY IInvInit
  <1>2. IInv /\ [Next]_vars => IInv'
    BY IInvNext
  <1> QED
    BY <1>1, <1>2, PTL DEF Spec

\* Every variable of the handler keeps its type.
THEOREM TypeCorrect == Spec => []TypeOK
  BY Invariance, PTL DEF IInv

\* Mutual exclusion per conversation: locked_turn admits one request, and no
\* exit leaks its lock or its pooled connection.
THEOREM LockCorrect == Spec => []LockSafety
  BY Invariance, PTL DEF IInv

\* The insert of begin_turn_and_load_context never meets an existing row.
THEOREM BeginCorrect == Spec => []BeginIsFresh
  <1>1. IInv => BeginIsFresh
    BY DEF IInv, RowInv
  <1> QED
    BY <1>1, Invariance, PTL

\* Over all retries of a client_turn_id, generate() is called at most once.
THEOREM BudgetCorrect == Spec => []GenerationBudget
  <1>1. IInv => GenerationBudget
    BY DEF IInv, RowInv
  <1> QED
    BY <1>1, Invariance, PTL

\* A streamed answer, first or replayed, is the one the turn's row stores.
THEOREM ReplayCorrect == Spec => []ReplayParity
  <1>1. IInv => ReplayParity
    BY DEF IInv, RowInv, ReplyAgrees, ReplayParity
  <1> QED
    BY <1>1, Invariance, PTL

\* A turn is abandoned in PROCESSING only by a cancellation, a crash or an
\* exception no handler names.
THEOREM OrphanCorrect == Spec => []OrphanOnlyByFault
  <1>1. IInv => OrphanOnlyByFault
    BY DEF IInv, RowInv
  <1> QED
    BY <1>1, Invariance, PTL

\* No step rewrites a terminal row: the only writers are the begin-turn
\* transaction, of a row that is absent, and the final transaction, of the
\* PROCESSING row its handler owns.
THEOREM FinalCorrect == Spec => TerminalIsFinal
  <1> DEFINE Kept == \A c \in Conv, t \in Turn :
                turns[c][t].status \in Terminal => turns'[c][t] = turns[c][t]
  <1>1. IInv /\ [Next]_vars => [Kept]_vars
    <2> SUFFICES ASSUME IInv, Next PROVE Kept
      OBVIOUS
    <2>1. ASSUME NEW r \in Req, BeginTurn(r) PROVE Kept
      <3>1. Row(r).status = "ABSENT"
        BY <2>1 DEF BeginTurn
      <3> QED
        BY <2>1, <3>1 DEF IInv, TypeOK, BeginTurn, Row, Terminal
    <2>2. ASSUME NEW r \in Req, Persist(r) PROVE Kept
      <3>1. Row(r).status = "PROCESSING"
        BY <2>2 DEF IInv, RowInv, HandlerOwnsTurn, Persist, Open
      <3> QED
        BY <2>2, <3>1 DEF IInv, TypeOK, Persist, Row, Terminal
    <2>3. CASE UNCHANGED turns
      BY <2>3
    <2>4. ASSUME NEW r \in Req,
                 \/ Send(r) \/ PreCheck(r) \/ Connect(r) \/ PoolTimeout(r) \/ TryLock(r)
                 \/ LockBusy(r) \/ ReCheck(r) \/ BeginRefused(r) \/ Resolve(r) \/ Rewrite(r)
                 \/ ProcessQuery(r) \/ Retrieve(r) \/ Generate(r) \/ Unlock(r) \/ Cancel(r)
                 \/ UnhandledError(r)
          PROVE UNCHANGED turns
      BY <2>4 DEF Send, PreCheck, Connect, PoolTimeout, TryLock, LockBusy, ReCheck,
                  BeginRefused, Resolve, Rewrite, ProcessQuery, Retrieve, Generate, Unlock,
                  Cancel, UnhandledError, db
    <2>5. Crash => UNCHANGED turns
      BY DEF Crash, db
    <2> QED
      BY <2>1, <2>2, <2>3, <2>4, <2>5 DEF Next, Step
  <1> QED
    BY <1>1, Invariance, PTL DEF Spec, TerminalIsFinal
-----------------------------------------------------------------------------
(* The transcript.  SerialTranscript is not inductive: the final transaction *)
(* appends to whatever is last, so the invariant says that the last message  *)
(* is the question of the turn that is open, and that the numbers of the     *)
(* messages' turns have been allocated.                                      *)

Number(c, i) == turns[c][msgs[c][i].turn].no

\* Every message belongs to a turn that was begun.
Numbered ==
    \A c \in Conv : \A i \in 1..Len(msgs[c]) :
        turns[c][msgs[c][i].turn].status # "ABSENT" /\ Number(c, i) < nextNo[c]

\* While a turn is open the transcript ends with its question.
OpenIsLast ==
    \A r \in Req : pc[r] \in Open =>
        /\ Len(msgs[conv[r]]) > 0
        /\ msgs[conv[r]][Len(msgs[conv[r]])] = [turn |-> cid[r], role |-> "USER"]

SerialInv == SerialTranscript /\ Numbered /\ OpenIsLast

\* SerialTranscript of one conversation, with the numbers named.
Serial(c) ==
    \A i, j \in 1..Len(msgs[c]) : i < j =>
        /\ Number(c, i) <= Number(c, j)
        /\ Number(c, i) = Number(c, j) => /\ j = i + 1
                                          /\ msgs[c][i].turn = msgs[c][j].turn
                                          /\ msgs[c][i].role = "USER"
                                          /\ msgs[c][j].role = "ASSISTANT"
        /\ Number(c, j) < nextNo[c]

LEMMA SerialByConversation == SerialTranscript <=> \A c \in Conv : Serial(c)
  BY DEF SerialTranscript, Serial, Number

\* The type of what a message's number is computed from.
LEMMA MessageTypes ==
    ASSUME TypeOK, NEW c \in Conv
    PROVE  /\ msgs[c] \in Seq(Message) /\ Len(msgs[c]) \in Nat /\ nextNo[c] \in Nat
           /\ \A i \in 1..Len(msgs[c]) : msgs[c][i] \in Message /\ msgs[c][i].turn \in Turn
                                         /\ Number(c, i) \in Nat
  <1>1. msgs[c] \in Seq(Message) /\ Len(msgs[c]) \in Nat /\ nextNo[c] \in Nat
    BY DEF TypeOK
  <1>2. ASSUME NEW i \in 1..Len(msgs[c]) PROVE msgs[c][i] \in Message
    BY <1>1, <1>2
  <1>3. \A t \in Turn : turns[c][t].no \in Nat
    BY DEF TypeOK, TurnRecord
  <1> QED
    BY <1>1, <1>2, <1>3 DEF Message, Number

\* A step that writes no row and opens no turn.
LEMMA SerialQuiet ==
    ASSUME SerialInv, UNCHANGED <<conv, cid, turns, msgs, nextNo>>,
           \A s \in Req : pc'[s] \in Open => pc[s] \in Open
    PROVE  SerialInv'
  <1>1. SerialTranscript'
    BY DEF SerialInv, SerialTranscript
  <1>2. Numbered'
    BY DEF SerialInv, Numbered, Number
  <1>3. OpenIsLast'
    BY DEF SerialInv, OpenIsLast
  <1> QED
    BY <1>1, <1>2, <1>3 DEF SerialInv

\* The begin-turn transaction appends a question with a number above all.
LEMMA SerialBegin ==
    ASSUME IInv, SerialInv, NEW r \in Req, BeginTurn(r) PROVE SerialInv'
  <1> USE DEF IInv
  <1>a. conv[r] \in Conv /\ cid[r] \in Turn
    BY DEF TypeOK
  <1>b. PICK c \in Conv : c = conv[r]
    BY <1>a
  <1>c. PICK n \in Nat : n = Len(msgs[c])
    BY MessageTypes
  <1> DEFINE m == [turn |-> cid[r], role |-> "USER"]
  <1>0. c = conv[r] /\ cid[r] \in Turn /\ pc[r] = "begin" /\ Row(r).status = "ABSENT"
    BY <1>a, <1>b DEF BeginTurn
  <1>1. /\ msgs[c] \in Seq(Message) /\ n = Len(msgs[c]) /\ nextNo[c] \in Nat
        /\ \A i \in 1..n : msgs[c][i].turn \in Turn /\ Number(c, i) \in Nat
    BY <1>c, MessageTypes
  <1>2. /\ msgs'[c] = Append(msgs[c], m) /\ nextNo'[c] = nextNo[c] + 1
        /\ \A d \in Conv : d # c => msgs'[d] = msgs[d] /\ nextNo'[d] = nextNo[d]
                                    /\ turns'[d] = turns[d]
        /\ turns'[c][cid[r]].no = nextNo[c] /\ turns'[c][cid[r]].status = "PROCESSING"
        /\ \A t \in Turn : t # cid[r] => turns'[c][t] = turns[c][t]
        /\ UNCHANGED <<conv, cid>>
    BY <1>0 DEF BeginTurn, TypeOK, request
  <1>3. /\ Len(msgs'[c]) = n + 1 /\ msgs'[c][n + 1] = m
        /\ \A i \in 1..n : msgs'[c][i] = msgs[c][i]
    BY <1>1, <1>2
  <1>4. \A i \in 1..n : /\ msgs[c][i].turn # cid[r]
                        /\ Number(c, i)' = Number(c, i) /\ Number(c, i) < nextNo[c]
                        /\ turns'[c][msgs[c][i].turn].status # "ABSENT"
    <2> SUFFICES ASSUME NEW i \in 1..n
                 PROVE  /\ msgs[c][i].turn # cid[r]
                        /\ Number(c, i)' = Number(c, i) /\ Number(c, i) < nextNo[c]
                        /\ turns'[c][msgs[c][i].turn].status # "ABSENT"
      OBVIOUS
    <2>1. turns[c][msgs[c][i].turn].status # "ABSENT" /\ Number(c, i) < nextNo[c]
      BY <1>1 DEF SerialInv, Numbered
    <2>2. msgs[c][i].turn # cid[r] /\ msgs[c][i].turn \in Turn
      BY <1>0, <1>1, <2>1 DEF Row
    <2>3. turns'[c][msgs[c][i].turn] = turns[c][msgs[c][i].turn]
      BY <1>2, <2>2
    <2> QED
      BY <1>3, <2>1, <2>2, <2>3 DEF Number
  <1>5. Number(c, n + 1)' = nextNo[c]
    BY <1>2, <1>3 DEF Number
  <1>6. Serial(c)'
    <2> SUFFICES ASSUME NEW i \in 1..(n + 1), NEW j \in 1..(n + 1), i < j
                 PROVE  /\ Number(c, i)' <= Number(c, j)'
                        /\ Number(c, i)' = Number(c, j)' =>
                              /\ j = i + 1
                              /\ msgs'[c][i].turn = msgs'[c][j].turn
                              /\ msgs'[c][i].role = "USER"
                              /\ msgs'[c][j].role = "ASSISTANT"
                        /\ Number(c, j)' < nextNo'[c]
      BY <1>2, <1>3 DEF Serial
    <2>1. i \in 1..n
      BY <1>1
    <2>2. CASE j \in 1..n
      <3>1. Serial(c)
        BY <1>0, SerialByConversation DEF SerialInv
      <3>2. /\ Number(c, i)' = Number(c, i) /\ Number(c, j)' = Number(c, j)
            /\ msgs'[c][i] = msgs[c][i] /\ msgs'[c][j] = msgs[c][j]
            /\ Number(c, i) \in Nat /\ Number(c, j) \in Nat
        BY <1>1, <1>3, <1>4, <2>1, <2>2
      <3>3. /\ Number(c, i) <= Number(c, j)
            /\ Number(c, i) = Number(c, j) => /\ j = i + 1
                                              /\ msgs[c][i].turn = msgs[c][j].turn
                                              /\ msgs[c][i].role = "USER"
                                              /\ msgs[c][j].role = "ASSISTANT"
            /\ Number(c, j) < nextNo[c]
        BY <1>1, <2>1, <2>2, <3>1 DEF Serial
      <3> QED
        BY <1>1, <1>2, <3>2, <3>3
    <2>3. CASE j = n + 1
      <3>1. Number(c, i)' < nextNo[c] /\ Number(c, j)' = nextNo[c]
        BY <1>4, <1>5, <2>1, <2>3
      <3>2. Number(c, i)' \in Nat /\ nextNo[c] \in Nat /\ nextNo'[c] = nextNo[c] + 1
        BY <1>1, <1>2, <1>4, <2>1
      <3> QED
        BY <3>1, <3>2
    <2>4. j \in 1..n \/ j = n + 1
      BY <1>1
    <2> QED
      BY <2>2, <2>3, <2>4
  <1>7. \A d \in Conv : Serial(d)'
    <2> SUFFICES ASSUME NEW d \in Conv, d # c PROVE Serial(d)'
      BY <1>6
    <2> QED
      <3>1. Serial(d)
        BY SerialByConversation DEF SerialInv
      <3>2. msgs'[d] = msgs[d] /\ turns'[d] = turns[d] /\ nextNo'[d] = nextNo[d]
        BY <1>2
      <3> QED
        BY <3>1, <3>2 DEF Serial, Number
  <1>8. Numbered'
    <2> SUFFICES ASSUME NEW d \in Conv, NEW i \in 1..Len(msgs'[d])
                 PROVE turns'[d][msgs'[d][i].turn].status # "ABSENT" /\ Number(d, i)' < nextNo'[d]
      BY DEF Numbered
    <2>1. CASE d # c
      BY <1>2, <2>1 DEF SerialInv, Numbered, Number
    <2>2. CASE d = c /\ i \in 1..n
      <3>1. msgs'[c][i] = msgs[c][i] /\ Number(c, i)' = Number(c, i) /\ Number(c, i) \in Nat
        BY <1>1, <1>3, <1>4, <2>2
      <3>2. /\ turns'[c][msgs[c][i].turn].status # "ABSENT" /\ Number(c, i) < nextNo[c]
            /\ nextNo[c] \in Nat /\ nextNo'[c] = nextNo[c] + 1
        BY <1>1, <1>2, <1>4, <2>2
      <3> QED
        BY <2>2, <3>1, <3>2
    <2>3. CASE d = c /\ i = n + 1
      BY <1>1, <1>2, <1>3, <1>5, <2>3
    <2> QED
      BY <1>1, <1>3, <2>1, <2>2, <2>3
  <1>9. OpenIsLast'
    <2> SUFFICES ASSUME NEW s \in Req, pc'[s] \in Open
                 PROVE /\ Len(msgs'[conv[s]]) > 0
                       /\ msgs'[conv[s]][Len(msgs'[conv[s]])] = [turn |-> cid[s], role |-> "USER"]
      BY <1>2 DEF OpenIsLast
    <2>1. CASE s = r
      BY <1>0, <1>1, <1>3, <2>1
    <2>2. CASE s # r
      <3>1. pc[s] \in Open
        BY <2>2 DEF BeginTurn, Goto, TypeOK
      <3>2. conv[s] # c
        BY <1>0, <2>2, <3>1, Exclusive DEF Open, Locked
      <3> QED
        BY <1>2, <3>1, <3>2 DEF SerialInv, OpenIsLast, TypeOK
    <2> QED
      BY <2>1, <2>2
  <1>10. SerialTranscript'
    BY <1>7 DEF SerialTranscript, Serial, Number
  <1> QED
    BY <1>8, <1>9, <1>10 DEF SerialInv

\* The final transaction appends an answer to the question it belongs to.
LEMMA SerialPersist ==
    ASSUME IInv, SerialInv, NEW r \in Req, Persist(r) PROVE SerialInv'
  <1> USE DEF IInv
  <1>a. conv[r] \in Conv /\ cid[r] \in Turn
    BY DEF TypeOK
  <1>b. PICK c \in Conv : c = conv[r]
    BY <1>a
  <1>c. PICK n \in Nat : n = Len(msgs[c])
    BY MessageTypes
  <1> DEFINE m == [turn |-> cid[r], role |-> "ASSISTANT"]
  <1>0. /\ c = conv[r] /\ cid[r] \in Turn /\ pc[r] \in Open /\ pc'[r] = "unlock"
        /\ \A s \in Req : s # r => pc'[s] = pc[s]
        /\ plan[r] \in Terminal
    BY <1>a, <1>b DEF Persist, Goto, TypeOK, Open, RowInv, PlanReady
  <1>1. /\ msgs[c] \in Seq(Message) /\ n = Len(msgs[c]) /\ nextNo[c] \in Nat
        /\ \A i \in 1..n : msgs[c][i].turn \in Turn /\ Number(c, i) \in Nat
    BY <1>c, MessageTypes
  <1>2. /\ nextNo' = nextNo /\ UNCHANGED <<conv, cid>>
        /\ \A d \in Conv : d # c => msgs'[d] = msgs[d] /\ turns'[d] = turns[d]
        /\ \A t \in Turn : turns'[c][t].no = turns[c][t].no
        /\ turns'[c][cid[r]].status # "ABSENT"
        /\ \A t \in Turn : t # cid[r] => turns'[c][t] = turns[c][t]
    BY <1>0 DEF Persist, TypeOK, Row, Terminal, request
  <1>3. /\ n > 0 /\ msgs[c][n].turn = cid[r] /\ msgs[c][n].role = "USER"
        /\ n \in 1..n
    <2>1. n > 0 /\ msgs[c][n] = [turn |-> cid[r], role |-> "USER"]
      BY <1>0, <1>1 DEF SerialInv, OpenIsLast
    <2> QED
      BY <2>1
  <1>4. \/ msgs'[c] = msgs[c]
        \/ /\ msgs'[c] = Append(msgs[c], m)
           /\ Len(msgs'[c]) = n + 1 /\ msgs'[c][n + 1] = m
           /\ \A i \in 1..n : msgs'[c][i] = msgs[c][i]
    <2>1. msgs'[c] = msgs[c] \/ msgs'[c] = Append(msgs[c], m)
      BY <1>0 DEF Persist, TypeOK
    <2> QED
      BY <1>1, <2>1
  <1>5. \A i \in 1..n : /\ Number(c, i)' = Number(c, i) /\ Number(c, i) < nextNo[c]
                        /\ msgs'[c][i] = msgs[c][i]
                        /\ turns'[c][msgs[c][i].turn].status # "ABSENT"
    <2> SUFFICES ASSUME NEW i \in 1..n
                 PROVE  /\ Number(c, i)' = Number(c, i) /\ Number(c, i) < nextNo[c]
                        /\ msgs'[c][i] = msgs[c][i]
                        /\ turns'[c][msgs[c][i].turn].status # "ABSENT"
      OBVIOUS
    <2>1. turns[c][msgs[c][i].turn].status # "ABSENT" /\ Number(c, i) < nextNo[c]
      BY <1>1 DEF SerialInv, Numbered
    <2>2. msgs'[c][i] = msgs[c][i] /\ msgs[c][i].turn \in Turn
      BY <1>1, <1>4
    <2>3. /\ turns'[c][msgs[c][i].turn].no = turns[c][msgs[c][i].turn].no
          /\ turns'[c][msgs[c][i].turn].status # "ABSENT"
      BY <1>2, <2>1, <2>2
    <2> QED
      BY <2>1, <2>2, <2>3 DEF Number
  <1>6. /\ Serial(c)
        /\ \A i \in 1..n : i < n => Number(c, i) < Number(c, n)
    <2>1. Serial(c)
      BY SerialByConversation DEF SerialInv
    <2>2. ASSUME NEW i \in 1..n, i < n PROVE Number(c, i) < Number(c, n)
      <3>1. /\ Number(c, i) <= Number(c, n)
            /\ Number(c, i) = Number(c, n) => msgs[c][n].role = "ASSISTANT"
        BY <1>1, <1>3, <2>1, <2>2 DEF Serial
      <3> QED
        BY <1>1, <1>3, <3>1
    <2> QED
      BY <2>1, <2>2
  <1>7. msgs'[c] # msgs[c] => Number(c, n + 1)' = Number(c, n)
    BY <1>0, <1>2, <1>3, <1>4 DEF Number
  <1>8. Serial(c)'
    <2> SUFFICES ASSUME NEW i \in 1..Len(msgs'[c]), NEW j \in 1..Len(msgs'[c]), i < j
                 PROVE  /\ Number(c, i)' <= Number(c, j)'
                        /\ Number(c, i)' = Number(c, j)' =>
                              /\ j = i + 1
                              /\ msgs'[c][i].turn = msgs'[c][j].turn
                              /\ msgs'[c][i].role = "USER"
                              /\ msgs'[c][j].role = "ASSISTANT"
                        /\ Number(c, j)' < nextNo'[c]
      BY DEF Serial
    <2>1. i \in 1..n /\ (j \in 1..n \/ (j = n + 1 /\ msgs'[c] # msgs[c]))
      BY <1>1, <1>4
    <2>2. CASE j \in 1..n
      <3>1. /\ Number(c, i) <= Number(c, j)
            /\ Number(c, i) = Number(c, j) => /\ j = i + 1
                                              /\ msgs[c][i].turn = msgs[c][j].turn
                                              /\ msgs[c][i].role = "USER"
                                              /\ msgs[c][j].role = "ASSISTANT"
            /\ Number(c, j) < nextNo[c]
        BY <1>1, <1>6, <2>1, <2>2 DEF Serial
      <3> QED
        BY <1>2, <1>5, <2>1, <2>2, <3>1
    <2>3. CASE j = n + 1 /\ msgs'[c] # msgs[c]
      <3>1. /\ Number(c, j)' = Number(c, n) /\ Number(c, i)' = Number(c, i)
            /\ Number(c, n) < nextNo[c] /\ Number(c, i) \in Nat /\ Number(c, n) \in Nat
            /\ msgs'[c][i] = msgs[c][i] /\ msgs'[c][j] = m
        BY <1>1, <1>3, <1>4, <1>5, <1>7, <2>1, <2>3
      <3>2. i # n => Number(c, i) < Number(c, n)
        BY <1>6, <2>1
      <3> QED
        BY <1>2, <1>3, <2>1, <2>3, <3>1, <3>2
    <2> QED
      BY <2>1, <2>2, <2>3
  <1>9. \A d \in Conv : Serial(d)'
    <2> SUFFICES ASSUME NEW d \in Conv, d # c PROVE Serial(d)'
      BY <1>8
    <2>1. msgs'[d] = msgs[d] /\ turns'[d] = turns[d] /\ nextNo'[d] = nextNo[d] /\ Serial(d)
      BY <1>2, SerialByConversation DEF SerialInv
    <2> QED
      BY <2>1 DEF Serial, Number
  <1>10. Numbered'
    <2> SUFFICES ASSUME NEW d \in Conv, NEW i \in 1..Len(msgs'[d])
                 PROVE turns'[d][msgs'[d][i].turn].status # "ABSENT" /\ Number(d, i)' < nextNo'[d]
      BY DEF Numbered
    <2>1. CASE d # c
      BY <1>2, <2>1 DEF SerialInv, Numbered, Number
    <2>2. CASE d = c /\ i \in 1..n
      BY <1>2, <1>5, <2>2
    <2>3. CASE d = c /\ i = n + 1 /\ msgs'[c] # msgs[c]
      <3>1. Number(c, i)' = Number(c, n) /\ Number(c, n) < nextNo[c] /\ msgs'[c][i] = m
        BY <1>3, <1>4, <1>5, <1>7, <2>3
      <3> QED
        BY <1>2, <2>3, <3>1
    <2> QED
      BY <1>1, <1>4, <2>1, <2>2, <2>3
  <1>11. OpenIsLast'
    <2> SUFFICES ASSUME NEW s \in Req, pc'[s] \in Open
                 PROVE /\ Len(msgs'[conv[s]]) > 0
                       /\ msgs'[conv[s]][Len(msgs'[conv[s]])] = [turn |-> cid[s], role |-> "USER"]
      BY <1>2 DEF OpenIsLast
    <2>1. s # r /\ pc[s] \in Open
      BY <1>0 DEF Open, Downstream
    <2>2. conv[s] # c
      BY <1>0, <2>1, Exclusive DEF Open, Locked
    <2> QED
      BY <1>2, <2>1, <2>2 DEF SerialInv, OpenIsLast, TypeOK
  <1>12. SerialTranscript'
    BY <1>9 DEF SerialTranscript, Serial, Number
  <1> QED
    BY <1>10, <1>11, <1>12 DEF SerialInv

LEMMA SerialNext == IInv /\ SerialInv /\ [Next]_vars => SerialInv'
  <1> SUFFICES ASSUME IInv, SerialInv, [Next]_vars PROVE SerialInv'
    OBVIOUS
  <1>1. ASSUME NEW r \in Req, BeginTurn(r) PROVE SerialInv'
    BY <1>1, SerialBegin
  <1>2. ASSUME NEW r \in Req, Persist(r) PROVE SerialInv'
    BY <1>2, SerialPersist
  <1>3. ASSUME NEW r \in Req, NEW x, Finish(r, x), UNCHANGED <<request, db>> PROVE SerialInv'
    <2>1. \A s \in Req : pc'[s] \in Open => pc[s] \in Open
      BY <1>3 DEF Finish, IInv, TypeOK, Open, Downstream
    <2> QED
      BY <1>3, <2>1, SerialQuiet DEF request, db
  <1>4. ASSUME NEW r \in Req, NEW l, Goto(r, l), UNCHANGED <<request, db>>,
               l \in Open => pc[r] \in Open
        PROVE SerialInv'
    <2>1. \A s \in Req : pc'[s] \in Open => pc[s] \in Open
      BY <1>4 DEF Goto, IInv, TypeOK
    <2> QED
      BY <1>4, <2>1, SerialQuiet DEF request, db
  <1>5. ASSUME NEW r \in Req, Send(r) \/ PreCheck(r) \/ Connect(r) \/ TryLock(r) \/ ReCheck(r)
        PROVE SerialInv'
    BY <1>3, <1>4, <1>5 DEF Send, PreCheck, Connect, TryLock, ReCheck, Open, Downstream
  <1>6. ASSUME NEW r \in Req, Resolve(r) \/ Rewrite(r) \/ ProcessQuery(r) \/ Retrieve(r)
                               \/ Generate(r)
        PROVE SerialInv'
    BY <1>4, <1>6 DEF Resolve, Rewrite, ProcessQuery, Retrieve, Generate, Decide, Continue,
                      Open, Downstream
  <1>7. ASSUME NEW r \in Req, PoolTimeout(r) \/ LockBusy(r) \/ BeginRefused(r) \/ Unlock(r)
                               \/ Cancel(r) \/ UnhandledError(r)
        PROVE SerialInv'
    BY <1>3, <1>7 DEF PoolTimeout, LockBusy, BeginRefused, Unlock, Cancel, UnhandledError
  <1>8. CASE Crash
    <2>1. \A s \in Req : pc'[s] \in Open => pc[s] \in Open
      BY <1>8 DEF Crash, IInv, TypeOK, Open, Downstream
    <2> QED
      BY <1>8, <2>1, SerialQuiet DEF Crash, request, db
  <1>9. CASE UNCHANGED vars
    BY <1>9, SerialQuiet DEF vars
  <1> QED
    BY <1>1, <1>2, <1>5, <1>6, <1>7, <1>8, <1>9 DEF Next, Step

\* The transcript of every conversation is serial: questions in the order of
\* their turn numbers, each answer directly after its question, whatever
\* requests raced, were retried or died (next_user_turn_no, _next_ordinal).
THEOREM SerialCorrect == Spec => []SerialTranscript
  <1>1. Init => SerialInv
    <2> SUFFICES ASSUME Init PROVE SerialInv
      OBVIOUS
    <2>1. \A c \in Conv : Len(msgs[c]) = 0
      BY DEF Init
    <2>2. \A r \in Req : pc[r] \notin Open
      BY DEF Init, Open, Downstream
    <2> QED
      BY <2>1, <2>2 DEF SerialInv, SerialTranscript, Numbered, OpenIsLast
  <1>2. IInv /\ SerialInv /\ [Next]_vars => SerialInv'
    BY SerialNext
  <1>3. SerialInv => SerialTranscript
    BY DEF SerialInv
  <1> QED
    BY <1>1, <1>2, <1>3, Invariance, PTL DEF Spec
-----------------------------------------------------------------------------
(* The handler implements TurnLedger.  The proof follows the mapping that    *)
(* Ledger states: begin-turn opens the entry, the final transaction closes   *)
(* it, every way to end a request answers it, and the rest is invisible.     *)

Entries == [c \in Conv |-> [t \in Turn |->
               [status |-> turns[c][t].status, by |-> turns[c][t].snap]]]
Executions == [c \in Conv |-> Executing(c)]
Answers == [r \in Req |-> Answered(r)]
Wants == [r \in Req |-> <<conv[r], cid[r]>>]

\* The ledger's view of a request's row.
Entry(r) == [status |-> Row(r).status, by |-> Row(r).snap]

LEMMA EntryOfRequest ==
    ASSUME TypeOK, NEW r \in Req
    PROVE  /\ Wants[r] = <<conv[r], cid[r]>> /\ Wants[r][1] = conv[r] /\ Wants[r][2] = cid[r]
           /\ Entries[conv[r]][cid[r]] = Entry(r)
  BY DEF TypeOK, Wants, Entries, Entry, Row

\* While no turn is open under a lock, nothing is being executed.
LEMMA NotExecuting ==
    ASSUME NEW c \in Conv, lock[c] = NoReq \/ pc[lock[c]] \notin Open
    PROVE  Executing(c) = NoTurn
  BY DEF Executing

LEMMA IsExecuting ==
    ASSUME IInv, NEW r \in Req, pc[r] \in Open
    PROVE  Executing(conv[r]) = cid[r]
  <1>1. lock[conv[r]] = r
    BY DEF IInv, LockSafety, Open, Locked
  <1> QED
    BY <1>1, NoneAssumption DEF Executing

\* Ending a request stops the execution it was in, and no other.
LEMMA ExecutionsFinish ==
    ASSUME IInv, NEW r \in Req, NEW x, Finish(r, x), UNCHANGED request
    PROVE  \/ pc[r] \in Open /\ Executions' = [Executions EXCEPT ![conv[r]] = NoTurn]
           \/ pc[r] \notin Open /\ Executions' = Executions
  <1>0. /\ \A s \in Req : s # r => pc'[s] = pc[s]
        /\ \A c \in Conv : lock'[c] = IF lock[c] = r THEN NoReq ELSE lock[c]
        /\ conv' = conv /\ cid' = cid
    BY DEF Finish, IInv, TypeOK, request
  <1>1. \A c \in Conv : Executing(c)' = IF lock[c] = r THEN NoTurn ELSE Executing(c)
    BY <1>0 DEF Executing, IInv, TypeOK
  <1>2. CASE pc[r] \in Open
    <2>1. \A c \in Conv : lock[c] = r <=> c = conv[r]
      BY <1>2, NoneAssumption DEF IInv, LockSafety, TypeOK, Open, Locked
    <2> QED
      BY <1>1, <1>2, <2>1 DEF Executions
  <1>3. CASE pc[r] \notin Open
    <2>1. \A c \in Conv : lock[c] = r => Executing(c) = NoTurn
      BY <1>3 DEF Executing
    <2> QED
      BY <1>1, <1>3, <2>1 DEF Executions
  <1> QED
    BY <1>2, <1>3

\* The answer a request gets is the reply it ends with.
LEMMA AnswersFinish ==
    ASSUME IInv, NEW r \in Req, NEW x, Finish(r, x), pc[r] # "done"
    PROVE  /\ Answers[r] = [status |-> "none", by |-> NoReq]
           /\ Answers' = [Answers EXCEPT ![r] =
                 [by |-> x.by,
                  status |-> CASE x.kind = "snapshot" -> x.status
                               [] x.kind = "processing" -> "PROCESSING"
                               [] OTHER -> x.kind]]
  <1>0. /\ \A s \in Req : s # r => pc'[s] = pc[s] /\ reply'[s] = reply[s]
        /\ pc'[r] = "done" /\ reply'[r] = x
    BY DEF Finish, IInv, TypeOK
  <1>1. \A s \in Req : s # r => Answered(s)' = Answered(s)
    BY <1>0 DEF Answered
  <1>2. Answered(r)' = [by |-> x.by,
                        status |-> CASE x.kind = "snapshot" -> x.status
                                     [] x.kind = "processing" -> "PROCESSING"
                                     [] OTHER -> x.kind]
    BY <1>0 DEF Answered
  <1>3. Answers[r] = [status |-> "none", by |-> NoReq]
    BY DEF Answered, Answers
  <1> QED
    BY <1>1, <1>2, <1>3 DEF Answers

\* A request that is refused, wherever it is.
LEMMA RefusalMaps ==
    ASSUME IInv, NEW r \in Req, NEW k \in {"busy", "not_found", "error", "lost"},
           Finish(r, Signal(k)), pc[r] # "done", UNCHANGED <<request, db>>
    PROVE  Ledger!Answer(r)
  <1>1. Signal(k).kind = k /\ Signal(k).by = NoReq
    BY DEF Signal
  <1>2. /\ Answers[r] = [status |-> "none", by |-> NoReq]
        /\ Answers' = [Answers EXCEPT ![r] = [status |-> k, by |-> NoReq]]
    BY <1>1, AnswersFinish
  <1>3. Entries' = Entries /\ Wants' = Wants
    BY DEF Entries, Wants, request, db
  <1>4. \/ Executions' = Executions
        \/ Executions[conv[r]] = cid[r] /\ Executions' = [Executions EXCEPT ![conv[r]] = NoTurn]
    <2>1. conv[r] \in Conv
      BY DEF IInv, TypeOK
    <2>2. pc[r] \in Open => Executions[conv[r]] = cid[r]
      BY <2>1, IsExecuting DEF Executions
    <2>3. \/ pc[r] \in Open /\ Executions' = [Executions EXCEPT ![conv[r]] = NoTurn]
          \/ pc[r] \notin Open /\ Executions' = Executions
      BY ExecutionsFinish
    <2> QED
      BY <2>2, <2>3
  <1>5. Wants[r][1] = conv[r] /\ Wants[r][2] = cid[r]
    BY EntryOfRequest DEF IInv
  <1>6. [status |-> k, by |-> NoReq] \in Ledger!Refusals
    BY DEF Ledger!Refusals
  <1>7. /\ Answers[r] = Ledger!Pending
        /\ \E x \in Ledger!Refusals : Answers' = [Answers EXCEPT ![r] = x]
    BY <1>2, <1>6 DEF Ledger!Pending
  <1> QED
    BY <1>3, <1>4, <1>5, <1>7 DEF Ledger!Answer, Answers, Entries, Wants, Executions

\* A request that is answered from its row.
LEMMA ReplayMaps ==
    ASSUME IInv, NEW r \in Req, NEW x \in Replies, Finish(r, x), pc[r] \notin Open \cup {"done"},
           UNCHANGED <<request, db>>, Row(r).status # "ABSENT",
           \/ x.kind = "snapshot" /\ Row(r).status = x.status /\ Row(r).snap = x.by
           \/ x = Signal("processing") /\ Row(r).status = "PROCESSING"
    PROVE  Ledger!Answer(r)
  <1>1. [by |-> x.by, status |-> CASE x.kind = "snapshot" -> x.status
                                   [] x.kind = "processing" -> "PROCESSING"
                                   [] OTHER -> x.kind] = Entry(r)
    <2>1. Row(r).status = "PROCESSING" => Row(r).snap = NoReq
      <3>1. conv[r] \in Conv /\ cid[r] \in Turn /\ RowShape
        BY DEF IInv, RowInv, TypeOK
      <3> QED
        BY <3>1 DEF RowShape, Row, Terminal
    <2> QED
      BY <2>1 DEF Entry, Signal
  <1>2. /\ Answers[r] = [status |-> "none", by |-> NoReq]
        /\ Answers' = [Answers EXCEPT ![r] = Entry(r)]
    BY <1>1, AnswersFinish
  <1>3. Entries' = Entries /\ Wants' = Wants
    BY DEF Entries, Wants, request, db
  <1>4. Executions' = Executions
    BY ExecutionsFinish
  <1>5. Wants[r][1] = conv[r] /\ Wants[r][2] = cid[r] /\ Entries[conv[r]][cid[r]] = Entry(r)
    BY EntryOfRequest DEF IInv
  <1>6. Entry(r) # Ledger!Absent /\ Answers[r] = Ledger!Pending
    BY <1>2 DEF Ledger!Absent, Ledger!Pending, Entry
  <1> QED
    BY <1>2, <1>3, <1>4, <1>5, <1>6 DEF Ledger!Answer, Answers, Entries, Wants, Executions

\* A step inside the handler that the ledger does not see.
LEMMA StutterMaps ==
    ASSUME UNCHANGED <<conv, cid, turns>>,
           \A c \in Conv : Executing(c)' = Executing(c),
           \A s \in Req : Answered(s)' = Answered(s)
    PROVE  UNCHANGED Ledger!ledgerVars
  <1>1. Entries' = Entries /\ Wants' = Wants /\ Executions' = Executions /\ Answers' = Answers
    BY DEF Entries, Wants, Executions, Answers
  <1> QED
    BY <1>1 DEF Ledger!ledgerVars, Entries, Wants, Executions, Answers

\* A move of the handler that neither opens nor ends a turn.
LEMMA GotoMaps ==
    ASSUME IInv, NEW r \in Req, NEW l, Goto(r, l), pc[r] # "done", l # "done",
           UNCHANGED <<conv, cid, turns, lock, reply>>, l \in Open <=> pc[r] \in Open
    PROVE  UNCHANGED Ledger!ledgerVars
  <1>1. \A s \in Req : /\ pc'[s] \in Open <=> pc[s] \in Open
                       /\ pc'[s] = "done" <=> pc[s] = "done"
    BY DEF Goto, IInv, TypeOK
  <1>2. \A c \in Conv : Executing(c)' = Executing(c)
    <2> SUFFICES ASSUME NEW c \in Conv PROVE Executing(c)' = Executing(c)
      OBVIOUS
    <2>1. lock[c] # NoReq => lock[c] \in Req
      BY DEF IInv, TypeOK
    <2> QED
      BY <1>1, <2>1 DEF Executing
  <1>3. \A s \in Req : Answered(s)' = Answered(s)
    BY <1>1 DEF Answered
  <1> QED
    BY <1>2, <1>3, StutterMaps

\* The poll that gets the advisory lock executes nothing yet.
LEMMA TryLockMaps ==
    ASSUME IInv, NEW r \in Req, TryLock(r) PROVE UNCHANGED Ledger!ledgerVars
  <1>1. /\ \A s \in Req : s # r => pc'[s] = pc[s]
        /\ pc[r] = "lock" /\ pc'[r] = "recheck" /\ "recheck" \notin Open /\ "lock" \notin Open
        /\ lock[conv[r]] = NoReq /\ lock'[conv[r]] = r
        /\ \A c \in Conv : c # conv[r] => lock'[c] = lock[c]
        /\ UNCHANGED <<conv, cid, turns, reply>>
    BY DEF TryLock, Goto, IInv, TypeOK, Open, Downstream, request, db
  <1>2. ASSUME NEW c \in Conv PROVE Executing(c)' = Executing(c)
    <2>1. CASE c = conv[r]
      BY <1>1, <2>1 DEF Executing
    <2>2. CASE c # conv[r]
      <3>1. lock[c] # NoReq => lock[c] \in Req /\ lock[c] # r
        BY <2>2 DEF IInv, TypeOK, LockSafety
      <3> QED
        BY <1>1, <2>2, <3>1 DEF Executing
    <2> QED
      BY <2>1, <2>2
  <1>3. \A s \in Req : Answered(s)' = Answered(s)
    BY <1>1 DEF Answered
  <1> QED
    BY <1>1, <1>2, <1>3, StutterMaps

\* An update of one entry of a table by conversation and turn.
LEMMA UpdateOne ==
    ASSUME NEW E, E = [c \in Conv |-> [t \in Turn |-> E[c][t]]],
           NEW d \in Conv, NEW u \in Turn, NEW x
    PROVE  [E EXCEPT ![d][u] = x] =
              [c \in Conv |-> [t \in Turn |-> IF c = d /\ t = u THEN x ELSE E[c][t]]]
  <1> DEFINE F == [E EXCEPT ![d][u] = x]
             G == [c \in Conv |-> [t \in Turn |-> IF c = d /\ t = u THEN x ELSE E[c][t]]]
  <1>1. \A c \in Conv : E[c] = [t \in Turn |-> E[c][t]]
    OBVIOUS
  <1>2. F = [c \in Conv |-> IF c = d THEN [E[d] EXCEPT ![u] = x] ELSE E[c]]
    OBVIOUS
  <1>3. [E[d] EXCEPT ![u] = x] = [t \in Turn |-> IF t = u THEN x ELSE E[d][t]]
    BY <1>1
  <1>4. ASSUME NEW c \in Conv
        PROVE (IF c = d THEN [E[d] EXCEPT ![u] = x] ELSE E[c])
                 = [t \in Turn |-> IF c = d /\ t = u THEN x ELSE E[c][t]]
    <2>1. CASE c = d
      BY <1>3, <2>1
    <2>2. CASE c # d
      BY <1>1, <2>2
    <2> QED
      BY <2>1, <2>2
  <1> QED
    BY <1>2, <1>4

LEMMA EntriesShape == Entries = [c \in Conv |-> [t \in Turn |-> Entries[c][t]]]
  BY DEF Entries

\* begin_turn_and_load_context opens the entry: it was absent, and no other
\* turn of the conversation is being executed.
LEMMA BeginMaps ==
    ASSUME IInv, NEW r \in Req, BeginTurn(r), NEW d \in Conv, d = conv[r], NEW u \in Turn, u = cid[r]
    PROVE  Ledger!OpenEntry(d, u)
  <1>0. conv[r] \in Conv /\ cid[r] \in Turn
    BY DEF IInv, TypeOK
  <1>1. /\ \A s \in Req : s # r => pc'[s] = pc[s]
        /\ pc[r] = "begin" /\ pc'[r] = "resolve" /\ "begin" \notin Open /\ "resolve" \in Open
        /\ UNCHANGED <<conv, cid, reply, lock>>
    BY DEF BeginTurn, Goto, IInv, TypeOK, Open, Downstream, request
  <1>2. lock[conv[r]] = r
    BY <1>1 DEF IInv, LockSafety, Locked
  <1>3. Executions[conv[r]] = NoTurn /\ Executions' = [Executions EXCEPT ![conv[r]] = cid[r]]
    <2>1. Executing(conv[r]) = NoTurn /\ Executing(conv[r])' = cid[r]
      BY <1>1, <1>2, NoneAssumption DEF Executing
    <2>2. ASSUME NEW c \in Conv, c # conv[r] PROVE Executing(c)' = Executing(c)
      <3>1. lock[c] # NoReq => lock[c] \in Req /\ lock[c] # r
        BY <2>2 DEF IInv, TypeOK, LockSafety
      <3> QED
        BY <1>1, <3>1 DEF Executing
    <2> QED
      BY <1>0, <1>1, <2>1, <2>2 DEF Executions
  <1>4. Entries[conv[r]][cid[r]] = Ledger!Absent
    <2>1. Row(r).status = "ABSENT"
      BY DEF BeginTurn
    <2>2. Row(r).snap = NoReq
      BY <1>0, <2>1 DEF IInv, RowInv, RowShape, Row, Terminal
    <2> QED
      BY <2>1, <2>2, EntryOfRequest DEF IInv, Entry, Ledger!Absent
  <1>5. Entries' = [Entries EXCEPT ![conv[r]][cid[r]] = Ledger!Opened]
    <2>1. /\ turns'[conv[r]][cid[r]] = [no |-> nextNo[conv[r]], status |-> "PROCESSING",
                                       starter |-> r, snap |-> NoReq]
          /\ \A c \in Conv, t \in Turn : ~(c = conv[r] /\ t = cid[r]) =>
                turns'[c][t] = turns[c][t]
      BY <1>0 DEF BeginTurn, IInv, TypeOK
    <2>2. \A c \in Conv, t \in Turn :
             [status |-> turns'[c][t].status, by |-> turns'[c][t].snap]
                = IF c = conv[r] /\ t = cid[r] THEN Ledger!Opened ELSE Entries[c][t]
      BY <2>1 DEF Entries, Ledger!Opened
    <2>3. Entries' = [c \in Conv |-> [t \in Turn |->
                         IF c = conv[r] /\ t = cid[r] THEN Ledger!Opened ELSE Entries[c][t]]]
      BY <2>2 DEF Entries
    <2> QED
      BY <1>0, <2>3, UpdateOne, EntriesShape
  <1>6. Wants' = Wants /\ Answers' = Answers
    <2>1. \A s \in Req : Answered(s)' = Answered(s)
      BY <1>1 DEF Answered
    <2> QED
      BY <1>1, <2>1 DEF Wants, Answers
  <1> QED
    BY <1>3, <1>4, <1>5, <1>6 DEF Ledger!OpenEntry, Answers, Entries, Wants, Executions

\* The final transaction closes it with the handler's snapshot.
LEMMA PersistMaps ==
    ASSUME IInv, NEW r \in Req, Persist(r), NEW d \in Conv, d = conv[r], NEW u \in Turn, u = cid[r]
    PROVE  Ledger!CloseEntry(d, u)
  <1>0. conv[r] \in Conv /\ cid[r] \in Turn /\ plan[r] \in Terminal
    BY DEF IInv, TypeOK, RowInv, PlanReady, Persist
  <1>1. /\ \A s \in Req : s # r => pc'[s] = pc[s] /\ reply'[s] = reply[s]
        /\ pc[r] = "persist" /\ pc'[r] = "unlock" /\ "persist" \in Open /\ "unlock" \notin Open
        /\ UNCHANGED <<conv, cid, lock>>
    BY DEF Persist, Goto, IInv, TypeOK, Open, Downstream, request
  <1>2. lock[conv[r]] = r
    BY <1>1 DEF IInv, LockSafety, Locked
  <1>3. Executions[conv[r]] = cid[r] /\ Executions' = [Executions EXCEPT ![conv[r]] = NoTurn]
    <2>1. Executing(conv[r]) = cid[r] /\ Executing(conv[r])' = NoTurn
      BY <1>1, <1>2, NoneAssumption DEF Executing
    <2>2. ASSUME NEW c \in Conv, c # conv[r] PROVE Executing(c)' = Executing(c)
      <3>1. lock[c] # NoReq => lock[c] \in Req /\ lock[c] # r
        BY <2>2 DEF IInv, TypeOK, LockSafety
      <3> QED
        BY <1>1, <3>1 DEF Executing
    <2> QED
      BY <1>0, <1>1, <2>1, <2>2 DEF Executions
  <1>4. Entries[conv[r]][cid[r]] = Ledger!Opened
    <2>1. Row(r).status = "PROCESSING"
      BY <1>1 DEF IInv, RowInv, HandlerOwnsTurn
    <2>2. Row(r).snap = NoReq
      BY <1>0, <2>1 DEF IInv, RowInv, RowShape, Row, Terminal
    <2> QED
      BY <2>1, <2>2, EntryOfRequest DEF IInv, Entry, Ledger!Opened
  <1>5. \E x \in Ledger!Closed : Entries' = [Entries EXCEPT ![conv[r]][cid[r]] = x]
    <2>1. /\ turns'[conv[r]][cid[r]] = [no |-> Row(r).no, status |-> plan[r],
                                       starter |-> Row(r).starter, snap |-> r]
          /\ \A c \in Conv, t \in Turn : ~(c = conv[r] /\ t = cid[r]) =>
                turns'[c][t] = turns[c][t]
      BY <1>0 DEF Persist, IInv, TypeOK
    <2>2. Entries' = [Entries EXCEPT ![conv[r]][cid[r]] = [status |-> plan[r], by |-> r]]
      <3>1. \A c \in Conv, t \in Turn :
               [status |-> turns'[c][t].status, by |-> turns'[c][t].snap]
                  = IF c = conv[r] /\ t = cid[r] THEN [status |-> plan[r], by |-> r]
                    ELSE Entries[c][t]
        BY <2>1 DEF Entries
      <3>2. Entries' = [c \in Conv |-> [t \in Turn |->
                           IF c = conv[r] /\ t = cid[r] THEN [status |-> plan[r], by |-> r]
                           ELSE Entries[c][t]]]
        BY <3>1 DEF Entries
      <3> QED
        BY <1>0, <3>2, UpdateOne, EntriesShape
    <2>3. [status |-> plan[r], by |-> r] \in Ledger!Closed
      BY <1>0 DEF Ledger!Closed, Ledger!Ended, Terminal
    <2> QED
      BY <2>2, <2>3
  <1>6. Wants' = Wants /\ Answers' = Answers
    <2>1. \A s \in Req : Answered(s)' = Answered(s)
      BY <1>1 DEF Answered
    <2> QED
      BY <1>1, <2>1 DEF Wants, Answers
  <1> QED
    BY <1>3, <1>4, <1>5, <1>6 DEF Ledger!CloseEntry, Answers, Entries, Wants, Executions

\* A crash of the backend loses every live request and execution at once.
LEMMA CrashMaps == ASSUME IInv, Crash PROVE Ledger!LoseAll
  <1> DEFINE Lost == {r \in Req : pc[r] \in Live}
  <1>1. /\ \A s \in Req : pc[s] \in Live => pc'[s] = "done" /\ reply'[s] = Signal("lost")
        /\ \A s \in Req : pc[s] \notin Live => pc'[s] = pc[s] /\ reply'[s] = reply[s]
        /\ \A c \in Conv : lock'[c] = NoReq
        /\ UNCHANGED <<conv, cid, turns>>
    BY DEF Crash, IInv, TypeOK, request, db
  <1>2. \A s \in Req : pc[s] \in Live => Answered(s) = Ledger!Pending
    BY DEF Answered, Ledger!Pending, Live, Locked, Downstream
  <1>3. \A s \in Req : Answered(s)' = IF s \in Lost THEN [status |-> "lost", by |-> NoReq]
                                      ELSE Answered(s)
    BY <1>1 DEF Answered, Signal
  <1>4. Lost \in SUBSET {r \in Req : Answers[r] = Ledger!Pending}
    BY <1>2 DEF Answers
  <1>5. Answers' = [r \in Req |-> IF r \in Lost THEN [status |-> "lost", by |-> NoReq]
                                  ELSE Answers[r]]
    BY <1>3 DEF Answers
  <1>6. Executions' = [c \in Conv |-> NoTurn]
    BY <1>1 DEF Executions, Executing
  <1>7. Wants' = Wants /\ Entries' = Entries
    BY <1>1 DEF Wants, Entries
  <1>8. \E lost \in SUBSET {r \in Req : Answers[r] = Ledger!Pending} :
           Answers' = [r \in Req |-> IF r \in lost
                         THEN [status |-> "lost", by |-> NoReq] ELSE Answers[r]]
    BY <1>4, <1>5
  <1> QED
    BY <1>6, <1>7, <1>8 DEF Ledger!LoseAll, Answers, Entries, Wants, Executions

\* Every step of the handler is a step of the ledger, or none.
LEMMA LedgerStep ==
    IInv /\ [Next]_vars => [Ledger!LedgerNext]_(Ledger!ledgerVars)
  <1> SUFFICES ASSUME IInv, [Next]_vars
               PROVE Ledger!LedgerNext \/ UNCHANGED Ledger!ledgerVars
    OBVIOUS
  <1>0. \A r \in Req : conv[r] \in Conv /\ cid[r] \in Turn
    BY DEF IInv, TypeOK
  <1>1. ASSUME NEW r \in Req, Ledger!Answer(r) PROVE Ledger!LedgerNext
    BY <1>1 DEF Ledger!LedgerNext
  <1>2. ASSUME NEW r \in Req, Send(r) \/ Connect(r) PROVE UNCHANGED Ledger!ledgerVars
    BY <1>2, GotoMaps DEF Send, Connect, request, db, Open, Downstream
  <1>3. ASSUME NEW r \in Req, PreCheck(r)
        PROVE Ledger!LedgerNext \/ UNCHANGED Ledger!ledgerVars
    <2>1. CASE NotOwned(r)
      BY <1>1, <1>3, <2>1, RefusalMaps DEF PreCheck
    <2>2. CASE ~NotOwned(r) /\ Row(r).status # "ABSENT"
      <3>1. /\ Finish(r, ReplaySnapshot(r)) /\ pc[r] \notin Open \cup {"done"}
            /\ UNCHANGED <<request, db>> /\ ReplaySnapshot(r) \in Replies
        BY <1>3, <2>2, ReplayType DEF PreCheck, Open, Downstream, IInv
      <3>2. \/ /\ ReplaySnapshot(r).kind = "snapshot"
               /\ Row(r).status = ReplaySnapshot(r).status /\ Row(r).snap = ReplaySnapshot(r).by
            \/ ReplaySnapshot(r) = Signal("processing") /\ Row(r).status = "PROCESSING"
            \/ ReplaySnapshot(r) = Signal("error")
        BY DEF ReplaySnapshot, Snapshot
      <3>3. CASE ReplaySnapshot(r) = Signal("error")
        BY <1>1, <3>1, <3>3, RefusalMaps
      <3>4. CASE ReplaySnapshot(r) # Signal("error")
        BY <1>1, <2>2, <3>1, <3>2, <3>4, ReplayMaps
      <3> QED
        BY <3>3, <3>4
    <2>3. CASE ~NotOwned(r) /\ Row(r).status = "ABSENT"
      BY <1>3, <2>3, GotoMaps DEF PreCheck, request, db, Open, Downstream
    <2> QED
      BY <2>1, <2>2, <2>3
  <1>4. ASSUME NEW r \in Req, PoolTimeout(r) \/ LockBusy(r) \/ BeginRefused(r) \/ Cancel(r)
                               \/ UnhandledError(r)
        PROVE Ledger!LedgerNext
    <2>1. pc[r] # "done"
      BY <1>4 DEF PoolTimeout, LockBusy, BeginRefused, Cancel, UnhandledError, Live, Locked,
                  Downstream
    <2> QED
      BY <1>1, <1>4, <2>1, RefusalMaps DEF PoolTimeout, LockBusy, BeginRefused, Cancel,
                                           UnhandledError
  <1>5. ASSUME NEW r \in Req, TryLock(r) PROVE UNCHANGED Ledger!ledgerVars
    BY <1>5, TryLockMaps
  <1>6. ASSUME NEW r \in Req, ReCheck(r) PROVE UNCHANGED Ledger!ledgerVars
    <2>1. /\ UNCHANGED <<conv, cid, turns, lock>>
          /\ \A s \in Req : s # r => pc'[s] = pc[s] /\ reply'[s] = reply[s]
          /\ pc[r] = "recheck" /\ pc'[r] \in {"unlock", "begin"}
      BY <1>6 DEF ReCheck, Goto, IInv, TypeOK, request, db
    <2>2. \A s \in Req : (pc'[s] \in Open <=> pc[s] \in Open) /\ Answered(s)' = Answered(s)
      BY <2>1 DEF Answered, Open, Downstream
    <2>3. ASSUME NEW c \in Conv PROVE Executing(c)' = Executing(c)
      <3>1. lock[c] # NoReq => lock[c] \in Req
        BY DEF IInv, TypeOK
      <3> QED
        BY <2>1, <2>2, <3>1 DEF Executing
    <2> QED
      BY <2>1, <2>2, <2>3, StutterMaps
  <1>7. ASSUME NEW r \in Req, BeginTurn(r) PROVE Ledger!LedgerNext
    <2>1. PICK d \in Conv, u \in Turn : d = conv[r] /\ u = cid[r]
      BY <1>0
    <2>2. Ledger!OpenEntry(d, u)
      BY <1>7, <2>1, BeginMaps
    <2> QED
      BY <2>2 DEF Ledger!LedgerNext
  <1>8. ASSUME NEW r \in Req, Resolve(r) \/ Rewrite(r) \/ ProcessQuery(r) \/ Retrieve(r)
                               \/ Generate(r)
        PROVE UNCHANGED Ledger!ledgerVars
    <2>1. \E l \in Open : Goto(r, l)
      BY <1>8 DEF Resolve, Rewrite, ProcessQuery, Retrieve, Generate, Decide, Continue, Open,
                  Downstream
    <2>2. pc[r] \in Open /\ pc[r] # "done" /\ "done" \notin Open
          /\ UNCHANGED <<conv, cid, turns, lock, reply>>
      BY <1>8 DEF Resolve, Rewrite, ProcessQuery, Retrieve, Generate, Open, Downstream,
                  request, db
    <2> QED
      BY <2>1, <2>2, GotoMaps
  <1>9. ASSUME NEW r \in Req, Persist(r) PROVE Ledger!LedgerNext
    <2>1. PICK d \in Conv, u \in Turn : d = conv[r] /\ u = cid[r]
      BY <1>0
    <2>2. Ledger!CloseEntry(d, u)
      BY <1>9, <2>1, PersistMaps
    <2> QED
      BY <2>2 DEF Ledger!LedgerNext
  <1>10. ASSUME NEW r \in Req, Unlock(r) PROVE Ledger!LedgerNext
    <2>1. /\ pc[r] = "unlock" /\ Finish(r, reply[r]) /\ UNCHANGED <<request, db>>
          /\ pc[r] \notin Open \cup {"done"} /\ reply[r] \in Replies
      BY <1>10 DEF Unlock, Open, Downstream, IInv, TypeOK
    <2>2. /\ reply[r].kind \in {"snapshot", "processing"}
          /\ reply[r].kind = "snapshot" =>
                Row(r).status = reply[r].status /\ Row(r).snap = reply[r].by
          /\ reply[r].kind = "processing" => Row(r).status = "PROCESSING"
      BY <2>1 DEF IInv, RowInv, ReplyAgrees
    <2>3. reply[r].kind = "processing" => reply[r] = Signal("processing")
      BY <2>1 DEF Replies, Signal, Snapshot
    <2>4. Row(r).status # "ABSENT"
      <3>1. reply[r].kind = "snapshot" => reply[r].status \in Terminal
        BY <2>1 DEF Replies, Signal, Snapshot, Signals
      <3> QED
        BY <2>2, <3>1 DEF Terminal
    <2> QED
      BY <1>1, <2>1, <2>2, <2>3, <2>4, ReplayMaps
  <1>11. CASE Crash
    BY <1>11, CrashMaps DEF Ledger!LedgerNext
  <1>12. CASE UNCHANGED vars
    BY <1>12, StutterMaps DEF vars, Executing, Answered
  <1> QED
    BY <1>2, <1>3, <1>4, <1>5, <1>6, <1>7, <1>8, <1>9, <1>10, <1>11, <1>12 DEF Next, Step

LEMMA LedgerInitially == Init => Ledger!LedgerInit
  <1> SUFFICES ASSUME Init PROVE Ledger!LedgerInit
    OBVIOUS
  <1>1. Wants \in [Req -> Conv \X Turn]
    BY DEF Init, Wants
  <1>2. Entries = [c \in Conv |-> [t \in Turn |-> Ledger!Absent]]
    BY DEF Init, Entries, Ledger!Absent
  <1>3. Executions = [c \in Conv |-> NoTurn]
    BY DEF Init, Executions, Executing
  <1>4. Answers = [r \in Req |-> Ledger!Pending]
    BY DEF Init, Answers, Answered, Ledger!Pending
  <1> QED
    BY <1>1, <1>2, <1>3, <1>4 DEF Ledger!LedgerInit, Wants, Entries, Executions, Answers

\* The chat handler, with its pool, its two lookups, its advisory lock, its
\* stages and its faults, implements the idempotent ledger: every entry is
\* opened at most once, closed at most once, and answered from what it holds.
THEOREM LedgerRefinement == Spec => ImplementsLedger
  <1>1. Init => Ledger!LedgerInit
    BY LedgerInitially
  <1>2. IInv /\ [Next]_vars => [Ledger!LedgerNext]_(Ledger!ledgerVars)
    BY LedgerStep
  <1> QED
    BY <1>1, <1>2, Invariance, PTL DEF Spec, ImplementsLedger, Ledger!LedgerSpec
=============================================================================
