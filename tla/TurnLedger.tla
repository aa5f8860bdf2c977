----------------------------- MODULE TurnLedger -----------------------------
(***************************************************************************)
(* What POST /chat promises a client, without pools, locks or lookups: each *)
(* (conversation, client_turn_id) is an entry that is opened at most once,  *)
(* by at most one executor per conversation at a time, and closed at most   *)
(* once with one immutable snapshot; a request is answered from the entry   *)
(* it names, or refused.  ConversationTurn implements it.                   *)
(***************************************************************************)
CONSTANTS Req, Conv, Turn, NoReq, NoTurn

VARIABLES
    want,   \* [Req -> Conv \X Turn]: the entry a request names
    entry,  \* [Conv -> [Turn -> Entries]]
    active, \* [Conv -> Turn \cup {NoTurn}]: the entry being executed
    answer  \* [Req -> ...]: what the request was answered with

ledgerVars == <<want, entry, active, answer>>

Ended == {"COMPLETED", "CANNOT_ANSWER", "NEEDS_CLARIFICATION", "FAILED"}
Absent == [status |-> "ABSENT", by |-> NoReq]
Opened == [status |-> "PROCESSING", by |-> NoReq]
Closed == {[status |-> s, by |-> r] : s \in Ended, r \in Req}
Pending == [status |-> "none", by |-> NoReq]
\* Refusals carry no result of the entry.
Refusals == {[status |-> s, by |-> NoReq] : s \in {"busy", "not_found", "error", "lost"}}

LedgerInit ==
    /\ want \in [Req -> Conv \X Turn]
    /\ entry = [c \in Conv |-> [t \in Turn |-> Absent]]
    /\ active = [c \in Conv |-> NoTurn]
    /\ answer = [r \in Req |-> Pending]

\* One request starts to execute an entry nobody executed before.
OpenEntry(c, t) ==
    /\ active[c] = NoTurn
    /\ entry[c][t] = Absent
    /\ entry' = [entry EXCEPT ![c][t] = Opened]
    /\ active' = [active EXCEPT ![c] = t]
    /\ UNCHANGED <<want, answer>>

\* The executor commits the entry's only snapshot.
CloseEntry(c, t) ==
    /\ active[c] = t
    /\ entry[c][t] = Opened
    /\ \E x \in Closed : entry' = [entry EXCEPT ![c][t] = x]
    /\ active' = [active EXCEPT ![c] = NoTurn]
    /\ UNCHANGED <<want, answer>>

\* A request is answered with what its entry holds, or refused; a refused
\* executor abandons the entry it had open.
Answer(r) ==
    LET c == want[r][1] t == want[r][2] IN
    /\ answer[r] = Pending
    /\ \/ /\ entry[c][t] # Absent
          /\ answer' = [answer EXCEPT ![r] = entry[c][t]]
          /\ UNCHANGED active
       \/ /\ \E x \in Refusals : answer' = [answer EXCEPT ![r] = x]
          /\ \/ UNCHANGED active
             \/ active[c] = t /\ active' = [active EXCEPT ![c] = NoTurn]
    /\ UNCHANGED <<want, entry>>

\* All executors and waiting requests are lost at once.
LoseAll ==
    /\ \E lost \in SUBSET {r \in Req : answer[r] = Pending} :
          answer' = [r \in Req |-> IF r \in lost
                        THEN [status |-> "lost", by |-> NoReq] ELSE answer[r]]
    /\ active' = [c \in Conv |-> NoTurn]
    /\ UNCHANGED <<want, entry>>

LedgerNext ==
    \/ \E c \in Conv, t \in Turn : OpenEntry(c, t) \/ CloseEntry(c, t)
    \/ \E r \in Req : Answer(r)
    \/ LoseAll

LedgerSpec == LedgerInit /\ [][LedgerNext]_ledgerVars
=============================================================================
