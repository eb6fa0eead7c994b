------------------------------- MODULE AgentChat -------------------------------
(***************************************************************************)
(* The chat agent: sessions kept in the process's memory, streams that     *)
(* alternate calls of the LLM and tools and leave their messages in the    *)
(* session's history, proposals that wait for the operator, and the        *)
(* confirmations that execute them.  Streams and confirmations of several  *)
(* tabs share one session (the id is in the browser's localStorage).       *)
(***************************************************************************)
EXTENDS Integers, Sequences, FiniteSets

CONSTANTS
    Sends,       \* POST /admin/chat/send requests
    Confirms,    \* POST /admin/chat/confirm requests
    MaxTools,    \* bound on tool calls in one answer
    MaxLoops,    \* iterations of each stream's tool-use loop (5 in the code)
    MaxRestarts  \* bound on restarts of the admin process

ASSUME ChatAssumption ==
    MaxTools \in Nat /\ MaxLoops \in [Sends -> Nat \ {0}] /\ MaxRestarts \in Nat

VARIABLES
    store,    \* live sessions: history and pending proposals
    ids,      \* session ids given out
    browser,  \* the session id the browser keeps, 0 for none
    send,     \* each stream: stage, session, tools left, iterations, snapshot accepted
    confirm,  \* each confirmation: stage and proposal
    executed, \* executions of each proposal
    restarts

chatVars == <<store, ids, browser, send, confirm, executed, restarts>>

NewSession == [history |-> <<>>, proposals |-> {}]
Message(role, id) == [role |-> role, id |-> id]
Proposals == DOMAIN executed

\* What the messages API accepts: each tool_use is answered by the next message.
Paired(h) ==
    \A i \in DOMAIN h :
        /\ h[i].role = "tool_use" => i < Len(h) /\ h[i + 1] = Message("tool_result", h[i].id)
        /\ h[i].role = "tool_result" => i > 1 /\ h[i - 1] = Message("tool_use", h[i].id)

Alive(q) == send[q].sid \in DOMAIN store
\* add_message: without the session the message is dropped.
Added(q, m) ==
    IF Alive(q) THEN [store EXCEPT ![send[q].sid].history = @ \o m] ELSE store
Opened(sid, session) ==
    [s \in DOMAIN store \cup {sid} |-> IF s = sid THEN session ELSE store[s]]
History(q, s) == IF send[q].sid \in DOMAIN s THEN s[send[q].sid].history ELSE <<>>

-----------------------------------------------------------------------------
\* chat_send: no session id, a new session.
ChatSend(q) ==
    /\ send[q].at = "idle"
    /\ IF browser # 0 THEN UNCHANGED <<store, ids>> /\ send' = [send EXCEPT ![q].at = "opened", ![q].sid = browser]
       ELSE /\ ids' = ids + 1 /\ store' = Opened(ids', NewSession)
            /\ send' = [send EXCEPT ![q].at = "init", ![q].sid = ids']
    /\ UNCHANGED <<browser, confirm, executed, restarts>>

\* The session_init event is one JSON object.
SessionInit(q) ==
    /\ send[q].at = "init"
    /\ send' = [send EXCEPT ![q].at = "opened"] /\ browser' = send[q].sid
    /\ UNCHANGED <<store, ids, confirm, executed, restarts>>

\* A session that is gone is replaced by a new one the browser does not learn of.
StreamBegins(q) ==
    /\ send[q].at = "opened"
    /\ LET sid == IF Alive(q) THEN send[q].sid ELSE ids + 1
           old == IF Alive(q) THEN store[sid] ELSE NewSession
           history == Append(old.history, Message("user", <<>>))
       IN /\ ids' = IF Alive(q) THEN ids ELSE sid
          /\ store' = Opened(sid, [old EXCEPT !.history = history])
          /\ send' = [send EXCEPT ![q].at = "keyed", ![q].sid = sid]
    /\ UNCHANGED <<browser, confirm, executed, restarts>>

\* The API key, read from the database, is awaited before the history is copied:
\* other streams write in between.  Without a key the stream ends.
MessagesBuilt(q) ==
    /\ send[q].at = "keyed"
    /\ \/ send' = [send EXCEPT ![q].at = "ended"]
       \/ send' = [send EXCEPT ![q].at = "asks", ![q].accepted = Paired(History(q, store))]
    /\ UNCHANGED <<store, ids, browser, confirm, executed, restarts>>

\* The LLM's answer: text, or tools; a history it refuses, or any failure, is
\* an error event and the end.
Answered(q) ==
    /\ send[q].at = "asks"
    /\ \/ send' = [send EXCEPT ![q].at = "ended"] /\ UNCHANGED store
       \/ /\ send[q].accepted
          /\ \/ store' = Added(q, <<Message("assistant", <<>>)>>)
             \/ UNCHANGED store   \* an answer without text
          /\ \/ send' = [send EXCEPT ![q].at = "ended"]
             \/ \E n \in 1..MaxTools : send' = [send EXCEPT ![q].at = "tool", ![q].left = n]
    /\ UNCHANGED <<ids, browser, confirm, executed, restarts>>

UseId(q) == <<q, send[q].loops, send[q].left>>

ToolUse(q) ==
    /\ send[q].at = "tool"
    /\ store' = Added(q, <<Message("tool_use", UseId(q))>>)
    /\ send' = [send EXCEPT ![q].at = "runs"]
    /\ UNCHANGED <<ids, browser, confirm, executed, restarts>>

\* The rest of one iteration: the result is recorded, then the next tool, the
\* next call over the new history, or the end after the last iteration.
Continues(q, s) ==
    \/ send[q].left > 1 /\ send' = [send EXCEPT ![q].at = "tool", ![q].left = @ - 1]
    \/ /\ send[q].left <= 1 /\ send[q].loops < MaxLoops[q]
       /\ send' = [send EXCEPT ![q].at = "asks", ![q].loops = @ + 1, ![q].accepted = Paired(History(q, s))]
    \/ send[q].left <= 1 /\ send[q].loops = MaxLoops[q] /\ send' = [send EXCEPT ![q].at = "ended"]

\* query_database and its result.
QueryRuns(q) ==
    /\ send[q].at = "runs"
    /\ store' = Added(q, <<Message("tool_result", UseId(q))>>)
    /\ Continues(q, store')
    /\ UNCHANGED <<ids, browser, confirm, executed, restarts>>

\* propose_action: the proposal, its event, the result.  The stream may end at
\* the event, when the browser has gone.
Proposes(q) ==
    LET p == <<UseId(q), send[q].sid>>
        added == IF Alive(q) THEN [store EXCEPT ![send[q].sid].proposals = @ \cup {p}] ELSE store
        answered == IF Alive(q)
                    THEN [added EXCEPT ![send[q].sid].history = Append(@, Message("tool_result", UseId(q)))]
                    ELSE added
    IN
    /\ send[q].at = "runs"
    /\ executed' = [r \in Proposals \cup {p} |-> IF r \in Proposals THEN executed[r] ELSE 0]
    /\ \/ store' = added /\ send' = [send EXCEPT ![q].at = "ended"]
       \/ store' = answered /\ Continues(q, answered)
    /\ UNCHANGED <<ids, browser, confirm, restarts>>

\* A tool input without a field, or a result json.dumps cannot encode: the
\* exception ends the stream.
ToolRaises(q) ==
    /\ send[q].at = "runs"
    /\ send' = [send EXCEPT ![q].at = "ended"]
    /\ UNCHANGED <<store, ids, browser, confirm, executed, restarts>>

-----------------------------------------------------------------------------
\* Faulty variant: the proposal is read and left in the session.
Popped_Read(p) == store

Popped(p) == IF browser \in DOMAIN store THEN [store EXCEPT ![browser].proposals = @ \ {p}] ELSE store

\* chat_confirm's pop_proposal, before anything it awaits.
ChatConfirm(c, p) ==
    /\ confirm[c].at = "idle"
    /\ confirm' = [confirm EXCEPT ![c] =
         [at |-> IF browser \in DOMAIN store /\ p \in store[browser].proposals THEN "executes" ELSE "not found", of |-> p]]
    /\ store' = Popped(p)
    /\ UNCHANGED <<ids, browser, send, executed, restarts>>

\* execute_confirmed_action: the change committed, or an error.
Executes(c) ==
    /\ confirm[c].at = "executes"
    /\ \/ executed' = [executed EXCEPT ![confirm[c].of] = @ + 1]
       \/ UNCHANGED executed
    /\ confirm' = [confirm EXCEPT ![c].at = "answered"]
    /\ UNCHANGED <<store, ids, browser, send, restarts>>

\* Sessions are in memory only.
ChatRestarts ==
    /\ restarts < MaxRestarts /\ restarts' = restarts + 1
    /\ store' = <<>>
    /\ send' = [q \in Sends |-> IF send[q].at = "idle" THEN send[q] ELSE [send[q] EXCEPT !.at = "ended"]]
    /\ confirm' = [c \in Confirms |-> IF confirm[c].at = "executes" THEN [confirm[c] EXCEPT !.at = "answered"] ELSE confirm[c]]
    /\ UNCHANGED <<ids, browser, executed>>

ChatInit ==
    /\ store = <<>> /\ ids = 0 /\ browser = 0 /\ executed = <<>> /\ restarts = 0
    /\ send = [q \in Sends |-> [at |-> "idle", sid |-> 0, left |-> 0, loops |-> 1, accepted |-> TRUE]]
    /\ confirm = [c \in Confirms |-> [at |-> "idle", of |-> <<>>]]

ChatNext ==
    \/ \E q \in Sends : \/ ChatSend(q) \/ SessionInit(q) \/ StreamBegins(q) \/ MessagesBuilt(q) \/ Answered(q)
                        \/ ToolUse(q) \/ QueryRuns(q) \/ Proposes(q) \/ ToolRaises(q)
    \/ \E c \in Confirms : Executes(c) \/ \E p \in Proposals : ChatConfirm(c, p)
    \/ ChatRestarts

ChatSpec == ChatInit /\ [][ChatNext]_chatVars

-----------------------------------------------------------------------------
ChatTypeOK ==
    /\ DOMAIN store \subseteq 1..ids /\ browser \in 0..ids
    /\ \A q \in Sends : send[q].sid \in 0..ids /\ send[q].loops \in 1..MaxLoops[q] /\ send[q].left \in 0..MaxTools
    /\ \A s \in DOMAIN store : store[s].proposals \subseteq Proposals

\* An action is executed once at most, whatever double clicks, second tabs,
\* streams and restarts overlap (chat.py:75-79, "already executed").
ExecutedOnce ==
    /\ \A p \in Proposals : executed[p] <= 1
    /\ \A p \in Proposals : Cardinality({c \in Confirms : confirm[c].of = p /\ confirm[c].at \in {"executes", "answered"}}) <= 1
=============================================================================
