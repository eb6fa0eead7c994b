---------------------------- MODULE AgentChatProofs ----------------------------
(* Safety of AgentChat for any messages, confirmations and restarts. *)
EXTENDS AgentChat, FiniteSetTheorems, TLAPS

SendRows == [at : {"idle", "init", "opened", "keyed", "asks", "tool", "runs", "ended"},
             sid : Nat, left : Nat, loops : Nat, accepted : BOOLEAN]
\* A proposal: the stream, its iteration, the tools that were left, the session.
Names == (Sends \X Nat \X Nat) \X Nat
ConfirmRows == [at : {"idle", "not found", "executes", "answered"}, of : Names \cup {<<>>}]
Shaped(session) == session = [history |-> session.history, proposals |-> session.proposals]

TypesOfChat ==
    /\ ids \in Nat /\ send \in [Sends -> SendRows] /\ confirm \in [Confirms -> ConfirmRows]
    /\ Proposals \subseteq Names
    /\ executed \in [Proposals -> 0..1]
    /\ \A s \in DOMAIN store : Shaped(store[s])

\* The confirmations that popped proposal p.
Takers(p) == {c \in Confirms : confirm[c].of = p /\ confirm[c].at \in {"executes", "answered"}}

\* A proposal waits in its own session, or one confirmation has it, or had it.
TakenOnce ==
    /\ \A s \in DOMAIN store : \A p \in store[s].proposals : p[2] = s /\ Takers(p) = {} /\ executed[p] = 0
    /\ \A p \in Proposals : \A c, d \in Takers(p) : c = d
    /\ \A p \in Proposals : executed[p] = 1 => \E c \in Takers(p) : confirm[c].at = "answered"
    /\ \A c \in Confirms : confirm[c].at \in {"executes", "answered"} => confirm[c].of \in Proposals

\* What a stream has proposed came before where it is.
Past(q, p) ==
    /\ send[q].at \notin {"idle", "init", "opened", "keyed"}
    /\ send[q].at = "asks" => p[1][2] < send[q].loops
    /\ send[q].at \in {"tool", "runs"} =>
          p[1][2] < send[q].loops \/ (p[1][2] = send[q].loops /\ p[1][3] > send[q].left)
NamesAreNew == \A p \in Proposals : Past(p[1][1], p)

ChatInv == ChatTypeOK /\ TypesOfChat /\ TakenOnce /\ NamesAreNew

-----------------------------------------------------------------------------
\* The initial state satisfies the invariant.
THEOREM ChatInitInv == ChatInit => ChatInv
<1> SUFFICES ASSUME ChatInit PROVE ChatInv
  OBVIOUS
<1> USE DEF ChatInit
<1>1. DOMAIN store = {} /\ Proposals = {}
  BY DEF Proposals
<1>2. ChatTypeOK
  BY <1>1, ChatAssumption DEF ChatTypeOK
<1>3. TypesOfChat
  <2>1. executed \in [Proposals -> 0..1]
    BY <1>1 DEF Proposals
  <2>q. QED
    BY <1>1, <2>1 DEF TypesOfChat, SendRows, ConfirmRows
<1>4. TakenOnce
  BY <1>1 DEF TakenOnce, Takers
<1>5. NamesAreNew
  BY <1>1 DEF NamesAreNew
<1>q. QED
  BY <1>2, <1>3, <1>4, <1>5 DEF ChatInv

\* Whether a history is accepted is a truth value.
LEMMA PairedIsBoolean == \A h : Paired(h) \in BOOLEAN
  BY DEF Paired

\* A session with another history.
LEMMA HistoryWritten ==
    ASSUME NEW r, Shaped(r), NEW h
    PROVE  [r EXCEPT !.history = h] = [history |-> h, proposals |-> r.proposals]
  BY DEF Shaped

\* A function that differs in one row is the other with that row written.
LEMMA RowOf ==
    ASSUME NEW f \in [Sends -> SendRows], NEW q \in Sends, NEW g \in [Sends -> SendRows], NEW row \in SendRows,
           \A r \in Sends \ {q} : g[r] = f[r],
           g[q].at = row.at, g[q].sid = row.sid, g[q].left = row.left, g[q].loops = row.loops,
           g[q].accepted = row.accepted
    PROVE  g = [f EXCEPT ![q] = row]
<1>1. g[q] = row
  BY DEF SendRows
<1>q. QED
  BY <1>1

\* Writing messages into a session leaves every session's proposals.
LEMMA HistoryOnly ==
    ASSUME ChatInv, NEW s \in DOMAIN store, NEW h, store' = [store EXCEPT ![s].history = h]
    PROVE  /\ DOMAIN store' = DOMAIN store
           /\ \A r \in DOMAIN store' : store'[r].proposals = store[r].proposals /\ Shaped(store'[r])
<1>1. \A r \in DOMAIN store : Shaped(store[r])
  BY DEF ChatInv, TypesOfChat
<1>2. DOMAIN store' = DOMAIN store
  OBVIOUS
<1>3. ASSUME NEW r \in DOMAIN store PROVE store'[r].proposals = store[r].proposals /\ Shaped(store'[r])
  <2>1. CASE r = s
    <3>1. store[s] = [history |-> store[s].history, proposals |-> store[s].proposals]
      BY <1>1 DEF Shaped
    <3>2. store'[s] = [history |-> h, proposals |-> store[s].proposals]
      BY <3>1
    <3>q. QED
      BY <2>1, <3>2 DEF Shaped
  <2>2. CASE r # s
    BY <1>1, <2>2
  <2>q. QED
    BY <2>1, <2>2
<1>q. QED
  BY <1>2, <1>3

\* A step of one stream that proposes nothing and touches no proposals keeps the
\* invariant, if the stream moves forward.
LEMMA StreamStep ==
    ASSUME ChatInv, NEW q \in Sends, NEW row \in SendRows,
           send' = [send EXCEPT ![q] = row],
           row.sid <= ids', row.loops \in 1..MaxLoops[q], row.left <= MaxTools,
           ids' \in Nat, ids' >= ids, browser' \in 0..ids',
           DOMAIN store' \subseteq 1..ids',
           \A s \in DOMAIN store' :
              /\ Shaped(store'[s])
              /\ store'[s].proposals = {} \/ (s \in DOMAIN store /\ store'[s].proposals = store[s].proposals),
           \A p \in Proposals : p[1][1] = q => Past(q, p)',
           UNCHANGED <<confirm, executed>>
    PROVE  ChatInv'
<1> USE DEF ChatInv
<1>0. Proposals' = Proposals /\ \A p \in Proposals : Takers(p)' = Takers(p) /\ p \in Names
  BY DEF Proposals, Takers, TypesOfChat
<1>1. \A r \in Sends : send'[r] = IF r = q THEN row ELSE send[r]
  BY DEF TypesOfChat
<1>2. ChatTypeOK'
  <2>1. \A r \in Sends : /\ send'[r].sid \in 0..ids' /\ send'[r].loops \in 1..MaxLoops[r]
                         /\ send'[r].left \in 0..MaxTools
    <3> TAKE r \in Sends
    <3>1. CASE r = q
      BY <1>1, <3>1, ChatAssumption DEF SendRows
    <3>2. CASE r # q
      BY <1>1, <3>2 DEF ChatTypeOK, TypesOfChat
    <3>q. QED
      BY <3>1, <3>2
  <2>2. \A s \in DOMAIN store' : store'[s].proposals \subseteq Proposals
    BY DEF ChatTypeOK
  <2>q. QED
    BY <1>0, <2>1, <2>2 DEF ChatTypeOK
<1>3. TypesOfChat'
  BY <1>0 DEF TypesOfChat
<1>4. TakenOnce'
  <2>1. \A s \in DOMAIN store' : \A p \in store'[s].proposals : s \in DOMAIN store /\ p \in store[s].proposals /\ p \in Proposals
    BY DEF ChatTypeOK
  <2>q. QED
    BY <1>0, <2>1 DEF TakenOnce, Takers
<1>5. NamesAreNew'
  <2>1. ASSUME NEW p \in Proposals PROVE Past(p[1][1], p)'
    <3>1. p[1][1] \in Sends
      BY <1>0 DEF Names
    <3>2. CASE p[1][1] = q
      BY <3>2
    <3>3. CASE p[1][1] # q
      BY <1>1, <3>1, <3>3 DEF NamesAreNew, Past
    <3>q. QED
      BY <3>2, <3>3
  <2>q. QED
    BY <1>0, <2>1 DEF NamesAreNew
<1>q. QED
  BY <1>2, <1>3, <1>4, <1>5

\* The same for a step in which the stream keeps its session.
LEMMA RowStep ==
    ASSUME ChatInv, NEW q \in Sends, NEW row \in SendRows,
           send' = [send EXCEPT ![q] = row], row.sid = send[q].sid,
           row.loops \in 1..MaxLoops[q], row.left <= MaxTools,
           browser' \in 0..ids, DOMAIN store' = DOMAIN store,
           \A s \in DOMAIN store' : Shaped(store'[s]) /\ store'[s].proposals = store[s].proposals,
           \A p \in Proposals : p[1][1] = q => Past(q, p)',
           UNCHANGED <<ids, confirm, executed>>
    PROVE  ChatInv'
<1>1. ids \in Nat /\ ids' = ids /\ ids' >= ids /\ ids' \in Nat /\ browser' \in 0..ids'
  BY DEF ChatInv, TypesOfChat
<1>2. row.sid <= ids'
  BY DEF ChatInv, ChatTypeOK
<1>3. DOMAIN store' \subseteq 1..ids'
  BY DEF ChatInv, ChatTypeOK
<1>4. \A s \in DOMAIN store' :
         /\ Shaped(store'[s])
         /\ store'[s].proposals = {} \/ (s \in DOMAIN store /\ store'[s].proposals = store[s].proposals)
  OBVIOUS
<1>q. QED
  BY <1>1, <1>2, <1>3, <1>4, StreamStep

\* What each position of a stream has behind it, at its next position.
LEMMA GoesOnPast ==
    ASSUME ChatInv, NEW q \in Sends, send[q].at = "runs", NEW s, Continues(q, s)
    PROVE  \E row \in SendRows :
              /\ send' = [send EXCEPT ![q] = row]
              /\ row.sid = send[q].sid /\ row.loops \in 1..MaxLoops[q] /\ row.left <= MaxTools
              /\ \A p \in Names :
                    /\ p[1][1] = q
                    /\ p[1][2] < send[q].loops \/ (p[1][2] = send[q].loops /\ p[1][3] >= send[q].left)
                    => Past(q, p)'
<1>1. send[q] \in SendRows /\ send \in [Sends -> SendRows]
  BY DEF ChatInv, TypesOfChat
<1>2. /\ send[q].loops \in 1..MaxLoops[q] /\ MaxLoops[q] \in Nat
      /\ send[q].left \in 0..MaxTools /\ MaxTools \in Nat
  BY ChatAssumption DEF ChatInv, ChatTypeOK
<1>3. SUFFICES \E row \in SendRows :
                  /\ send' = [send EXCEPT ![q] = row] /\ row.sid = send[q].sid
                  /\ \/ row.at = "tool" /\ row.loops = send[q].loops /\ row.left = send[q].left - 1
                     \/ /\ row.at = "asks" /\ row.loops = send[q].loops + 1 /\ row.left = send[q].left
                        /\ send[q].loops < MaxLoops[q]
                     \/ row.at = "ended" /\ row.loops = send[q].loops /\ row.left = send[q].left
  <2>1. PICK row \in SendRows :
                  /\ send' = [send EXCEPT ![q] = row] /\ row.sid = send[q].sid
                  /\ \/ row.at = "tool" /\ row.loops = send[q].loops /\ row.left = send[q].left - 1
                     \/ /\ row.at = "asks" /\ row.loops = send[q].loops + 1 /\ row.left = send[q].left
                        /\ send[q].loops < MaxLoops[q]
                     \/ row.at = "ended" /\ row.loops = send[q].loops /\ row.left = send[q].left
    BY <1>3
  <2>2. send'[q] = row
    BY <1>1, <2>1
  <2>3. row.loops \in 1..MaxLoops[q] /\ row.left <= MaxTools
    BY <1>2, <2>1
  <2>4. ASSUME NEW p \in Names, p[1][1] = q,
               p[1][2] < send[q].loops \/ (p[1][2] = send[q].loops /\ p[1][3] >= send[q].left)
        PROVE  Past(q, p)'
    <3>1. p[1][2] \in Nat /\ p[1][3] \in Nat
      BY DEF Names
    <3>2. /\ row.at \in {"tool", "asks", "ended"}
          /\ row.at = "asks" => p[1][2] < row.loops
          /\ row.at = "tool" => p[1][2] < row.loops \/ (p[1][2] = row.loops /\ p[1][3] > row.left)
      BY <1>2, <2>1, <2>4, <3>1
    <3>q. QED
      BY <2>2, <3>2 DEF Past
  <2>q. QED
    BY <2>1, <2>3, <2>4
<1>4. CASE send[q].left > 1 /\ send' = [send EXCEPT ![q].at = "tool", ![q].left = @ - 1]
  <2> DEFINE row == [at |-> "tool", sid |-> send[q].sid, left |-> send[q].left - 1,
                     loops |-> send[q].loops, accepted |-> send[q].accepted]
  <2>1. row \in SendRows
    BY <1>1, <1>2, <1>4 DEF SendRows
  <2>2. send' = [send EXCEPT ![q] = row]
    BY <1>1, <1>4 DEF SendRows
  <2>q. QED
    BY <2>1, <2>2
<1>5. CASE /\ send[q].loops < MaxLoops[q]
           /\ send' = [send EXCEPT ![q].at = "asks", ![q].loops = @ + 1, ![q].accepted = Paired(History(q, s))]
  <2> DEFINE row == [at |-> "asks", sid |-> send[q].sid, left |-> send[q].left,
                     loops |-> send[q].loops + 1, accepted |-> Paired(History(q, s))]
  <2>1. row \in SendRows
    BY <1>1, <1>2, PairedIsBoolean DEF SendRows
  <2>2. send' = [send EXCEPT ![q] = row]
    BY <1>1, <1>5 DEF SendRows
  <2>q. QED
    BY <1>5, <2>1, <2>2
<1>6. CASE send' = [send EXCEPT ![q].at = "ended"]
  <2> DEFINE row == [send[q] EXCEPT !.at = "ended"]
  <2>1. send' = [send EXCEPT ![q] = row]
    BY <1>1, <1>6
  <2>2. /\ row \in SendRows /\ row.sid = send[q].sid /\ row.at = "ended" /\ row.loops = send[q].loops
        /\ row.left = send[q].left
    BY <1>1 DEF SendRows
  <2>q. QED
    BY <2>1, <2>2
<1>q. QED
  BY <1>4, <1>5, <1>6 DEF Continues

\* A proposal has a name that no other had.
LEMMA NewName ==
    ASSUME ChatInv, NEW q \in Sends, send[q].at = "runs"
    PROVE  <<UseId(q), send[q].sid>> \in Names \ Proposals
<1>1. <<UseId(q), send[q].sid>> \in Names
  BY DEF ChatInv, TypesOfChat, SendRows, UseId, Names
<1>2. SUFFICES ASSUME <<UseId(q), send[q].sid>> \in Proposals PROVE FALSE
  BY <1>1
<1>3. Past(q, <<UseId(q), send[q].sid>>)
  BY <1>2 DEF ChatInv, NamesAreNew, UseId
<1>q. QED
  BY <1>3 DEF Past, UseId, ChatInv, TypesOfChat, SendRows

\* propose_action keeps the invariant.
LEMMA ProposesStep ==
    ASSUME ChatInv, NEW q \in Sends, Proposes(q)
    PROVE  ChatInv'
<1> USE DEF ChatInv
<1> DEFINE name == <<UseId(q), send[q].sid>>
<1>1. /\ name \in Names \ Proposals /\ name[1][1] = q /\ name[1][2] = send[q].loops
      /\ name[1][3] = send[q].left /\ name[2] = send[q].sid
  BY NewName DEF Proposes, UseId
<1>2. /\ executed' = [r \in Proposals \cup {name} |-> IF r \in Proposals THEN executed[r] ELSE 0]
      /\ UNCHANGED <<ids, browser, confirm, restarts>> /\ send[q].at = "runs"
  BY DEF Proposes
<1> HIDE DEF name
<1>3. Proposals' = Proposals \cup {name}
  BY <1>2 DEF Proposals
<1>4. \A p : Takers(p)' = Takers(p)
  BY <1>2 DEF Takers
<1>5. Takers(name) = {}
  BY <1>1 DEF Takers, TakenOnce
<1>6. /\ DOMAIN store' = DOMAIN store
      /\ \A s \in DOMAIN store :
            /\ Shaped(store'[s])
            /\ store'[s].proposals \subseteq store[s].proposals \cup (IF s = send[q].sid THEN {name} ELSE {})
  <2> DEFINE added == IF Alive(q) THEN [store EXCEPT ![send[q].sid].proposals = @ \cup {name}] ELSE store
             answered == IF Alive(q)
                         THEN [added EXCEPT ![send[q].sid].history = Append(@, Message("tool_result", UseId(q)))]
                         ELSE added
  <2>1. store' = added \/ store' = answered
    BY DEF Proposes, name
  <2>2. CASE ~Alive(q)
    BY <2>1, <2>2 DEF TypesOfChat
  <2>3. CASE Alive(q)
    <3>1. send[q].sid \in DOMAIN store
      BY <2>3 DEF Alive
    <3>2. store[send[q].sid] = [history |-> store[send[q].sid].history, proposals |-> store[send[q].sid].proposals]
      BY <3>1 DEF TypesOfChat, Shaped
    <3>3. added = [store EXCEPT ![send[q].sid].proposals = @ \cup {name}]
      BY <2>3
    <3>4. /\ DOMAIN added = DOMAIN store
          /\ added[send[q].sid] = [history |-> store[send[q].sid].history,
                                   proposals |-> store[send[q].sid].proposals \cup {name}]
          /\ \A s \in DOMAIN store \ {send[q].sid} : added[s] = store[s]
      BY <3>1, <3>2, <3>3
    <3>5. answered = [added EXCEPT ![send[q].sid].history = Append(@, Message("tool_result", UseId(q)))]
      BY <2>3
    <3> HIDE DEF added
    <3>6. /\ DOMAIN answered = DOMAIN store
          /\ answered[send[q].sid] = [history |-> Append(added[send[q].sid].history, Message("tool_result", UseId(q))),
                                      proposals |-> store[send[q].sid].proposals \cup {name}]
          /\ \A s \in DOMAIN store \ {send[q].sid} : answered[s] = store[s]
      <4>1. /\ DOMAIN answered = DOMAIN added
            /\ answered[send[q].sid] = [added[send[q].sid] EXCEPT !.history = Append(@, Message("tool_result", UseId(q)))]
            /\ \A s \in DOMAIN added \ {send[q].sid} : answered[s] = added[s]
        BY <3>1, <3>4, <3>5
      <4>2. [added[send[q].sid] EXCEPT !.history = Append(@, Message("tool_result", UseId(q)))]
              = [history |-> Append(added[send[q].sid].history, Message("tool_result", UseId(q))),
                 proposals |-> store[send[q].sid].proposals \cup {name}]
        <5> DEFINE old == added[send[q].sid]
        <5>1. old = [history |-> old.history, proposals |-> store[send[q].sid].proposals \cup {name}]
          BY <3>4
        <5> HIDE DEF old
        <5>2. [old EXCEPT !.history = Append(@, Message("tool_result", UseId(q)))]
                = [history |-> Append(old.history, Message("tool_result", UseId(q))),
                   proposals |-> store[send[q].sid].proposals \cup {name}]
          BY <5>1, HistoryWritten DEF Shaped
        <5>q. QED
          BY <5>2 DEF old
      <4>q. QED
        BY <3>4, <4>1, <4>2
    <3> HIDE DEF answered
    <3>7. ASSUME NEW s \in DOMAIN store
          PROVE  /\ Shaped(store'[s])
                 /\ store'[s].proposals \subseteq store[s].proposals \cup (IF s = send[q].sid THEN {name} ELSE {})
      <4>1. CASE s = send[q].sid
        BY <2>1, <3>4, <3>6, <4>1 DEF Shaped
      <4>2. CASE s # send[q].sid
        BY <2>1, <3>4, <3>6, <4>2 DEF TypesOfChat
      <4>q. QED
        BY <4>1, <4>2
    <3>q. QED
      BY <2>1, <3>4, <3>6, <3>7
  <2>q. QED
    BY <2>2, <2>3
<1>7. PICK row \in SendRows :
         /\ send' = [send EXCEPT ![q] = row]
         /\ row.sid = send[q].sid /\ row.loops \in 1..MaxLoops[q] /\ row.left <= MaxTools
         /\ \A p \in Names :
               /\ p[1][1] = q
               /\ p[1][2] < send[q].loops \/ (p[1][2] = send[q].loops /\ p[1][3] >= send[q].left)
               => Past(q, p)'
  <2>1. CASE send' = [send EXCEPT ![q].at = "ended"]
    <3> DEFINE r == [send[q] EXCEPT !.at = "ended"]
    <3>1. r \in SendRows /\ r.sid = send[q].sid /\ r.loops = send[q].loops /\ r.left = send[q].left /\ r.at = "ended"
      BY DEF TypesOfChat, SendRows
    <3>2. send' = [send EXCEPT ![q] = r]
      BY <2>1
    <3>3. send'[q] = r
      BY <3>2 DEF TypesOfChat
    <3> HIDE DEF r
    <3>4. \A p : Past(q, p)'
      BY <3>1, <3>3 DEF Past
    <3>5. r.loops \in 1..MaxLoops[q] /\ r.left <= MaxTools
      BY <3>1, ChatAssumption DEF ChatTypeOK
    <3>q. QED
      BY <3>1, <3>2, <3>4, <3>5
  <2>2. CASE \E s : Continues(q, s)
    BY <1>2, <2>2, GoesOnPast
  <2>q. QED
    BY <2>1, <2>2 DEF Proposes
<1>8. \A r \in Sends : send'[r] = IF r = q THEN row ELSE send[r]
  BY <1>7 DEF TypesOfChat
<1>9. ChatTypeOK'
  <2>1. ASSUME NEW r \in Sends
        PROVE  send'[r].sid \in 0..ids' /\ send'[r].loops \in 1..MaxLoops[r] /\ send'[r].left \in 0..MaxTools
    <3>1. CASE r = q
      BY <1>2, <1>7, <1>8, <3>1, ChatAssumption DEF SendRows, ChatTypeOK
    <3>2. CASE r # q
      BY <1>2, <1>8, <3>2 DEF ChatTypeOK
    <3>q. QED
      BY <3>1, <3>2
  <2>2. \A s \in DOMAIN store' : store'[s].proposals \subseteq Proposals'
    BY <1>3, <1>6 DEF ChatTypeOK
  <2>q. QED
    BY <1>2, <1>6, <2>1, <2>2 DEF ChatTypeOK
<1>10. TypesOfChat'
  <2>1. executed' \in [Proposals' -> 0..1]
    BY <1>2, <1>3 DEF TypesOfChat
  <2>2. Proposals' \subseteq Names
    BY <1>1, <1>3 DEF TypesOfChat
  <2>3. send' \in [Sends -> SendRows]
    BY <1>7 DEF TypesOfChat
  <2>q. QED
    BY <1>2, <1>6, <2>1, <2>2, <2>3 DEF TypesOfChat
<1>11. TakenOnce'
  <2>1. ASSUME NEW s \in DOMAIN store', NEW p \in store'[s].proposals
        PROVE  p[2] = s /\ Takers(p) = {} /\ executed'[p] = 0
    <3>1. CASE p = name
      <4>1. CASE s = send[q].sid
        BY <1>1, <1>2, <1>5, <3>1, <4>1
      <4>2. CASE s # send[q].sid
        BY <1>1, <1>6, <3>1, <4>2 DEF ChatTypeOK
      <4>q. QED
        BY <4>1, <4>2
    <3>2. CASE p # name
      <4>1. s \in DOMAIN store /\ p \in store[s].proposals
        BY <1>6, <3>2
      <4>2. p \in Proposals
        BY <4>1 DEF ChatTypeOK
      <4>q. QED
        BY <1>2, <4>1, <4>2 DEF TakenOnce
    <3>q. QED
      BY <3>1, <3>2
  <2>2. ASSUME NEW p \in Proposals'
        PROVE  /\ \A c, d \in Takers(p) : c = d
               /\ executed'[p] = 1 => \E c \in Takers(p) : confirm[c].at = "answered"
    <3>1. CASE p = name
      BY <1>1, <1>2, <1>5, <3>1
    <3>2. CASE p # name
      BY <1>2, <1>3, <3>2 DEF TakenOnce
    <3>q. QED
      BY <3>1, <3>2
  <2>3. confirm' = confirm /\ Proposals \subseteq Proposals'
    BY <1>2, <1>3
  <2>4. \A s \in DOMAIN store' : \A p \in store'[s].proposals : p[2] = s /\ Takers(p)' = {} /\ executed'[p] = 0
    BY <1>4, <2>1
  <2>5. \A p \in Proposals' : \A c, d \in Takers(p)' : c = d
    BY <1>4, <2>2
  <2>6. \A p \in Proposals' : executed'[p] = 1 => \E c \in Takers(p)' : confirm'[c].at = "answered"
    BY <1>4, <2>2, <2>3
  <2>7. \A c \in Confirms : confirm'[c].at \in {"executes", "answered"} => confirm'[c].of \in Proposals'
    BY <2>3 DEF TakenOnce
  <2>q. QED
    BY ONLY <2>4, <2>5, <2>6, <2>7 DEF TakenOnce
<1>12. NamesAreNew'
  <2>1. ASSUME NEW p \in Proposals' PROVE Past(p[1][1], p)'
    <3>0. p \in Names /\ p[1][1] \in Sends
      BY <1>1, <1>3 DEF TypesOfChat, Names
    <3>1. CASE p = name
      BY <1>1, <1>7, <3>0, <3>1 DEF Names
    <3>2. CASE p # name /\ p[1][1] = q
      <4>1. Past(q, p)
        BY <1>3, <3>2 DEF NamesAreNew
      <4>2. p[1][2] < send[q].loops \/ (p[1][2] = send[q].loops /\ p[1][3] >= send[q].left)
        BY <1>2, <3>0, <4>1 DEF Past, Names, TypesOfChat, SendRows
      <4>q. QED
        BY <1>7, <3>0, <3>2, <4>2
    <3>3. CASE p # name /\ p[1][1] # q
      BY <1>3, <1>8, <3>0, <3>3 DEF NamesAreNew, Past
    <3>q. QED
      BY <3>1, <3>2, <3>3
  <2>q. QED
    BY <2>1 DEF NamesAreNew
<1>q. QED
  BY <1>9, <1>10, <1>11, <1>12

\* Every step keeps the invariant.
THEOREM ChatStepInv == ChatInv /\ [ChatNext]_chatVars => ChatInv'
<1> SUFFICES ASSUME ChatInv, [ChatNext]_chatVars PROVE ChatInv'
  OBVIOUS
<1> USE DEF ChatInv
<1>0. /\ DOMAIN store \subseteq 1..ids /\ ids \in Nat /\ browser \in 0..ids
      /\ \A s \in DOMAIN store : Shaped(store[s])
      /\ \A p \in Proposals : p \in Names /\ p[1][1] \in Sends /\ Past(p[1][1], p)
  BY DEF ChatTypeOK, TypesOfChat, NamesAreNew, Names
<1>s. ASSUME NEW q \in Sends
      PROVE  /\ send[q] \in SendRows /\ send \in [Sends -> SendRows]
             /\ send[q].sid <= ids /\ send[q].loops \in 1..MaxLoops[q] /\ send[q].left <= MaxTools
             /\ MaxTools \in Nat /\ MaxLoops[q] \in Nat
  BY ChatAssumption DEF TypesOfChat, ChatTypeOK
<1>m. ASSUME NEW q \in Sends, NEW m, store' = Added(q, m)
      PROVE  /\ DOMAIN store' = DOMAIN store
             /\ \A s \in DOMAIN store' : Shaped(store'[s]) /\ store'[s].proposals = store[s].proposals
  <2>1. CASE Alive(q)
    <3>1. send[q].sid \in DOMAIN store
      BY <2>1 DEF Alive
    <3>2. store' = [store EXCEPT ![send[q].sid].history = store[send[q].sid].history \o m]
      BY <1>m, <2>1, <3>1 DEF Added
    <3>q. QED
      BY <3>1, <3>2, HistoryOnly
  <2>2. CASE ~Alive(q)
    BY <1>0, <1>m, <2>2 DEF Added
  <2>q. QED
    BY <2>1, <2>2
<1>1. ASSUME NEW q \in Sends, ChatSend(q) PROVE ChatInv'
  <2>0. /\ send[q] \in SendRows /\ send \in [Sends -> SendRows]
        /\ send[q].sid <= ids /\ send[q].loops \in 1..MaxLoops[q] /\ send[q].left <= MaxTools
        /\ MaxTools \in Nat /\ MaxLoops[q] \in Nat
    BY <1>s
  <2> DEFINE sid == IF browser # 0 THEN browser ELSE ids'
             row == [at |-> IF browser # 0 THEN "opened" ELSE "init", sid |-> sid, left |-> send[q].left,
                     loops |-> send[q].loops, accepted |-> send[q].accepted]
  <2>1. ids' \in Nat /\ ids' >= ids /\ browser' = browser /\ sid \in Nat /\ sid <= ids'
    BY <1>0, <1>1 DEF ChatSend
  <2>2. row \in SendRows
    BY <2>0, <2>1 DEF SendRows
  <2>3. send' = [send EXCEPT ![q] = row]
    <3>1. CASE browser # 0
      <4>1. send' = [send EXCEPT ![q].at = "opened", ![q].sid = browser]
        BY <1>1, <3>1 DEF ChatSend
      <4>2. /\ send' \in [Sends -> SendRows] /\ \A r \in Sends \ {q} : send'[r] = send[r]
            /\ send'[q].at = "opened" /\ send'[q].sid = browser /\ send'[q].left = send[q].left
            /\ send'[q].loops = send[q].loops /\ send'[q].accepted = send[q].accepted
        <5>1. browser \in Nat /\ send \in [Sends -> SendRows]
          BY <1>0, <2>0
        <5>q. QED
          BY ONLY <5>1, <4>1, q \in Sends DEF SendRows
      <4>3. /\ row.at = "opened" /\ row.sid = browser /\ row.left = send[q].left
            /\ row.loops = send[q].loops /\ row.accepted = send[q].accepted
        BY <3>1
      <4> HIDE DEF row
      <4>q. QED
        BY <2>0, <2>2, <4>2, <4>3, RowOf
    <3>2. CASE browser = 0
      <4>1. send' = [send EXCEPT ![q].at = "init", ![q].sid = ids']
        BY <1>1, <3>2 DEF ChatSend
      <4>2. /\ send' \in [Sends -> SendRows] /\ \A r \in Sends \ {q} : send'[r] = send[r]
            /\ send'[q].at = "init" /\ send'[q].sid = ids' /\ send'[q].left = send[q].left
            /\ send'[q].loops = send[q].loops /\ send'[q].accepted = send[q].accepted
        BY <2>0, <2>1, <4>1 DEF SendRows
      <4>3. /\ row.at = "init" /\ row.sid = ids' /\ row.left = send[q].left
            /\ row.loops = send[q].loops /\ row.accepted = send[q].accepted
        BY <3>2
      <4> HIDE DEF row
      <4>q. QED
        BY <2>0, <2>2, <4>2, <4>3, RowOf
    <3>q. QED
      BY <3>1, <3>2
  <2>4. /\ DOMAIN store' \subseteq 1..ids'
        /\ \A s \in DOMAIN store' :
              /\ Shaped(store'[s])
              /\ store'[s].proposals = {} \/ (s \in DOMAIN store /\ store'[s].proposals = store[s].proposals)
    <3>1. CASE UNCHANGED <<store, ids>>
      BY <1>0, <3>1
    <3>2. CASE store' = Opened(ids', NewSession) /\ ids' = ids + 1
      <4>1. DOMAIN store' = DOMAIN store \cup {ids'}
        BY <3>2 DEF Opened
      <4>2. \A s \in DOMAIN store' : store'[s] = IF s = ids' THEN NewSession ELSE store[s]
        BY <3>2 DEF Opened
      <4>3. Shaped(NewSession) /\ NewSession.proposals = {}
        BY DEF Shaped, NewSession
      <4>4. DOMAIN store' \subseteq 1..ids'
        BY <1>0, <3>2, <4>1
      <4>q. QED
        BY <1>0, <4>1, <4>2, <4>3, <4>4
    <3>q. QED
      BY <1>1, <3>1, <3>2 DEF ChatSend
  <2>5. \A p \in Proposals : p[1][1] = q => Past(q, p)'
    BY <1>0, <1>1 DEF ChatSend, Past
  <2>6. row.sid <= ids' /\ row.loops \in 1..MaxLoops[q] /\ row.left <= MaxTools
    BY <2>0, <2>1
  <2>7. UNCHANGED <<confirm, executed>>
    BY <1>1 DEF ChatSend
  <2>8. browser' \in 0..ids'
    BY <1>0, <2>1
  <2> HIDE DEF row
  <2>q. QED
    BY <2>1, <2>2, <2>3, <2>4, <2>5, <2>6, <2>7, <2>8, StreamStep
<1>2. ASSUME NEW q \in Sends, SessionInit(q) PROVE ChatInv'
  <2>0. /\ send[q] \in SendRows /\ send \in [Sends -> SendRows]
        /\ send[q].sid <= ids /\ send[q].loops \in 1..MaxLoops[q] /\ send[q].left <= MaxTools
        /\ MaxTools \in Nat /\ MaxLoops[q] \in Nat
    BY <1>s
  <2> DEFINE row == [send[q] EXCEPT !.at = "opened"]
  <2>1. /\ row \in SendRows /\ row.sid = send[q].sid /\ row.loops = send[q].loops /\ row.left = send[q].left
    BY <2>0 DEF SendRows
  <2>2. send' = [send EXCEPT ![q] = row] /\ browser' = send[q].sid /\ UNCHANGED <<store, ids, confirm, executed>>
    BY <1>2 DEF SessionInit
  <2>3. \A p \in Proposals : p[1][1] = q => Past(q, p)'
    BY <1>0, <1>2 DEF SessionInit, Past
  <2> HIDE DEF row
  <2>4. browser' \in 0..ids'
    BY <2>2 DEF ChatTypeOK
  <2>q. QED
    BY <1>0, <2>0, <2>1, <2>2, <2>3, <2>4, RowStep
<1>3. ASSUME NEW q \in Sends, StreamBegins(q) PROVE ChatInv'
  <2>0. /\ send[q] \in SendRows /\ send \in [Sends -> SendRows]
        /\ send[q].sid <= ids /\ send[q].loops \in 1..MaxLoops[q] /\ send[q].left <= MaxTools
        /\ MaxTools \in Nat /\ MaxLoops[q] \in Nat
    BY <1>s
  <2> DEFINE sid == IF Alive(q) THEN send[q].sid ELSE ids + 1
             old == IF Alive(q) THEN store[sid] ELSE NewSession
             history == Append(old.history, Message("user", <<>>))
             row == [at |-> "keyed", sid |-> sid, left |-> send[q].left, loops |-> send[q].loops,
                     accepted |-> send[q].accepted]
  <2>1. /\ ids' = (IF Alive(q) THEN ids ELSE sid) /\ store' = Opened(sid, [old EXCEPT !.history = history])
        /\ send' = [send EXCEPT ![q].at = "keyed", ![q].sid = sid]
        /\ UNCHANGED <<browser, confirm, executed>> /\ send[q].at = "opened"
    BY <1>3 DEF StreamBegins
  <2>2. /\ Shaped(old) /\ sid \in 1..ids' /\ ids' \in Nat /\ ids' >= ids
        /\ old.proposals = {} \/ (sid \in DOMAIN store /\ old.proposals = store[sid].proposals)
    <3>1. CASE Alive(q)
      <4>1. send[q].sid \in DOMAIN store /\ sid = send[q].sid /\ old = store[sid] /\ ids' = ids
        BY <2>1, <3>1 DEF Alive
      <4>q. QED
        BY <1>0, <4>1
    <3>2. CASE ~Alive(q)
      <4>1. sid = ids + 1 /\ old = NewSession /\ ids' = ids + 1
        BY <2>1, <3>2
      <4>2. Shaped(NewSession) /\ NewSession.proposals = {}
        BY DEF Shaped, NewSession
      <4> HIDE DEF sid, old
      <4>q. QED
        BY <1>0, <4>1, <4>2
    <3>q. QED
      BY <3>1, <3>2
  <2>3. \A p \in Proposals : p[1][1] # q
    BY <1>0, <2>1 DEF Past
  <2> HIDE DEF old
  <2>4. [old EXCEPT !.history = history] = [history |-> history, proposals |-> old.proposals]
    BY <2>2, HistoryWritten
  <2> HIDE DEF history, sid
  <2>5. row \in SendRows
    BY <2>0, <2>2 DEF SendRows
  <2>6. send' = [send EXCEPT ![q] = row]
    <3>1. send' = [send EXCEPT ![q].at = "keyed", ![q].sid = sid]
      BY <2>1
    <3>2. /\ send' \in [Sends -> SendRows] /\ \A r \in Sends \ {q} : send'[r] = send[r]
          /\ send'[q].at = "keyed" /\ send'[q].sid = sid /\ send'[q].left = send[q].left
          /\ send'[q].loops = send[q].loops /\ send'[q].accepted = send[q].accepted
      <4>1. sid \in Nat /\ send \in [Sends -> SendRows]
        BY <2>0, <2>2
      <4>q. QED
        BY ONLY <4>1, <3>1, q \in Sends DEF SendRows
    <3>3. /\ row.at = "keyed" /\ row.sid = sid /\ row.left = send[q].left
          /\ row.loops = send[q].loops /\ row.accepted = send[q].accepted
      OBVIOUS
    <3> HIDE DEF row
    <3>q. QED
      BY <2>0, <2>5, <3>2, <3>3, RowOf
  <2>7. /\ DOMAIN store' \subseteq 1..ids'
        /\ \A s \in DOMAIN store' :
              /\ Shaped(store'[s])
              /\ store'[s].proposals = {} \/ (s \in DOMAIN store /\ store'[s].proposals = store[s].proposals)
    <3>1. DOMAIN store' = DOMAIN store \cup {sid}
      BY <2>1 DEF Opened
    <3>2. \A s \in DOMAIN store' : store'[s] = IF s = sid THEN [history |-> history, proposals |-> old.proposals] ELSE store[s]
      BY <2>1, <2>4 DEF Opened
    <3>q. QED
      BY <1>0, <2>2, <3>1, <3>2 DEF Shaped
  <2>8. row.sid <= ids' /\ row.loops \in 1..MaxLoops[q] /\ row.left <= MaxTools
    BY <2>0, <2>2
  <2>9. browser' \in 0..ids'
    BY <1>0, <2>1, <2>2
  <2> HIDE DEF row
  <2>q. QED
    BY <2>1, <2>2, <2>3, <2>5, <2>6, <2>7, <2>8, <2>9, StreamStep
<1>k. ASSUME NEW q \in Sends, MessagesBuilt(q) PROVE ChatInv'
  <2>0. /\ send[q] \in SendRows /\ send \in [Sends -> SendRows]
        /\ send[q].sid <= ids /\ send[q].loops \in 1..MaxLoops[q] /\ send[q].left <= MaxTools
        /\ MaxTools \in Nat /\ MaxLoops[q] \in Nat
    BY <1>s
  <2>1. UNCHANGED <<store, ids, browser, confirm, executed>> /\ send[q].at = "keyed"
    BY <1>k DEF MessagesBuilt
  <2>2. PICK row \in SendRows : send' = [send EXCEPT ![q] = row] /\ row.sid = send[q].sid
                              /\ row.loops = send[q].loops /\ row.left = send[q].left
    <3>1. CASE send' = [send EXCEPT ![q].at = "ended"]
      <4> DEFINE row == [send[q] EXCEPT !.at = "ended"]
      <4>1. row \in SendRows /\ row.sid = send[q].sid /\ row.loops = send[q].loops /\ row.left = send[q].left
        BY <2>0 DEF SendRows
      <4>q. QED
        BY <3>1, <4>1
    <3>2. CASE send' = [send EXCEPT ![q].at = "asks", ![q].accepted = Paired(History(q, store))]
      <4> DEFINE row == [at |-> "asks", sid |-> send[q].sid, left |-> send[q].left, loops |-> send[q].loops,
                         accepted |-> Paired(History(q, store))]
      <4>1. row \in SendRows
        BY <2>0, PairedIsBoolean DEF SendRows
      <4>2. send' = [send EXCEPT ![q] = row]
        <5> DEFINE paired == Paired(History(q, store))
        <5>1. paired \in BOOLEAN /\ send' = [send EXCEPT ![q].at = "asks", ![q].accepted = paired]
          BY <3>2, PairedIsBoolean
        <5>2. row.accepted = paired
          OBVIOUS
        <5> HIDE DEF paired
        <5>3. /\ send' \in [Sends -> SendRows] /\ \A r \in Sends \ {q} : send'[r] = send[r]
              /\ send'[q].at = "asks" /\ send'[q].sid = send[q].sid /\ send'[q].left = send[q].left
              /\ send'[q].loops = send[q].loops /\ send'[q].accepted = paired
          <6>1. send \in [Sends -> SendRows]
            BY <2>0
          <6>q. QED
            BY ONLY <5>1, <6>1, q \in Sends DEF SendRows
        <5>4. /\ row.at = "asks" /\ row.sid = send[q].sid /\ row.left = send[q].left
              /\ row.loops = send[q].loops
          OBVIOUS
        <5> HIDE DEF row
        <5>q. QED
          BY <2>0, <4>1, <5>2, <5>3, <5>4, RowOf
      <4>3. row.sid = send[q].sid /\ row.loops = send[q].loops /\ row.left = send[q].left
        OBVIOUS
      <4> HIDE DEF row
      <4>q. QED
        BY <4>1, <4>2, <4>3
    <3>q. QED
      BY <1>k, <3>1, <3>2 DEF MessagesBuilt
  <2>3. \A p \in Proposals : p[1][1] # q
    BY <1>0, <2>1 DEF Past
  <2>4. /\ browser' \in 0..ids /\ DOMAIN store' = DOMAIN store
        /\ \A s \in DOMAIN store' : Shaped(store'[s]) /\ store'[s].proposals = store[s].proposals
    BY <1>0, <2>1
  <2>q. QED
    BY <2>0, <2>1, <2>2, <2>3, <2>4, RowStep
<1>4. ASSUME NEW q \in Sends, Answered(q) PROVE ChatInv'
  <2>0. /\ send[q] \in SendRows /\ send \in [Sends -> SendRows]
        /\ send[q].sid <= ids /\ send[q].loops \in 1..MaxLoops[q] /\ send[q].left <= MaxTools
        /\ MaxTools \in Nat /\ MaxLoops[q] \in Nat
    BY <1>s
  <2>1. /\ DOMAIN store' = DOMAIN store
        /\ \A s \in DOMAIN store' : Shaped(store'[s]) /\ store'[s].proposals = store[s].proposals
    <3>1. CASE UNCHANGED store
      BY <1>0, <3>1
    <3>2. CASE store' = Added(q, <<Message("assistant", <<>>)>>)
      BY <1>m, <3>2
    <3>q. QED
      BY <1>4, <3>1, <3>2 DEF Answered
  <2>2. PICK row \in SendRows :
           /\ send' = [send EXCEPT ![q] = row]
           /\ row.sid = send[q].sid /\ row.loops = send[q].loops /\ row.left <= MaxTools
           /\ row.at \in {"ended", "tool"}
    <3>1. CASE send' = [send EXCEPT ![q].at = "ended"]
      <4> DEFINE row == [send[q] EXCEPT !.at = "ended"]
      <4>1. row \in SendRows /\ row.sid = send[q].sid /\ row.loops = send[q].loops /\ row.left <= MaxTools /\ row.at = "ended"
        BY <2>0 DEF SendRows
      <4>q. QED
        BY <3>1, <4>1
    <3>2. CASE \E n \in 1..MaxTools : send' = [send EXCEPT ![q].at = "tool", ![q].left = n]
      <4>1. PICK n \in 1..MaxTools : send' = [send EXCEPT ![q].at = "tool", ![q].left = n]
        BY <3>2
      <4> DEFINE row == [at |-> "tool", sid |-> send[q].sid, left |-> n, loops |-> send[q].loops,
                         accepted |-> send[q].accepted]
      <4>2. row \in SendRows
        BY <2>0 DEF SendRows
      <4>3. send' = [send EXCEPT ![q] = row]
        <5>1. /\ send' \in [Sends -> SendRows] /\ \A r \in Sends \ {q} : send'[r] = send[r]
              /\ send'[q].at = "tool" /\ send'[q].sid = send[q].sid /\ send'[q].left = n
              /\ send'[q].loops = send[q].loops /\ send'[q].accepted = send[q].accepted
          <6>1. n \in Nat /\ send \in [Sends -> SendRows]
            BY <2>0
          <6>q. QED
            BY ONLY <6>1, <4>1, q \in Sends DEF SendRows
        <5>2. /\ row.at = "tool" /\ row.sid = send[q].sid /\ row.left = n
              /\ row.loops = send[q].loops /\ row.accepted = send[q].accepted
          OBVIOUS
        <5> HIDE DEF row
        <5>q. QED
          BY <2>0, <4>2, <5>1, <5>2, RowOf
      <4>4. row.sid = send[q].sid /\ row.loops = send[q].loops /\ row.left <= MaxTools /\ row.at = "tool"
        BY <2>0
      <4> HIDE DEF row
      <4>q. QED
        BY <4>2, <4>3, <4>4
    <3>q. QED
      BY <1>4, <3>1, <3>2 DEF Answered
  <2>3. ASSUME NEW p \in Proposals, p[1][1] = q PROVE Past(q, p)'
    <3>1. p[1][2] < send[q].loops /\ send'[q] = row
      BY <1>0, <1>4, <2>0, <2>2, <2>3 DEF Answered, Past
    <3>q. QED
      BY <2>2, <3>1 DEF Past
  <2>4. UNCHANGED <<ids, browser, confirm, executed>>
    BY <1>4 DEF Answered
  <2>q. QED
    BY <1>0, <2>0, <2>1, <2>2, <2>3, <2>4, RowStep
<1>5. ASSUME NEW q \in Sends, ToolUse(q) PROVE ChatInv'
  <2>0. /\ send[q] \in SendRows /\ send \in [Sends -> SendRows]
        /\ send[q].sid <= ids /\ send[q].loops \in 1..MaxLoops[q] /\ send[q].left <= MaxTools
        /\ MaxTools \in Nat /\ MaxLoops[q] \in Nat
    BY <1>s
  <2> DEFINE row == [send[q] EXCEPT !.at = "runs"]
  <2>1. /\ row \in SendRows /\ row.sid = send[q].sid /\ row.loops = send[q].loops /\ row.left = send[q].left
        /\ row.at = "runs"
    BY <2>0 DEF SendRows
  <2>2. send' = [send EXCEPT ![q] = row] /\ UNCHANGED <<ids, browser, confirm, executed>>
    BY <1>5 DEF ToolUse
  <2>3. /\ DOMAIN store' = DOMAIN store
        /\ \A s \in DOMAIN store' : Shaped(store'[s]) /\ store'[s].proposals = store[s].proposals
    BY <1>5, <1>m DEF ToolUse
  <2> HIDE DEF row
  <2>4. ASSUME NEW p \in Proposals, p[1][1] = q PROVE Past(q, p)'
    BY <1>0, <1>5, <2>0, <2>1, <2>2, <2>4 DEF ToolUse, Past
  <2>q. QED
    BY <1>0, <2>0, <2>1, <2>2, <2>3, <2>4, RowStep
<1>6. ASSUME NEW q \in Sends, QueryRuns(q) PROVE ChatInv'
  <2>0. /\ send[q] \in SendRows /\ send \in [Sends -> SendRows]
        /\ send[q].sid <= ids /\ send[q].loops \in 1..MaxLoops[q] /\ send[q].left <= MaxTools
        /\ MaxTools \in Nat /\ MaxLoops[q] \in Nat
    BY <1>s
  <2>1. /\ DOMAIN store' = DOMAIN store
        /\ \A s \in DOMAIN store' : Shaped(store'[s]) /\ store'[s].proposals = store[s].proposals
    BY <1>6, <1>m DEF QueryRuns
  <2>2. PICK row \in SendRows :
           /\ send' = [send EXCEPT ![q] = row]
           /\ row.sid = send[q].sid /\ row.loops \in 1..MaxLoops[q] /\ row.left <= MaxTools
           /\ \A p \in Names :
                 /\ p[1][1] = q
                 /\ p[1][2] < send[q].loops \/ (p[1][2] = send[q].loops /\ p[1][3] >= send[q].left)
                 => Past(q, p)'
    BY <1>6, GoesOnPast DEF QueryRuns
  <2>3. ASSUME NEW p \in Proposals, p[1][1] = q PROVE Past(q, p)'
    <3>1. p[1][2] < send[q].loops \/ (p[1][2] = send[q].loops /\ p[1][3] >= send[q].left)
      BY <1>0, <1>6, <2>0, <2>3 DEF QueryRuns, Past, Names, SendRows
    <3>q. QED
      BY <1>0, <2>2, <2>3, <3>1
  <2>4. UNCHANGED <<ids, browser, confirm, executed>>
    BY <1>6 DEF QueryRuns
  <2>q. QED
    BY <1>0, <2>0, <2>1, <2>2, <2>3, <2>4, RowStep
<1>7. ASSUME NEW q \in Sends, ToolRaises(q) PROVE ChatInv'
  <2>0. /\ send[q] \in SendRows /\ send \in [Sends -> SendRows]
        /\ send[q].sid <= ids /\ send[q].loops \in 1..MaxLoops[q] /\ send[q].left <= MaxTools
        /\ MaxTools \in Nat /\ MaxLoops[q] \in Nat
    BY <1>s
  <2> DEFINE row == [send[q] EXCEPT !.at = "ended"]
  <2>1. /\ row \in SendRows /\ row.sid = send[q].sid /\ row.loops = send[q].loops /\ row.left = send[q].left
        /\ row.at = "ended"
    BY <2>0 DEF SendRows
  <2>2. send' = [send EXCEPT ![q] = row] /\ UNCHANGED <<store, ids, browser, confirm, executed>>
    BY <1>7 DEF ToolRaises
  <2> HIDE DEF row
  <2>3. \A p \in Proposals : p[1][1] = q => Past(q, p)'
    BY <2>0, <2>1, <2>2 DEF Past
  <2>q. QED
    BY <1>0, <2>0, <2>1, <2>2, <2>3, RowStep
<1>8. ASSUME NEW c \in Confirms, Executes(c) PROVE ChatInv'
  <2>1. /\ confirm[c].at = "executes" /\ confirm[c].of \in Proposals /\ executed[confirm[c].of] = 0
    <3>1. confirm[c].at = "executes" /\ confirm[c].of \in Proposals
      BY <1>8 DEF Executes, TakenOnce
    <3>2. c \in Takers(confirm[c].of)
      BY <3>1 DEF Takers
    <3>3. executed[confirm[c].of] # 1
      <4> SUFFICES ASSUME executed[confirm[c].of] = 1 PROVE FALSE
        OBVIOUS
      <4>1. PICK d \in Takers(confirm[c].of) : confirm[d].at = "answered"
        BY <3>1 DEF TakenOnce
      <4>q. QED
        BY <3>1, <3>2, <4>1 DEF TakenOnce
    <3>q. QED
      BY <3>1, <3>3 DEF TypesOfChat
  <2>2. /\ confirm' = [confirm EXCEPT ![c].at = "answered"] /\ UNCHANGED <<store, ids, browser, send>>
        /\ executed' = executed \/ executed' = [executed EXCEPT ![confirm[c].of] = 1]
    BY <1>8, <2>1 DEF Executes, TypesOfChat
  <2>3. /\ \A d \in Confirms : confirm'[d].of = confirm[d].of /\ (d # c => confirm'[d] = confirm[d])
        /\ confirm'[c].at = "answered" /\ confirm' \in [Confirms -> ConfirmRows]
    BY <2>2 DEF TypesOfChat, ConfirmRows
  <2>4. Proposals' = Proposals
    BY <2>2 DEF Proposals, TypesOfChat
  <2>5. \A p : Takers(p)' = Takers(p)
    BY <2>1, <2>3 DEF Takers
  <2>6. TypesOfChat'
    <3>1. executed' \in [Proposals -> 0..1]
      BY <2>1, <2>2 DEF TypesOfChat
    <3>q. QED
      BY <2>2, <2>3, <2>4, <3>1 DEF TypesOfChat
  <2>7. TakenOnce'
    <3>1. \A s \in DOMAIN store : \A p \in store[s].proposals : p # confirm[c].of
      BY <2>1 DEF TakenOnce, Takers
    <3>2. \A s \in DOMAIN store' : \A p \in store'[s].proposals : p[2] = s /\ Takers(p)' = {} /\ executed'[p] = 0
      BY <2>2, <2>5, <3>1 DEF TakenOnce, ChatTypeOK, TypesOfChat
    <3>3. \A p \in Proposals' : \A d, e \in Takers(p)' : d = e
      BY <2>4, <2>5 DEF TakenOnce
    <3>4. ASSUME NEW p \in Proposals, executed'[p] = 1 PROVE \E d \in Takers(p) : confirm'[d].at = "answered"
      <4>1. CASE p = confirm[c].of
        BY <2>1, <2>3, <4>1 DEF Takers
      <4>2. CASE p # confirm[c].of
        <5>1. executed[p] = 1
          BY <2>2, <3>4, <4>2 DEF TypesOfChat
        <5>2. PICK d \in Takers(p) : confirm[d].at = "answered"
          BY <5>1 DEF TakenOnce
        <5>q. QED
          BY <2>3, <4>2, <5>2 DEF Takers
      <4>q. QED
        BY <4>1, <4>2
    <3>5. \A p \in Proposals' : executed'[p] = 1 => \E d \in Takers(p)' : confirm'[d].at = "answered"
      BY <2>4, <2>5, <3>4
    <3>6. \A d \in Confirms : confirm'[d].at \in {"executes", "answered"} => confirm'[d].of \in Proposals'
      BY <2>1, <2>3, <2>4 DEF TakenOnce
    <3>q. QED
      BY ONLY <3>2, <3>3, <3>5, <3>6 DEF TakenOnce
  <2>8. ChatTypeOK' /\ NamesAreNew'
    BY <2>2, <2>4 DEF ChatTypeOK, NamesAreNew, Past
  <2>q. QED
    BY <2>6, <2>7, <2>8
<1>9. ASSUME NEW c \in Confirms, NEW p \in Proposals, ChatConfirm(c, p) PROVE ChatInv'
  <2> DEFINE row == [at |-> IF browser \in DOMAIN store /\ p \in store[browser].proposals
                            THEN "executes" ELSE "not found", of |-> p]
  <2>1. /\ confirm' = [confirm EXCEPT ![c] = row] /\ confirm[c].at = "idle"
        /\ store' = Popped(p) /\ UNCHANGED <<ids, browser, send, executed>>
    BY <1>9 DEF ChatConfirm
  <2>2. row \in ConfirmRows
    BY <1>0 DEF ConfirmRows
  <2>3. confirm' \in [Confirms -> ConfirmRows] /\ confirm'[c] = row /\ \A d \in Confirms \ {c} : confirm'[d] = confirm[d]
    BY <2>1, <2>2 DEF TypesOfChat
  <2>4. Proposals' = Proposals
    BY <2>1 DEF Proposals
  <2>5. /\ DOMAIN store' = DOMAIN store
        /\ \A s \in DOMAIN store' : /\ Shaped(store'[s]) /\ store'[s].proposals \subseteq store[s].proposals
                                    /\ s = browser => p \notin store'[s].proposals
    <3>1. CASE browser \in DOMAIN store
      <4>1. store' = [store EXCEPT ![browser].proposals = @ \ {p}]
        BY <2>1, <3>1 DEF Popped
      <4>2. store[browser] = [history |-> store[browser].history, proposals |-> store[browser].proposals]
        BY <1>0, <3>1 DEF Shaped
      <4>3. store'[browser] = [history |-> store[browser].history, proposals |-> store[browser].proposals \ {p}]
        BY <3>1, <4>1, <4>2
      <4>4. DOMAIN store' = DOMAIN store /\ \A s \in DOMAIN store \ {browser} : store'[s] = store[s]
        BY <4>1
      <4>q. QED
        BY <1>0, <4>3, <4>4 DEF Shaped
    <3>2. CASE browser \notin DOMAIN store
      BY <1>0, <2>1, <3>2 DEF Popped
    <3>q. QED
      BY <3>1, <3>2
  <2>6. \A r : r # p => Takers(r)' = Takers(r)
    BY <2>1, <2>3 DEF Takers
  <2>7. Takers(p)' = Takers(p) \/ (Takers(p)' = {c} /\ Takers(p) = {} /\ executed[p] = 0 /\ row.at = "executes")
    <3>1. CASE row.at = "executes"
      <4>1. Takers(p) = {} /\ executed[p] = 0
        BY <3>1 DEF TakenOnce
      <4>q. QED
        BY <2>3, <3>1, <4>1 DEF Takers
    <3>2. CASE row.at = "not found"
      BY <2>1, <2>3, <3>2 DEF Takers
    <3>q. QED
      BY <3>1, <3>2
  <2>8. row.at = "executes" => p \in store[browser].proposals /\ browser \in DOMAIN store
    OBVIOUS
  <2>9. row.of = p /\ row.at \in {"executes", "not found"}
    OBVIOUS
  <2> HIDE DEF row
  <2>10. TypesOfChat'
    BY <2>1, <2>3, <2>4, <2>5 DEF TypesOfChat
  <2>11. TakenOnce'
    <3>1. ASSUME NEW s \in DOMAIN store', NEW r \in store'[s].proposals
          PROVE  r[2] = s /\ Takers(r)' = {} /\ executed'[r] = 0
      <4>1. s \in DOMAIN store /\ r \in store[s].proposals
        BY <2>5
      <4>2. r[2] = s /\ Takers(r) = {} /\ executed[r] = 0
        BY <4>1 DEF TakenOnce
      <4>3. CASE r # p
        BY <2>1, <2>6, <4>2, <4>3
      <4>4. CASE r = p
        <5>1. row.at # "executes"
          BY <2>5, <2>8, <4>2, <4>4 DEF TakenOnce
        <5>q. QED
          BY <2>1, <2>7, <4>2, <4>4, <5>1
      <4>q. QED
        BY <4>3, <4>4
    <3>2. \A r \in Proposals' : \A d, e \in Takers(r)' : d = e
      BY <2>4, <2>6, <2>7 DEF TakenOnce
    <3>3. ASSUME NEW r \in Proposals, executed[r] = 1 PROVE \E d \in Takers(r)' : confirm'[d].at = "answered"
      <4>1. PICK d \in Takers(r) : confirm[d].at = "answered"
        BY <3>3 DEF TakenOnce
      <4>2. d \in Takers(r)'
        BY <2>6, <2>7, <3>3, <4>1
      <4>3. d # c /\ d \in Confirms
        BY <2>1, <4>1 DEF Takers
      <4>q. QED
        BY <2>3, <4>1, <4>2, <4>3
    <3>4. \A r \in Proposals' : executed'[r] = 1 => \E d \in Takers(r)' : confirm'[d].at = "answered"
      BY <2>1, <2>4, <3>3
    <3>5. \A d \in Confirms : confirm'[d].at \in {"executes", "answered"} => confirm'[d].of \in Proposals'
      BY <2>3, <2>4, <2>9 DEF TakenOnce
    <3>q. QED
      BY ONLY <3>1, <3>2, <3>4, <3>5 DEF TakenOnce
  <2>12. ChatTypeOK' /\ NamesAreNew'
    BY <2>1, <2>4, <2>5 DEF ChatTypeOK, NamesAreNew, Past
  <2>q. QED
    BY <2>10, <2>11, <2>12
<1>10. ASSUME ChatRestarts PROVE ChatInv'
  <2>1. store' = <<>> /\ UNCHANGED <<ids, browser, executed>>
    BY <1>10 DEF ChatRestarts
  <2>2. DOMAIN store' = {} /\ Proposals' = Proposals
    BY <2>1 DEF Proposals
  <2>3. send' \in [Sends -> SendRows] /\ \A q \in Sends : send'[q].sid = send[q].sid /\ send'[q].loops = send[q].loops
           /\ send'[q].left = send[q].left /\ (send'[q].at = "ended" \/ send'[q] = send[q])
    <3>1. send' = [q \in Sends |-> IF send[q].at = "idle" THEN send[q] ELSE [send[q] EXCEPT !.at = "ended"]]
      BY <1>10 DEF ChatRestarts
    <3>2. \A q \in Sends : LET r == [send[q] EXCEPT !.at = "ended"] IN
             r \in SendRows /\ r.at = "ended" /\ r.sid = send[q].sid /\ r.loops = send[q].loops /\ r.left = send[q].left
      BY <1>s DEF SendRows
    <3>q. QED
      BY <1>s, <3>1, <3>2
  <2>4. confirm' \in [Confirms -> ConfirmRows] /\ \A c \in Confirms :
           confirm'[c].of = confirm[c].of /\ (confirm'[c] = confirm[c]
                                                \/ (confirm[c].at = "executes" /\ confirm'[c].at = "answered"))
    <3>1. confirm' = [c \in Confirms |-> IF confirm[c].at = "executes" THEN [confirm[c] EXCEPT !.at = "answered"] ELSE confirm[c]]
      BY <1>10 DEF ChatRestarts
    <3>2. \A c \in Confirms : LET r == [confirm[c] EXCEPT !.at = "answered"] IN
             r \in ConfirmRows /\ r.at = "answered" /\ r.of = confirm[c].of
      BY DEF ConfirmRows, TypesOfChat
    <3>q. QED
      BY <3>1, <3>2 DEF TypesOfChat
  <2>5. \A p : Takers(p)' = Takers(p)
    BY <2>4 DEF Takers
  <2>6. ChatTypeOK'
    BY <2>1, <2>2, <2>3 DEF ChatTypeOK
  <2>7. TypesOfChat'
    BY <2>1, <2>2, <2>3, <2>4 DEF TypesOfChat
  <2>8. TakenOnce'
    <3>1. \A s \in DOMAIN store' : \A p \in store'[s].proposals : p[2] = s /\ Takers(p)' = {} /\ executed'[p] = 0
      BY <2>2
    <3>2. \A p \in Proposals' : \A d, e \in Takers(p)' : d = e
      BY <2>2, <2>5 DEF TakenOnce
    <3>3. ASSUME NEW p \in Proposals, executed[p] = 1 PROVE \E d \in Takers(p) : confirm'[d].at = "answered"
      <4>1. PICK d \in Takers(p) : confirm[d].at = "answered"
        BY <3>3 DEF TakenOnce
      <4>q. QED
        BY <2>4, <4>1 DEF Takers
    <3>4. \A p \in Proposals' : executed'[p] = 1 => \E d \in Takers(p)' : confirm'[d].at = "answered"
      BY <2>1, <2>2, <2>5, <3>3
    <3>5. \A d \in Confirms : confirm'[d].at \in {"executes", "answered"} => confirm'[d].of \in Proposals'
      BY <2>2, <2>4 DEF TakenOnce
    <3>q. QED
      BY ONLY <3>1, <3>2, <3>4, <3>5 DEF TakenOnce
  <2>9. NamesAreNew'
    BY <1>0, <2>2, <2>3 DEF NamesAreNew, Past
  <2>q. QED
    BY <2>6, <2>7, <2>8, <2>9
<1>11. CASE UNCHANGED chatVars
  <2>1. UNCHANGED <<store, ids, browser, send, confirm, executed>>
    BY <1>11 DEF chatVars
  <2>2. Proposals' = Proposals /\ \A p : Takers(p)' = Takers(p)
    BY <2>1 DEF Proposals, Takers
  <2>3. ChatTypeOK' /\ TypesOfChat'
    BY <2>1, <2>2 DEF ChatTypeOK, TypesOfChat
  <2>4. TakenOnce' /\ NamesAreNew'
    BY <2>1, <2>2 DEF TakenOnce, Takers, NamesAreNew, Past
  <2>q. QED
    BY <2>3, <2>4
<1>q. QED
  BY <1>1, <1>2, <1>3, <1>k, <1>4, <1>5, <1>6, <1>7, <1>8, <1>9, <1>10, <1>11, ProposesStep DEF ChatNext

-----------------------------------------------------------------------------
\* A set whose members are all equal has one at most.
LEMMA AtMostOne ==
    ASSUME NEW S, \A c, d \in S : c = d
    PROVE  Cardinality(S) <= 1
<1>1. CASE S = {}
  BY <1>1, FS_EmptySet
<1>2. CASE S # {}
  <2>1. PICK c \in S : S = {c}
    BY <1>2
  <2>2. Cardinality({c}) = 1
    BY FS_Singleton
  <2>q. QED
    BY <2>1, <2>2
<1>q. QED
  BY <1>1, <1>2

\* Confirmed twice, from two tabs or over a restart, an action is executed once
\* (chat.py, pop_proposal before the first await).
THEOREM ActionOnce == ChatSpec => []ExecutedOnce
<1>1. ChatInv => ExecutedOnce
  <2> SUFFICES ASSUME ChatInv PROVE ExecutedOnce
    OBVIOUS
  <2>1. \A p \in Proposals : executed[p] <= 1
    BY DEF ChatInv, TypesOfChat
  <2>2. ASSUME NEW p \in Proposals
        PROVE  Cardinality({c \in Confirms : confirm[c].of = p /\ confirm[c].at \in {"executes", "answered"}}) <= 1
    <3>1. \A c, d \in Takers(p) : c = d
      BY DEF ChatInv, TakenOnce
    <3>2. Cardinality(Takers(p)) <= 1
      BY <3>1, AtMostOne
    <3>q. QED
      BY <3>2 DEF Takers
  <2>q. QED
    BY <2>1, <2>2 DEF ExecutedOnce
<1>q. QED
  BY ChatInitInv, ChatStepInv, <1>1, PTL DEF ChatSpec

\* The chat's variables keep their types.
THEOREM ChatTypes == ChatSpec => []ChatTypeOK
<1>1. ChatInv => ChatTypeOK
  BY DEF ChatInv
<1>q. QED
  BY ChatInitInv, ChatStepInv, <1>1, PTL DEF ChatSpec
=============================================================================
